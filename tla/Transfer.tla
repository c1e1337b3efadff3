------------------------------ MODULE Transfer -------------------------------
(***************************************************************************)
(* Conversations leave the workspace as files and come back from them: the  *)
(* page settings/conversations, its calls (lib/api.ts), the routes          *)
(* (routes/conversations.ts), and the services that read the conversations  *)
(* one by one, encrypt and decrypt a file, and preview and import it.       *)
(*                                                                         *)
(* A file has the number of messages of each of its conversations.  The     *)
(* page awaits reading a file and every call, and does not stop the user    *)
(* from going on meanwhile; answers come in any order and may be lost.  What *)
(* it tells of successes and failures is left out.                          *)
(* ChooseFileStillEncrypted and SerializeOrStop are mistakes for mutation   *)
(* tests (see README.md).                                                   *)
(***************************************************************************)
EXTENDS Naturals, FiniteSets, FiniteSetsExt, Functions

CONSTANTS Words,           \* passphrases of files
          BodyLimit,       \* what the server takes as a body
          MaxThreads, MaxPerThread,  \* of ExportFileSchema
          MaxTotal,        \* MAX_TOTAL_MESSAGES
          MaxRequests, MaxTurns      \* bounds

ASSUME TransferAssumption ==
    /\ {BodyLimit, MaxThreads, MaxPerThread, MaxTotal, MaxRequests, MaxTurns} \subseteq Nat
    /\ {"", "another"} \cap Words = {} /\ Words # {}

NoWord == ""
WrongWord == "another"   \* of no file
Empty == [t \in {} |-> 0]
File(kind, w, holds) == [kind |-> kind, word |-> w, holds |-> holds]
NoFile == File("none", NoWord, Empty)
Messages(holds) == MapThenSumSet(LAMBDA t : holds[t], DOMAIN holds)

VARIABLES
    chats, ids,            \* the messages of every conversation; ids given out, 1..ids
    turns,                 \* changes of conversations by others
    disk,                  \* files of the user
    picked, data,          \* importFile, importFileData
    preview,               \* the file whose counts are shown
    encrypted, asking,     \* isEncryptedImport, showImportPassphrase
    word,                  \* importPassphrase
    requests, asked,        \* reads and calls under way; how many there were
    imports,               \* history: imports of the present choice
    unseen,                \* history: something was imported that was not on show
    refused,               \* history: what was on show was refused
    odd                    \* history: "overlap", "retyped", "lost"

chatVars == <<chats, ids, turns>>
choiceVars == <<picked, data, encrypted, asking, word>>
transferHistory == <<imports, unseen, refused>>
transferVars == <<chatVars, disk, choiceVars, preview, requests, asked, transferHistory, odd>>

\* Files from elsewhere: one that is no JSON, one with a conversation, and the
\* same encrypted.
Foreign ==
    LET one == [t \in {1} |-> 1]
    IN {File("garbage", NoWord, Empty), File("plain", NoWord, one)}
          \cup {File("encrypted", CHOOSE w \in Words : TRUE, one)}

\* A workspace with two conversations.
TransferInit ==
    /\ chats = [t \in 1..2 |-> 1] /\ ids = 2 /\ turns = 0
    /\ disk = Foreign
    /\ picked = NoFile /\ data = NoFile /\ preview = NoFile
    /\ encrypted = FALSE /\ asking = FALSE /\ word = NoWord
    /\ requests = {} /\ asked = 0
    /\ imports = 0 /\ unseen = FALSE /\ refused = FALSE /\ odd = {}

-----------------------------------------------------------------------------
(* Meanwhile: a turn of a conversation, a new one, or a deletion.           *)

WithChat(chat, n) == [t \in DOMAIN chats \cup {chat} |-> IF t = chat THEN n ELSE chats[t]]

Turn ==
    /\ turns < MaxTurns /\ turns' = turns + 1
    /\ \/ \E t \in DOMAIN chats : chats' = WithChat(t, chats[t] + 1) /\ ids' = ids
       \/ chats' = WithChat(ids + 1, 1) /\ ids' = ids + 1
       \/ \E t \in DOMAIN chats : chats' = [u \in DOMAIN chats \ {t} |-> chats[u]] /\ ids' = ids
    /\ UNCHANGED <<disk, choiceVars, preview, requests, asked,
                   transferHistory, odd>>

-----------------------------------------------------------------------------
(* The calls of lib/api.ts                                                  *)

Request(does, f, w) ==
    [n |-> asked + 1, does |-> does, stage |-> "sent", file |-> f, word |-> w, shown |-> preview,
     start |-> Empty, todo |-> {}, got |-> Empty, ok |-> FALSE]
ExportCall == Request("export", NoFile, NoWord)
EncryptedExportCall(w) == Request("export", NoFile, w)
PreviewCall(f) == Request("preview", f, NoWord)
ImportCall(f) == Request("import", f, NoWord)
EncryptedPreviewCall(f, w) == Request("encryptedPreview", f, w)
EncryptedImportCall(f, w) == Request("encryptedImport", f, w)

Under(does) == {c \in requests : c.does \in does}
Imports == {"import", "encryptedImport"}
Previews == {"preview", "encryptedPreview"}
Exporting == Under({"export"}) # {}
Importing == Under(Imports) # {}

Starts(c) ==
    /\ asked < MaxRequests /\ asked' = asked + 1
    /\ requests' = requests \cup {c}

-----------------------------------------------------------------------------
(* The page                                                                 *)

ExportAll ==
    /\ ~Exporting /\ Starts(ExportCall)
    /\ UNCHANGED <<chatVars, disk, choiceVars, preview, transferHistory, odd>>

\* The passphrase is typed twice.
ExportEncrypted(w, confirmed) ==
    /\ ~Exporting /\ w = confirmed /\ w # NoWord
    /\ Starts(EncryptedExportCall(w))
    /\ UNCHANGED <<chatVars, disk, choiceVars, preview, transferHistory, odd>>

Overlaps == IF Under({"read"} \cup Previews \cup Imports) # {} THEN odd \cup {"overlap"} ELSE odd

ChooseFileStillEncrypted(f) ==
    /\ Starts(Request("read", f, NoWord))
    /\ picked' = f /\ preview' = NoFile
    /\ asking' = FALSE /\ word' = NoWord
    /\ imports' = 0 /\ odd' = Overlaps
    /\ UNCHANGED <<chatVars, disk, data, encrypted, unseen, refused>>
ChooseFile(f) ==
    /\ Starts(Request("read", f, NoWord))
    /\ picked' = f /\ preview' = NoFile
    /\ encrypted' = FALSE /\ asking' = FALSE /\ word' = NoWord
    /\ imports' = 0 /\ odd' = Overlaps
    /\ UNCHANGED <<chatVars, disk, data, unseen, refused>>

\* The file is read and parsed.
FileRead(c) ==
    /\ c.does = "read" /\ c.file.kind # "garbage"
    /\ data' = c.file
    /\ IF c.file.kind = "encrypted"
       THEN /\ encrypted' = TRUE /\ asking' = TRUE
            /\ requests' = requests \ {c} /\ asked' = asked
       ELSE /\ asked < MaxRequests /\ asked' = asked + 1
            /\ requests' = (requests \ {c}) \cup {PreviewCall(c.file)}
            /\ UNCHANGED <<encrypted, asking>>
    /\ UNCHANGED <<chatVars, disk, picked, word, preview, transferHistory, odd>>

\* It is not JSON, or its preview was refused or lost.
FileFailed(c) ==
    /\ \/ c.does = "read" /\ c.file.kind = "garbage"
       \/ c.does = "preview" /\ ~(c.stage = "done" /\ c.ok)
    /\ requests' = requests \ {c}
    /\ picked' = NoFile /\ data' = NoFile
    /\ UNCHANGED <<chatVars, disk, encrypted, asking, word, preview, asked,
                   transferHistory, odd>>

TypeWord(w) ==
    /\ asking /\ word # w /\ word' = w
    /\ odd' = IF Under({"encryptedPreview"}) # {} THEN odd \cup {"retyped"} ELSE odd
    /\ UNCHANGED <<chatVars, disk, picked, data, encrypted, asking, preview,
                   requests, asked, transferHistory>>

\* "Decrypt & Preview" is not disabled meanwhile.
PreviewEncrypted ==
    /\ asking /\ word # NoWord
    /\ Starts(EncryptedPreviewCall(data, word))
    /\ odd' = Overlaps
    /\ UNCHANGED <<chatVars, disk, choiceVars, preview, transferHistory>>

\* "Confirm Import" is there while a preview is shown; without data it returns.
Confirm ==
    /\ preview # NoFile /\ ~Importing /\ data # NoFile
    /\ Starts(IF encrypted THEN EncryptedImportCall(data, word) ELSE ImportCall(data))
    /\ odd' = Overlaps
    /\ UNCHANGED <<chatVars, disk, choiceVars, preview, transferHistory>>

-----------------------------------------------------------------------------
(* The routes and services of the API                                       *)

\* An encrypted file is written in letters for bytes, and is longer.
Body(f) == Cardinality(DOMAIN f.holds) + Messages(f.holds) + (IF f.kind = "encrypted" THEN 1 ELSE 0)
WithOptions == 1   \* the options of an import are in its body too

FollowsSchema(holds) ==
    /\ Cardinality(DOMAIN holds) <= MaxThreads
    /\ \A t \in DOMAIN holds : holds[t] <= MaxPerThread
Decrypts(c) == c.file.kind = "encrypted" /\ c.word = c.file.word
ValidPreview(holds) == FollowsSchema(holds) /\ Messages(holds) <= MaxTotal

PreviewRoute(c) == c.file.kind = "plain" /\ ValidPreview(c.file.holds)
ImportRoute(c) == c.file.kind = "plain" /\ FollowsSchema(c.file.holds)
EncryptedPreviewRoute(c) == Decrypts(c) /\ ValidPreview(c.file.holds)
EncryptedImportRoute(c) == Decrypts(c) /\ FollowsSchema(c.file.holds)

Becomes(c, d) == requests' = (requests \ {c}) \cup {d}

HandlePreview(c) ==
    /\ c.does \in Previews /\ c.stage = "sent"
    /\ Becomes(c, [c EXCEPT !.stage = "done",
                            !.ok = /\ Body(c.file) <= BodyLimit
                                   /\ IF c.does = "preview" THEN PreviewRoute(c) ELSE EncryptedPreviewRoute(c)])
    /\ UNCHANGED <<chatVars, disk, choiceVars, preview, asked,
                   transferHistory, odd>>

\* One transaction; every conversation gets an id of its own.
ImportAll(c) ==
    LET holds == c.file.holds
        new == ids + 1..ids + Cardinality(DOMAIN holds)
        from == CHOOSE f \in Bijection(new, DOMAIN holds) : TRUE
    IN
    /\ chats' = [t \in DOMAIN chats \cup new |-> IF t \in new THEN holds[from[t]] ELSE chats[t]]
    /\ ids' = ids + Cardinality(new)

HandleImport(c) ==
    LET ok == /\ Body(c.file) + WithOptions <= BodyLimit
              /\ IF c.does = "import" THEN ImportRoute(c) ELSE EncryptedImportRoute(c)
    IN
    /\ c.does \in Imports /\ c.stage = "sent"
    /\ Becomes(c, [c EXCEPT !.stage = "done", !.ok = ok])
    /\ IF ok THEN ImportAll(c) /\ imports' = imports + 1 ELSE UNCHANGED <<chats, ids, imports>>
    /\ unseen' = (unseen \/ (ok /\ c.file # c.shown))
    /\ refused' = (refused \/ (~ok /\ Body(c.file) + WithOptions <= BodyLimit))
    /\ UNCHANGED <<turns, disk, choiceVars, preview, asked, odd>>

\* exportAllConversations: the list of ids, then every conversation by itself.
ListChats(c) ==
    /\ c.does = "export" /\ c.stage = "sent"
    /\ Becomes(c, [c EXCEPT !.stage = "reading", !.start = chats, !.todo = DOMAIN chats])
    /\ UNCHANGED <<chatVars, disk, choiceVars, preview, asked,
                   transferHistory, odd>>

With(got, t) == [u \in DOMAIN got \cup {t} |-> IF u = t THEN chats[t] ELSE got[u]]

\* serializeThread: a conversation that is gone is left out.
SerializeOrStop(c, t) ==
    /\ c.stage = "reading" /\ t \in c.todo
    /\ Becomes(c, IF t \in DOMAIN chats THEN [c EXCEPT !.todo = @ \ {t}, !.got = With(@, t)]
                  ELSE [c EXCEPT !.todo = {}])
    /\ UNCHANGED <<chatVars, disk, choiceVars, preview, asked,
                   transferHistory, odd>>
Serialize(c, t) ==
    /\ c.stage = "reading" /\ t \in c.todo
    /\ Becomes(c, [c EXCEPT !.todo = @ \ {t}, !.got = IF t \in DOMAIN chats THEN With(@, t) ELSE @])
    /\ UNCHANGED <<chatVars, disk, choiceVars, preview, asked,
                   transferHistory, odd>>

Encrypt(c) == File(IF c.word = NoWord THEN "plain" ELSE "encrypted", c.word, c.got)
SendExport(c) ==
    /\ c.stage = "reading" /\ c.todo = {}
    /\ Becomes(c, [c EXCEPT !.stage = "done", !.ok = TRUE, !.file = Encrypt(c)])
    /\ UNCHANGED <<chatVars, disk, choiceVars, preview, asked,
                   transferHistory, odd>>

-----------------------------------------------------------------------------
(* What the page does with the answers                                      *)

Exported(c) ==
    /\ c.does = "export" /\ c.stage = "done"
    /\ requests' = requests \ {c} /\ disk' = disk \cup {c.file}
    /\ UNCHANGED <<chatVars, choiceVars, preview, asked, transferHistory, odd>>

ExportFailed(c) ==
    /\ c.does = "export"
    /\ requests' = requests \ {c}
    /\ UNCHANGED <<chatVars, disk, choiceVars, preview, asked, transferHistory, odd>>

Previewed(c) ==
    /\ c.does \in Previews /\ c.stage = "done" /\ c.ok
    /\ requests' = requests \ {c}
    /\ preview' = c.file
    /\ asking' = IF c.does = "encryptedPreview" THEN FALSE ELSE asking
    /\ UNCHANGED <<chatVars, disk, picked, data, encrypted, word, asked,
                   transferHistory, odd>>

EncryptedPreviewFailed(c) ==
    /\ c.does = "encryptedPreview" /\ ~(c.stage = "done" /\ c.ok)
    /\ requests' = requests \ {c}
    /\ preview' = NoFile
    /\ UNCHANGED <<chatVars, disk, choiceVars, asked, transferHistory, odd>>

Imported(c) ==
    /\ c.does \in Imports /\ c.stage = "done" /\ c.ok
    /\ requests' = requests \ {c}
    /\ picked' = NoFile /\ data' = NoFile /\ preview' = NoFile
    /\ encrypted' = FALSE /\ word' = NoWord
    /\ UNCHANGED <<chatVars, disk, asking, asked, transferHistory, odd>>

\* The preview stays, to be confirmed again.
ImportFailed(c) ==
    /\ c.does \in Imports
    /\ requests' = requests \ {c}
    /\ odd' = IF c.stage = "done" /\ c.ok THEN odd \cup {"lost"} ELSE odd
    /\ UNCHANGED <<chatVars, disk, choiceVars, preview, asked, transferHistory>>

TransferNext ==
    \/ Turn
    \/ ExportAll
    \/ \E w, confirmed \in Words \cup {NoWord} : ExportEncrypted(w, confirmed)
    \/ \E f \in disk : ChooseFile(f)
    \/ \E w \in Words \cup {WrongWord} : TypeWord(w)
    \/ PreviewEncrypted
    \/ Confirm
    \/ \E c \in requests :
          \/ FileRead(c) \/ FileFailed(c)
          \/ HandlePreview(c) \/ HandleImport(c)
          \/ ListChats(c) \/ SendExport(c)
          \/ \E t \in c.todo : Serialize(c, t)
          \/ Exported(c) \/ ExportFailed(c)
          \/ Previewed(c) \/ EncryptedPreviewFailed(c)
          \/ Imported(c) \/ ImportFailed(c)

TransferSpec == TransferInit /\ [][TransferNext]_transferVars

-----------------------------------------------------------------------------

TransferTypeOK ==
    /\ DOMAIN chats \subseteq 1..ids
    /\ word \in Words \cup {NoWord, WrongWord}
    /\ odd \subseteq {"overlap", "retyped", "lost"}

(* Unless the user went on while a file was read, previewed or imported:    *)
(* what is on show is what would be imported, and by the route for its      *)
(* kind; what was imported had been on show, once unless an answer was      *)
(* lost; and what was on show was not refused, unless the passphrase was    *)
(* changed during the preview or the options made its body too long.         *)
ImportAsShown ==
    "overlap" \notin odd =>
        /\ preview # NoFile => picked = preview /\ data = preview /\ encrypted = (preview.kind = "encrypted")
        /\ ~unseen
        /\ "lost" \notin odd => imports <= 1
        /\ "retyped" \notin odd => ~refused

(* An export has every conversation that was there from its beginning to    *)
(* its end, as it was at some time in between, and none that was not there. *)
ExportWhole ==
    \A c \in requests : c.does = "export" /\ c.stage = "done" =>
        /\ DOMAIN c.got \subseteq DOMAIN c.start
        /\ DOMAIN c.start \cap DOMAIN chats \subseteq DOMAIN c.got
        /\ \A t \in DOMAIN c.got :
              c.start[t] <= c.got[t] /\ (t \in DOMAIN chats => c.got[t] <= chats[t])
=============================================================================
