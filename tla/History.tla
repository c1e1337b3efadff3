------------------------------- MODULE History -------------------------------
(***************************************************************************)
(* The conversations (ChatThread) of one user: the list that clients page  *)
(* through, renaming and deletion, the saving of a discussion              *)
(* (conversationHistoryService.ts), imports (conversationImportService.ts) *)
(* and the two ways chats reach the list: resolveThreadId creates a row    *)
(* (chatJobService.ts), the worker writes to it when a turn ends           *)
(* (chatJobProcessor.ts, in detail in ConversationUrls.tla).               *)
(*                                                                         *)
(* What is said in a chat is not told apart.                               *)
(***************************************************************************)
EXTENDS Naturals, Sequences, SequencesExt, FiniteSets, FiniteSetsExt

CONSTANTS Threads,      \* ids, each used once
          NoThread,
          Limit,        \* rows of a page
          Rounds,       \* entries of a discussion that is saved, MAX_DISCUSSION_ENTRIES at most
          MaxChanges

ASSUME HistoryAssumption ==
    /\ IsFiniteSet(Threads) /\ NoThread \notin Threads
    /\ Limit \in Nat \ {0} /\ Rounds \in Nat \ {0}
    /\ MaxChanges \in Nat

VARIABLES
    listing,    \* the threads in the database by (updatedAt desc, id desc)
    used,       \* ids given out
    saving,     \* a saveDiscussion under way: its thread, messages still to write
    pager,      \* a client that pages: done or not, cursor, rows it was given
    changes,
    moved,      \* history: threads written or deleted since paging began
    adrift,     \* history: the cursor's thread was among them while it was the cursor
    first       \* history: the threads there were when paging began

listVars == <<listing, used, moved, adrift>>
historyVars == <<listVars, saving, pager, changes, first>>

Kept == ToSet(listing)

Place(rows, t) == CHOOSE i \in DOMAIN rows : rows[i] = t
Without(t) == RemoveAt(listing, Place(listing, t))

NoSaving == [thread |-> NoThread, left |-> 0]

HistoryInit ==
    /\ listing = <<>> /\ used = {}
    /\ saving = NoSaving
    /\ pager = [pc |-> "idle", cursor |-> NoThread, rows |-> <<>>]
    /\ changes = 0
    /\ moved = {} /\ adrift = FALSE /\ first = {}

Change == changes < MaxChanges /\ changes' = changes + 1

-----------------------------------------------------------------------------
(* Writes of the table as the pager and the list see them.                  *)

Notices(T) ==
    /\ moved' = IF pager.pc = "reading" THEN moved \cup T ELSE moved
    /\ adrift' = (adrift \/ (pager.pc = "reading" /\ pager.cursor \in T))

\* @updatedAt: every update of the row brings it to the top of the list.
Touch(t) ==
    /\ t \in Kept
    /\ listing' = <<t>> \o Without(t)
    /\ Notices({t}) /\ UNCHANGED used

Insert(t) ==
    /\ t \notin used /\ used' = used \cup {t}
    /\ listing' = <<t>> \o listing
    /\ Notices({t})

-----------------------------------------------------------------------------
(* The history pages.                                                       *)

\* A cursor names a row: the page begins after its present place, and nothing
\* follows a cursor that is gone.
PageAfterInclusive(c) ==
    IF c = NoThread THEN listing
    ELSE IF c \in Kept THEN SubSeq(listing, Place(listing, c), Len(listing)) ELSE <<>>
PageAfter(c) ==
    IF c = NoThread THEN listing
    ELSE IF c \in Kept THEN SubSeq(listing, Place(listing, c) + 1, Len(listing)) ELSE <<>>

\* listThreads: one row more than the page tells whether there is a next one.
ListThreads ==
    LET rows == PageAfter(pager.cursor)
        page == SubSeq(rows, 1, Min({Limit, Len(rows)}))
        more == Len(rows) > Limit
    IN
    /\ pager.pc # "done"
    /\ pager' = [pc |-> IF more THEN "reading" ELSE "done",
                 cursor |-> IF more THEN Last(page) ELSE NoThread,
                 rows |-> pager.rows \o page]
    /\ first' = IF pager.pc = "idle" THEN Kept ELSE first
    /\ UNCHANGED <<listVars, saving, changes>>

RenameThread(t) ==
    /\ Change
    /\ Touch(t)
    /\ UNCHANGED <<saving, pager, first>>

\* Messages and jobs go with the row.
DeleteThread(t) ==
    /\ Change
    /\ t \in Kept
    /\ listing' = Without(t)
    /\ Notices({t})
    /\ UNCHANGED <<used, saving, pager, first>>

\* A turn without a thread creates one, and the end of a turn writes its URL.
ResolveThread(t) ==
    /\ Insert(t)
    /\ UNCHANGED <<saving, pager, changes, first>>

TurnEnds(t) ==
    /\ Change
    /\ Touch(t)
    /\ UNCHANGED <<saving, pager, first>>

\* saveDiscussion: the thread, the topic and every entry are inserts of their own;
\* the foreign key rejects them once the thread is deleted.
CreateDiscussion(t) ==
    /\ saving = NoSaving
    /\ Insert(t)
    /\ saving' = [thread |-> t, left |-> Rounds + 1]
    /\ UNCHANGED <<pager, changes, first>>

SaveEntry ==
    /\ saving.thread \in Kept
    /\ saving' = IF saving.left = 1 THEN NoSaving ELSE [saving EXCEPT !.left = @ - 1]
    /\ UNCHANGED <<listVars, pager, changes, first>>

\* A rejected insert is answered 400; what was written stays.
SaveFails ==
    /\ saving # NoSaving
    /\ IF saving.thread \in Kept THEN Change ELSE UNCHANGED changes
    /\ saving' = NoSaving
    /\ UNCHANGED <<listVars, pager, first>>

-----------------------------------------------------------------------------
(* Import of a file of n threads.  Of the metadata an export keeps neither  *)
(* the kind nor the round, nor does it have URLs: what is imported is a     *)
(* plain chat.  Exports only read.                                          *)

\* One transaction.  updatedAt is the file's, so that the new rows may come anywhere
\* in the list.
ImportConversations(n) ==
    /\ Change
    /\ \E T \in kSubset(n, Threads \ used) :
          /\ used' = used \cup T
          /\ \E l \in SetToSeqs(Kept \cup T) :
                /\ \A i, j \in DOMAIN listing : i < j => Place(l, listing[i]) < Place(l, listing[j])
                /\ listing' = l
          /\ Notices(T)
    /\ UNCHANGED <<saving, pager, first>>

HistoryNext ==
    \/ ListThreads
    \/ \E t \in Threads : \/ RenameThread(t) \/ DeleteThread(t) \/ ResolveThread(t)
                          \/ TurnEnds(t) \/ CreateDiscussion(t)
    \/ SaveEntry \/ SaveFails
    \/ \E n \in 1..Cardinality(Threads) : ImportConversations(n)

HistorySpec == HistoryInit /\ [][HistoryNext]_historyVars

-----------------------------------------------------------------------------

\* conversationHistoryService.ts:76-78 wants that "cursor paging never skips or
\* duplicates a row": a client that has paged to the end was given every thread that
\* was there at the start and was not written or deleted meanwhile exactly once, and
\* no other thread than those and the ones written meanwhile; unless the row its
\* cursor named was itself written or deleted between two pages.
PagesOnce ==
    pager.pc = "done" /\ ~adrift =>
        /\ \A t \in first \ moved : Cardinality({i \in DOMAIN pager.rows : pager.rows[i] = t}) = 1
        /\ ToSet(pager.rows) \subseteq first \cup moved
=============================================================================
