----------------------------- MODULE RecordBook -----------------------------
(***************************************************************************)
(* What the API promises about classification records, without the stages  *)
(* of handlers and the replies of databases: a call is told one outcome; a *)
(* record is drawn up once and written once, to the store of its call and  *)
(* possibly later than its client is told of it; "persisted" is told only  *)
(* of a record that is in the store then; a GET is told what is in the     *)
(* store, or that it is not there; a call keeps what it drew up to itself  *)
(* only if that cannot be served; and only a volatile store loses, at      *)
(* once, all it holds.                                                     *)
(***************************************************************************)
CONSTANTS
  Calls,      \* calls of the API, and the ids of the records they draw up
  Stores,     \* where records are kept
  Volatile,   \* the stores that may be lost
  Documents,  \* the records there can be
  Unservable, \* those that no answer can carry
  None

VARIABLES
  call,    \* call[r]: the store r uses and the id it asks for, None before
  draft,   \* draft[r]: the record drawn up for r, None before
  book,    \* book[s]: the records in store s, by id
  told     \* told[r]: what r was answered, None before

bookVars == <<call, draft, book, told>>

Kept(s, id) == id \in DOMAIN book[s]

Outcome(document, persisted, missing) ==
  [record |-> document, persisted |-> persisted, missing |-> missing]

Nothing == Outcome(None, FALSE, FALSE)

BookInit ==
  /\ call = [r \in Calls |-> None]
  /\ draft = [r \in Calls |-> None]
  /\ book = [s \in Stores |-> << >>]
  /\ told = [r \in Calls |-> None]

Tell(r, outcome) ==
  /\ told[r] = None
  /\ told' = [told EXCEPT ![r] = outcome]
  /\ UNCHANGED <<call, draft, book>>

(* A call comes in, and may be turned away at once.                        *)
Open(r) ==
  /\ call[r] = None
  /\ \E s \in Stores, t \in Calls \cup {None} :
       call' = [call EXCEPT ![r] = [store |-> s, target |-> t]]
  /\ told' \in {told, [told EXCEPT ![r] = Nothing]}
  /\ UNCHANGED <<draft, book>>

(* A call that asks for no record draws up one.                            *)
Draw(r) ==
  LET document == draft'[r]
  IN  /\ draft[r] = None
      /\ document \in Documents /\ document.id = r
      /\ told[r] = None
      /\ call[r] # None /\ call[r].target = None
      /\ draft' = [draft EXCEPT ![r] = document]
      /\ UNCHANGED <<call, book, told>>

(* The record is written, once, and as it was drawn up.                    *)
Write(r) ==
  LET s == call[r].store
  IN  /\ draft[r] # None
      /\ ~Kept(s, r)
      /\ book' = [book EXCEPT ![s] =
           [id \in DOMAIN book[s] \cup {r} |->
              IF id = r THEN draft[r] ELSE book[s][id]]]
      /\ UNCHANGED <<call, draft, told>>

Confirm(r) ==
  /\ draft[r] # None /\ draft[r] \notin Unservable
  /\ \E persisted \in BOOLEAN :
       /\ persisted => Kept(call[r].store, r)
       /\ Tell(r, Outcome(draft[r], persisted, FALSE))

Find(r) ==
  LET s == call[r].store
      t == call[r].target
  IN  /\ call[r] # None
      /\ Kept(s, t) /\ book[s][t] \notin Unservable
      /\ Tell(r, Outcome(book[s][t], FALSE, FALSE))

Miss(r) ==
  /\ call[r] # None
  /\ call[r].target # None
  /\ ~Kept(call[r].store, call[r].target)
  /\ Tell(r, Outcome(None, FALSE, TRUE))

(* The call fails, is not about records, or has one that cannot be served. *)
TellNothing(r) ==
  /\ call[r] # None
  /\ draft[r] = None \/ draft[r] \in Unservable
  /\ Tell(r, Nothing)

Lose(s) ==
  /\ s \in Volatile
  /\ book' = [book EXCEPT ![s] = << >>]
  /\ UNCHANGED <<call, draft, told>>

BookNext ==
  \/ \E r \in Calls :
       \/ Open(r) \/ Draw(r) \/ Write(r)
       \/ Confirm(r) \/ Find(r) \/ Miss(r) \/ TellNothing(r)
  \/ \E s \in Stores : Lose(s)

BookSpec == BookInit /\ [][BookNext]_bookVars
=============================================================================
