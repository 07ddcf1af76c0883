------------------------------ MODULE ListScreen ------------------------------
(***************************************************************************)
(* The screen S0101.js that searches the role groups, shows them page by   *)
(* page and deletes one, with the server's part of it and the backdrop of  *)
(* the page (PageBlock).  S0201.js, S0401.js and S0501.js are of the same  *)
(* form.                                                                   *)
(*                                                                         *)
(* A task of the browser is one step and ends with a digest.  Nothing in   *)
(* the page waits for an answer: the requests that are under way are taken *)
(* by the server, and answered, in any order.                              *)
(***************************************************************************)
EXTENDS PageBlock, Sequences, FiniteSets

CONSTANTS
    Items,   \* the groups, numbered in the order the server sorts them by
    Limit,   \* the rows of a page
    MaxAsks  \* bound of the model: how many requests the screen posts

ASSUME ListAssumption ==
    /\ Items \subseteq Nat \ {0}
    /\ IsFiniteSet(Items)
    /\ Limit \in Nat \ {0}
    /\ MaxAsks \in Nat \ {0}

VARIABLES
    view,       \* model.roles: its rows, and the number and total of its pagination
    searching,  \* model.searching
    chosen,     \* the group whose deletion the user is to confirm, or 0
    asks,       \* the requests in the order they are posted, see Ask
    stored,     \* the groups in the database
    shown,      \* history: the search whose rows are shown, or 0 for none
    cut         \* history: an answer has come while the server was down

screen == <<view, searching, chosen, asks, stored, shown, cut>>
vars == <<page, screen>>

View == [rows : SUBSET Items, number : Nat, total : Nat]
Nothing == [rows |-> {}, number |-> 1, total |-> 0]

\* of:     the page that is searched, or the group that is deleted
\* state:  in flight (sent, or answered by the server, if only with emptied
\*         rows), shown, failed, garbled (an answer that is not JSON),
\*         or lost: a deletion is done that the screen does not know of
\* answer: what the server has found for a search
InFlight == {"sent", "answered", "emptied"}
Ask == [kind : {"search", "delete"}, of : Nat,
        state : InFlight \union {"shown", "failed", "lost", "garbled"},
        answer : View]

TypeOK ==
    /\ PageType
    /\ view \in View
    /\ searching \in BOOLEAN
    /\ chosen \in Items \union {0}
    /\ asks \in Seq(Ask)
    /\ stored \in SUBSET Items
    /\ shown \in DOMAIN asks \union {0}
    /\ cut \in BOOLEAN

IsSearch(i) == asks[i].kind = "search"
UnderWay(i) == asks[i].state \in InFlight
Pending == {i \in DOMAIN asks : UnderWay(i)}

-----------------------------------------------------------------------------
(* What the user does *)

\* The model leaves room for the search that follows a deletion.
Room(n) ==
    Len(asks) + Cardinality({i \in Pending : ~IsSearch(i)}) + n <= MaxAsks

New(kind, of) == [kind |-> kind, of |-> of, state |-> "sent", answer |-> Nothing]

\* onSearch(p)
OnSearch(requests, p) ==
    /\ searching' = TRUE
    /\ asks' = Append(requests, New("search", p))

\* The buttons of the search form, which are disabled during a search.
Search ==
    /\ chosen = 0
    /\ ~searching
    /\ Room(1)
    /\ OnSearch(asks, 1)
    /\ block' = Digest(Post(block))
    /\ UNCHANGED <<timer, checking, view, chosen, stored, shown, cut>>

Pages(total) == IF total = 0 THEN 1 ELSE (total + Limit - 1) \div Limit

\* A link of the pagination, whose model is the number itself.
Turn(p) ==
    /\ chosen = 0
    /\ p \in (1 .. Pages(view.total)) \ {view.number}
    /\ Room(1)
    /\ view' = [view EXCEPT !.number = p]
    /\ OnSearch(asks, p)
    /\ block' = Digest(Post(block))
    /\ UNCHANGED <<timer, checking, chosen, stored, shown, cut>>

\* The menu of a row, and the dialog that it opens.
Choose(x) ==
    /\ chosen = 0
    /\ ~block.backdrop
    /\ x \in view.rows
    /\ chosen' = x
    /\ block' = Digest(block)
    /\ UNCHANGED <<timer, checking, view, searching, asks, stored, shown, cut>>

Cancel ==
    /\ chosen # 0
    /\ chosen' = 0
    /\ block' = Digest(block)
    /\ UNCHANGED <<timer, checking, view, searching, asks, stored, shown, cut>>

\* onDelete(data)
Confirm ==
    /\ chosen # 0
    /\ Room(2)
    /\ chosen' = 0
    /\ asks' = Append(asks, New("delete", chosen))
    /\ block' = Digest(Post(block))
    /\ UNCHANGED <<timer, checking, view, searching, stored, shown, cut>>

-----------------------------------------------------------------------------
(* The server *)

Before(x) == Cardinality({y \in stored : y < x})

\* The total is counted by a query of its own before the rows are searched; here
\* both see the same groups.  A group is one row, as it is if it belongs to no
\* more than one company.
Found(p) ==
    [rows |-> {x \in stored : Before(x) \div Limit = p - 1},
     number |-> p, total |-> Cardinality(stored)]

ServerFinds(i) ==
    /\ IsSearch(i)
    /\ asks[i].state = "sent"
    /\ asks' = [asks EXCEPT ![i].state = "answered", ![i].answer = Found(asks[i].of)]
    /\ UNCHANGED <<page, view, searching, chosen, stored, shown, cut>>

\* The rows cannot be copied: the exception is caught and there are none.
ServerEmpties(i) ==
    /\ IsSearch(i)
    /\ asks[i].state = "sent"
    /\ asks' = [asks EXCEPT ![i].state = "emptied", ![i].answer = Nothing]
    /\ UNCHANGED <<page, view, searching, chosen, stored, shown, cut>>

\* Of a group that is not there any more there is an error (DeleteFails).  A
\* request that the browser has given up on may still come to the server.
ServerDeletes(i) ==
    /\ ~IsSearch(i)
    /\ asks[i].state \in {"sent", "failed"}
    /\ asks[i].of \in stored
    /\ stored' = stored \ {asks[i].of}
    /\ asks' = [asks EXCEPT ![i].state = IF @ = "sent" THEN "answered" ELSE "lost"]
    /\ UNCHANGED <<page, view, searching, chosen, shown, cut>>

-----------------------------------------------------------------------------
(* The answers: a digest, and the callbacks of ajaxService.post in it *)

Closed(i, state) == [asks EXCEPT ![i].state = state, ![i].answer = Nothing]

Answered ==
    /\ block' = DigestOff(Raise(DigestOn(block)))
    /\ cut' = (cut \/ block.offline)
    /\ UNCHANGED <<timer, checking, chosen, stored>>

\* A page without rows is shown as the first page of no rows.
Shows(answer) == IF answer.rows = {} THEN Nothing ELSE answer

\* Slip: the callback returns before the form is enabled if there are no rows.
SearchComes_empty(i) ==
    /\ IsSearch(i)
    /\ asks[i].state \in {"answered", "emptied"}
    /\ view' = Shows(asks[i].answer)
    /\ searching' = (searching /\ asks[i].answer.rows = {})
    /\ shown' = IF asks[i].state = "answered" THEN i ELSE 0
    /\ asks' = Closed(i, "shown")
    /\ Answered

SearchComes(i) ==
    /\ IsSearch(i)
    /\ asks[i].state \in {"answered", "emptied"}
    /\ view' = Shows(asks[i].answer)
    /\ searching' = FALSE
    /\ shown' = IF asks[i].state = "answered" THEN i ELSE 0
    /\ asks' = Closed(i, "shown")
    /\ Answered

\* fromJson throws: what the callback has not done yet is left undone.
SearchGarbled(i) ==
    /\ IsSearch(i)
    /\ asks[i].state \in {"answered", "emptied"}
    /\ asks' = Closed(i, "garbled")
    /\ Answered
    /\ UNCHANGED <<view, searching, shown>>

Missed(i) ==
    IF ~IsSearch(i) /\ asks[i].state = "answered" THEN "lost" ELSE "failed"

\* Slip: the error callback leaves the search form disabled.
SearchFails_disabled(i) ==
    /\ IsSearch(i)
    /\ UnderWay(i)
    /\ asks' = Closed(i, Missed(i))
    /\ Answered
    /\ UNCHANGED <<view, searching, shown>>

SearchFails(i) ==
    /\ IsSearch(i)
    /\ UnderWay(i)
    /\ searching' = FALSE
    /\ asks' = Closed(i, Missed(i))
    /\ Answered
    /\ UNCHANGED <<view, shown>>

\* Slip: the list is not searched again.
DeleteComes_quiet(i) ==
    /\ ~IsSearch(i)
    /\ asks[i].state = "answered"
    /\ asks' = Closed(i, "shown")
    /\ block' = DigestOff(Raise(DigestOn(block)))
    /\ cut' = (cut \/ block.offline)
    /\ UNCHANGED <<timer, checking, view, searching, chosen, stored, shown>>

\* The search that follows lowers the flag, and its answer's raises it again.
DeleteComes(i) ==
    /\ ~IsSearch(i)
    /\ asks[i].state = "answered"
    /\ OnSearch(Closed(i, "shown"), 1)
    /\ block' = DigestOff(Raise(Post(DigestOn(block))))
    /\ cut' = (cut \/ block.offline)
    /\ UNCHANGED <<timer, checking, view, chosen, stored, shown>>

\* onDelete has no error callback.
DeleteFails(i) ==
    /\ ~IsSearch(i)
    /\ UnderWay(i)
    /\ asks' = Closed(i, Missed(i))
    /\ Answered
    /\ UNCHANGED <<view, searching, shown>>

-----------------------------------------------------------------------------
\* The page after the bootstrap: ng-init has called onInit.
Init ==
    /\ block = Digest(Post(Blank))
    /\ timer = "none"
    /\ checking \in BOOLEAN
    /\ view = Nothing
    /\ searching = TRUE
    /\ chosen = 0
    /\ asks = <<New("search", 1)>>
    /\ stored = Items
    /\ shown = 0
    /\ cut = FALSE

User ==
    \/ Search
    \/ \E p \in 1 .. Pages(view.total) : Turn(p)
    \/ \E x \in Items : Choose(x)
    \/ Cancel
    \/ Confirm

Server ==
    \E i \in DOMAIN asks :
       ServerFinds(i) \/ ServerEmpties(i) \/ ServerDeletes(i)

Ends(i) ==
    \/ SearchComes(i)
    \/ SearchGarbled(i)
    \/ SearchFails(i)
    \/ DeleteComes(i)
    \/ DeleteFails(i)

Next == (PageNext /\ UNCHANGED screen) \/ User \/ Server \/ \E i \in DOMAIN asks : Ends(i)

\* Timers are due, and a request of the browser ends, if only with an error.
Fairness ==
    /\ WF_vars(Tooltips /\ UNCHANGED screen)
    /\ WF_vars(Check /\ UNCHANGED screen)
    /\ \A i \in 1 .. MaxAsks : WF_vars(i \in DOMAIN asks /\ Ends(i))

Spec == Init /\ [][Next]_vars
FairSpec == Spec /\ Fairness

-----------------------------------------------------------------------------
\* A page that is blocked is down or loading and says which, and the notice is
\* shown to nobody whose server is up; the spinner goes with the load
\* (turnBackdrop, turnOffline and the digest, which each look at one element
\* and set two).
BlockInv ==
    /\ block.offline => block.backdrop
    /\ block.backdrop => block.offline \/ block.onLoad
    /\ block.backdrop => block.spinner \/ block.notice
    /\ block.notice => block.offline
    /\ block.spinner => block.onLoad

\* There is a listener of $$digest for each request under way, and one more for
\* a flag that is still up; none is left over and the flag is down as long as
\* no answer has come while the server was down.
ListenersMatch ==
    /\ block.listeners >= Cardinality(Pending)
    /\ block.flag => block.listeners > Cardinality(Pending)
    /\ ~cut => block.listeners = Cardinality(Pending) /\ ~block.flag

\* The search form is disabled only while a search is under way, or once an
\* answer could not be read.
SearchingInv ==
    searching => \E i \in DOMAIN asks :
                    IsSearch(i) /\ (UnderWay(i) \/ asks[i].state = "garbled")

\* When everything is answered and the last search is the one that is shown,
\* the screen shows what is in the database: no group that was deleted, and the
\* number of the page the rows are on.  Except if the answer to a deletion was
\* lost, which onDelete does not see to.
Fresh ==
    /\ Pending = {}
    /\ shown # 0
    /\ \A i \in DOMAIN asks : IsSearch(i) => i <= shown
    /\ \A i \in DOMAIN asks : ~IsSearch(i) => asks[i].state # "lost"
    => view = Shows(Found(asks[shown].of))

\* A page that is blocked is let go, and its spinner taken away, unless the
\* server is down ($load's timer, or the interval of the check, digests).
Freed ==
    (block.backdrop \/ block.spinner)
      ~> (block.offline \/ ~(block.backdrop \/ block.spinner))

\* The search form is enabled again, unless an answer could not be read.
SearchEnds ==
    searching ~> (~searching \/ \E i \in DOMAIN asks : asks[i].state = "garbled")
=============================================================================
