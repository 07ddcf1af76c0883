------------------------------ MODULE PageBlock ------------------------------
(***************************************************************************)
(* The backdrop that blocks the page: turnBackdrop and turnOffline of      *)
(* config.js, the digest and the server check that factories.js puts       *)
(* around angular's own, and the listener by which ajaxService.post lets   *)
(* the page go.                                                            *)
(*                                                                         *)
(* A task of the browser is one step, so the operators say what one part   *)
(* of a task makes of the state of the backdrop; a module that posts       *)
(* requests puts them together in the order of the code.                   *)
(***************************************************************************)
EXTENDS Naturals

VARIABLES
    block,    \* the state of the backdrop, see Block
    timer,    \* the timer of $load: none, set, or over
    checking  \* SERVER_CHECKING, one of the constants of const.js

page == <<block, timer, checking>>

\* backdrop:  .main-backdrop is visible, and the mouse does nothing
\* spinner:   .main-backdrop-loading is visible
\* notice:    .main-backdrop-offline is visible
\* onLoad:    $rootScope.__backdropOnLoad
\* offline:   $rootScope.__offline
\* flag:      $rootScope._offBackdrop
\* listeners: how many of post's listeners of $$digest are registered
Block == [backdrop : BOOLEAN, spinner : BOOLEAN, notice : BOOLEAN, onLoad : BOOLEAN,
          offline : BOOLEAN, flag : BOOLEAN, listeners : Nat]

PageType ==
    /\ block \in Block
    /\ timer \in {"none", "set", "over"}
    /\ checking \in BOOLEAN

-----------------------------------------------------------------------------
\* Both functions return at once when the backdrop is as it should be: the
\* spinner or the notice is not looked at.
TurnBackdrop(b, show) ==
    IF b.backdrop = show THEN b ELSE [b EXCEPT !.backdrop = show, !.spinner = show]

TurnOffline(b, show) ==
    IF b.backdrop = show THEN b ELSE [b EXCEPT !.backdrop = show, !.notice = show]

\* Slip: the listener does not look at the flag.
Heard_blind(b) ==
    TurnBackdrop([b EXCEPT !.flag = FALSE, !.listeners = @ - 1], FALSE)

\* The listeners of $$digest: the first of them takes the flag.
Heard(b) ==
    IF b.flag /\ b.listeners > 0
    THEN TurnBackdrop([b EXCEPT !.flag = FALSE, !.listeners = @ - 1], FALSE)
    ELSE b

\* $digest, before and after angular's own.
DigestOn(b) == IF b.offline THEN b ELSE TurnBackdrop(b, TRUE)

\* Slip: the page is let go although the server is down.
DigestOff_always(b) == [TurnBackdrop(Heard(b), FALSE) EXCEPT !.onLoad = FALSE]

DigestOff(b) ==
    IF b.offline THEN b ELSE [TurnBackdrop(Heard(b), FALSE) EXCEPT !.onLoad = FALSE]

Digest(b) == DigestOff(DigestOn(b))

\* ajaxService.post up to the request, and the flag that its answer raises.
Post(b) == [TurnBackdrop(b, TRUE) EXCEPT !.flag = FALSE, !.listeners = @ + 1]

\* Slip: an answer does not raise the flag.
Raise_never(b) == b

Raise(b) == [b EXCEPT !.flag = TRUE]

-----------------------------------------------------------------------------
Blank == [backdrop |-> FALSE, spinner |-> FALSE, notice |-> FALSE, onLoad |-> FALSE,
          offline |-> FALSE, flag |-> FALSE, listeners |-> 0]

\* Slip: no timer is set.
Load_only ==
    /\ timer = "none"
    /\ block' = TurnBackdrop([block EXCEPT !.onLoad = TRUE], TRUE)
    /\ timer' = "over"
    /\ UNCHANGED checking

\* window.onload; _internalApplyTooltips, told of $load, sets a timer.
Load ==
    /\ timer = "none"
    /\ block' = TurnBackdrop([block EXCEPT !.onLoad = TRUE], TRUE)
    /\ timer' = "set"
    /\ UNCHANGED checking

Tooltips ==
    /\ timer = "set"
    /\ block' = Digest(block)
    /\ timer' = "over"
    /\ UNCHANGED checking

\* The interval of the server check, and what Offline.js finds.
Check ==
    /\ checking
    /\ block' = Digest(block)
    /\ UNCHANGED <<timer, checking>>

Down ==
    /\ checking
    /\ ~block.offline
    /\ block' = TurnOffline([block EXCEPT !.offline = TRUE], TRUE)
    /\ UNCHANGED <<timer, checking>>

Up ==
    /\ checking
    /\ block.offline
    /\ block' = TurnOffline([block EXCEPT !.offline = FALSE], FALSE)
    /\ UNCHANGED <<timer, checking>>

PageNext == Load \/ Tooltips \/ Check \/ Down \/ Up
=============================================================================
