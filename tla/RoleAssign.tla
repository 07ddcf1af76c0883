------------------------------ MODULE RoleAssign ------------------------------
(***************************************************************************)
(* The screen S0102.js that grants roles to a group: a list of available   *)
(* roles (the source) and one of assigned roles (the destination), each    *)
(* with a cache of the selected rows, and the server's part of it, which   *)
(* answers the two lists and stores the group that is saved.               *)
(*                                                                         *)
(* A callback of the browser is one step: nothing else of the page runs    *)
(* meanwhile, and the rows are drawn again at its end.  Requests and their *)
(* answers overtake one another.  The order of the lists is left out, so a *)
(* shift-click selects any set of rows with its two ends.                  *)
(*                                                                         *)
(* The lists bring the roles of enabled modules only, and of them those of *)
(* leaves that are not common; a save replaces all the roles of the group, *)
(* the ones that were not brought included.                                *)
(***************************************************************************)
EXTENDS Naturals, Sequences, FiniteSets, SequencesExt

CONSTANTS
    Roles,      \* the roles (modules) that can be granted
    Changing,   \* bound of the model: those whose module is not always offered
    Draggable,  \* bound of the model: the roles the user drags
    MaxSaves,   \* bound of the model: the times onSave sends its request
    MaxCache    \* bound of the model: rows are selected up to this many entries

ASSUME RolesAssumption ==
    /\ IsFiniteSet(Roles)
    /\ Changing \subseteq Roles
    /\ Draggable \subseteq Roles
    /\ MaxSaves \in Nat
    /\ MaxCache \in Nat

Saves == 1 .. MaxSaves

Sides == {"source", "destination"}
Other(side) == IF side = "source" THEN "destination" ELSE "source"

VARIABLES
    page,     \* open, or left after a save
    group,    \* model.group: of a new group, known (with its identity), or
              \* unknown (empty: it has not come, or the answer was empty)
    req,      \* the request of each list: waiting (for the group), sent,
              \* answered by the server, shown, or lost
    answer,   \* what the server has answered
    list,     \* model.source and model.destination
    twice,    \* the roles one of the lists holds two times
    cache,    \* srcSelection and destSelection: of each entry its role, and
              \* whether its row is still in the table
    high,     \* the roles whose row has the class `selected'
    invalid,  \* detailForm.$invalid
    save,     \* each save: none, sent, stored (not yet answered), lost, over
    sent,     \* while it is sent, its roles
    offered,  \* the roles whose module is enabled, a leaf and not common
    granted,  \* the roles of the group in the database
    stored,   \* whether the group is in the database
    came,     \* history: the roles that the two lists have brought to the screen
    hasty,    \* history: the user has not waited for both lists
    dragged,  \* history: the user has dragged a selected role to the other list
    taken     \* history: the roles a user who is not hasty has taken from the
              \* destination

server == <<offered, granted, stored>>
requests == <<req, answer>>
saving == <<save, sent>>
rows == <<list, twice, cache, high>>
acts == <<hasty, dragged, taken>>
history == <<came, acts>>
vars == <<page, group, requests, rows, invalid, saving, server, history>>

-----------------------------------------------------------------------------
(* Types *)

Entry == [role : Roles, live : BOOLEAN]

TypeOK ==
    /\ page \in {"open", "left"}
    /\ group \in {"new", "known", "unknown"}
    /\ req \in [Sides -> {"none", "waiting", "sent", "answered", "shown", "lost"}]
    /\ answer \in [Sides -> SUBSET Roles]
    /\ list \in [Sides -> SUBSET Roles]
    /\ twice \in SUBSET Roles
    /\ cache \in [Sides -> Seq(Entry)]
    /\ high \in [Sides -> SUBSET Roles]
    /\ invalid \in BOOLEAN
    /\ save \in [Saves -> {"none", "sent", "stored", "lost", "over"}]
    /\ sent \in [Saves -> SUBSET Roles]
    /\ offered \in SUBSET Roles
    /\ granted \in SUBSET Roles
    /\ stored \in BOOLEAN
    /\ came \in SUBSET Roles
    /\ hasty \in BOOLEAN
    /\ dragged \in BOOLEAN
    /\ taken \in SUBSET Roles

\* The lists that are asked for have come.
Loaded == \A side \in Sides : req[side] \in {"none", "shown"}

Acts == hasty' = (hasty \/ ~Loaded)

-----------------------------------------------------------------------------
(* onGroup(gcd) and onRoles(gcd, source) *)

\* The group asks for both lists; so does an empty answer (of a group that
\* could not be copied), null for the source only, an error for none.
GroupComes(result) ==
    /\ page = "open"
    /\ req["destination"] = "waiting"
    /\ req' = [side \in Sides |->
                 IF result = "error" THEN "lost"
                 ELSE IF result = "null" /\ side = "destination" THEN "none" ELSE "sent"]
    /\ group' = IF result = "group" THEN "known" ELSE group
    /\ invalid' = (invalid /\ result # "group")
    /\ UNCHANGED <<page, answer, rows, saving, server, history>>

\* The module screen: a module is enabled or disabled, or gets or loses the
\* children that keep it from being a leaf.  The model follows this while a
\* list is still to be read; what is read later, nobody waits for.
ModuleChanges(r) ==
    /\ r \in Changing
    /\ \E side \in Sides : req[side] \in {"waiting", "sent"}
    /\ offered' = IF r \in offered THEN offered \ {r} ELSE offered \union {r}
    /\ UNCHANGED <<page, group, requests, rows, invalid, saving, granted, stored, history>>

\* searchUnRolesBy and searchRolesBy, of enabled leaves that are not common.
Stored(side) == IF side = "source" THEN Roles \ granted ELSE granted
Of(side) == offered \intersect Stored(side)

\* Slip: `assigned' is understood the other way round.
ServerLists_swapped(side) ==
    /\ req[side] = "sent"
    /\ req' = [req EXCEPT ![side] = "answered"]
    /\ answer' = [answer EXCEPT ![side] = Of(Other(side))]
    /\ UNCHANGED <<page, group, rows, invalid, saving, server, history>>

ServerLists(side) ==
    /\ req[side] = "sent"
    /\ req' = [req EXCEPT ![side] = "answered"]
    /\ answer' = [answer EXCEPT ![side] = Of(side)]
    /\ UNCHANGED <<page, group, rows, invalid, saving, server, history>>

ListLost(side) ==
    /\ req[side] \in {"sent", "answered"}
    /\ req' = [req EXCEPT ![side] = "lost"]
    /\ answer' = [answer EXCEPT ![side] = {}]
    /\ UNCHANGED <<page, group, rows, invalid, saving, server, history>>

\* The list is replaced and its rows are drawn again before _reset, which
\* therefore finds no row any more and empties the cache.
ListComes(side) ==
    /\ page = "open"
    /\ req[side] = "answered"
    /\ req' = [req EXCEPT ![side] = "shown"]
    /\ list' = [list EXCEPT ![side] = answer[side]]
    /\ high' = [high EXCEPT ![side] = {}]
    /\ cache' = [cache EXCEPT ![side] = <<>>]
    /\ answer' = [answer EXCEPT ![side] = {}]
    /\ came' = came \union answer[side]
    /\ UNCHANGED <<page, group, twice, invalid, saving, server, acts>>

-----------------------------------------------------------------------------
(* _reset(-1, source) and _select(item, selected, source) *)

Dead(r) == [role |-> r, live |-> FALSE]
Live(r) == [role |-> r, live |-> TRUE]
Entries(order) == [k \in DOMAIN order |-> Live(order[k])]

Cached(side, r) == \E k \in DOMAIN cache[side] : cache[side][k] = Live(r)

\* The entries the loop of _reset comes to: one that is live is taken out of
\* the array the loop runs over, and the one behind it is skipped.
Visits(entries) ==
    CHOOSE v \in [DOMAIN entries -> BOOLEAN] :
       \A k \in DOMAIN entries : v[k] = (k = 1 \/ ~(v[k - 1] /\ entries[k - 1].live))

\* The rows that _reset takes the highlight from.
Cleared(side) ==
    {r \in Roles : \E k \in DOMAIN cache[side] :
        cache[side][k] = Live(r) /\ Visits(cache[side])[k]}

\* Slip: the item is cached without its row.
Select_item(side, r) ==
    /\ high' = [high EXCEPT ![side] = @ \union {r}]
    /\ cache' = [cache EXCEPT ![side] = IF r \in high[side] THEN @ ELSE Append(@, r)]

Select(side, r) ==
    IF r \in high[side]
    THEN UNCHANGED <<high, cache>>
    ELSE /\ high' = [high EXCEPT ![side] = @ \union {r}]
         /\ cache' = [cache EXCEPT ![side] = Append(@, Live(r))]

\* Nothing is done while the cache is empty, though the row be highlighted.
Unselect(side, r) ==
    IF cache[side] = <<>>
    THEN UNCHANGED <<high, cache>>
    ELSE /\ high' = [high EXCEPT ![side] = @ \ {r}]
         /\ \/ \E k \in DOMAIN cache[side] :
                  /\ cache[side][k] = Live(r)
                  /\ cache' = [cache EXCEPT ![side] = RemoveAt(@, k)]
            \/ /\ ~Cached(side, r)
               /\ UNCHANGED cache

-----------------------------------------------------------------------------
(* onSelect(e, item, source), with no key, with ctrl and with shift *)

\* The page draws a list no more once it holds a role two times; the model
\* follows the two lists up to there.
Usable(side, r) == page = "open" /\ twice = {} /\ r \in list[side]

InBlock(side, r) == Len(cache[side]) > 1 /\ Cached(side, r)

\* Toggled: a highlighted row that is one of several selected ones counts as
\* not selected, to be selected alone.
Click(side, r) ==
    /\ Usable(side, r)
    /\ r \notin high[side] \/ InBlock(side, r)
    /\ high' = [high EXCEPT ![side] = (@ \ Cleared(side)) \union {r}]
    /\ cache' = [cache EXCEPT
                   ![side] = IF r \in high[side] \ Cleared(side) THEN <<>> ELSE <<Live(r)>>]
    /\ UNCHANGED <<page, group, requests, list, twice, invalid, saving, server, history>>

\* _reset leaves the cache empty, so that the row itself is not touched again.
ClickOff(side, r) ==
    /\ Usable(side, r)
    /\ r \in high[side]
    /\ ~InBlock(side, r)
    /\ high' = [high EXCEPT ![side] = @ \ Cleared(side)]
    /\ cache' = [cache EXCEPT ![side] = <<>>]
    /\ UNCHANGED <<page, group, requests, list, twice, invalid, saving, server, history>>

CtrlClick(side, r) ==
    /\ Usable(side, r)
    /\ Len(cache[side]) < MaxCache
    /\ IF r \in high[side] /\ ~InBlock(side, r) THEN Unselect(side, r) ELSE Select(side, r)
    /\ UNCHANGED <<page, group, requests, list, twice, invalid, saving, server, history>>

\* The rows from the last selected one to the one that is clicked.
ShiftClick(side, r) ==
    /\ Usable(side, r)
    /\ \E anchor \in Roles, block \in SUBSET list[side] :
          /\ Cached(side, anchor)
          /\ {anchor, r} \subseteq block
          /\ Len(cache[side]) + Cardinality(block \ high[side]) <= MaxCache
          /\ \E order \in SetToSeqs(block \ high[side]) :
                cache' = [cache EXCEPT ![side] = @ \o Entries(order)]
          /\ high' = [high EXCEPT ![side] = @ \union block]
    /\ UNCHANGED <<page, group, requests, list, twice, invalid, saving, server, history>>

-----------------------------------------------------------------------------
(* onAssign(items, source): from side to the other list *)

Items(side) == {cache[side][k].role : k \in DOMAIN cache[side]}

\* A role is in the list of items two times, or in the other list already.
Doubled(side, items) ==
    (items \intersect list[Other(side)])
      \union {r \in items : \E j, k \in DOMAIN cache[side] :
                 j # k /\ cache[side][j].role = r /\ cache[side][k].role = r}

\* Slip: whatever is selected is removed from the list.
Moves_selected(side, items) ==
    /\ list' = [list EXCEPT ![side] = @ \ (items \union Items(side)),
                            ![Other(side)] = @ \union items]
    /\ taken' = IF side = "destination" /\ ~hasty' THEN taken \union items ELSE taken

Moves(side, items) ==
    /\ list' = [list EXCEPT ![side] = @ \ items, ![Other(side)] = @ \union items]
    /\ taken' = IF side = "destination" /\ ~hasty' THEN taken \union items ELSE taken

\* Slip: the selection of the list the roles come from is kept.
ResetBoth_other(side, items) ==
    /\ cache' = [cache EXCEPT ![Other(side)] = <<>>]
    /\ high' = [s \in Sides |-> IF s = side THEN high[s] \ items ELSE high[s] \ Cleared(s)]

\* Both selections are reset; then the rows of the moved roles are drawn anew.
ResetBoth(side, items) ==
    /\ cache' = [s \in Sides |-> <<>>]
    /\ high' = [s \in Sides |-> IF s = side THEN (high[s] \ Cleared(s)) \ items
                                           ELSE high[s] \ Cleared(s)]

\* onAssignByAction, onUnAssignByAction: the roles that are cached.
AssignSelected(side) ==
    /\ page = "open"
    /\ twice = {}
    /\ Acts
    /\ Moves(side, Items(side))
    /\ twice' = Doubled(side, Items(side))
    /\ ResetBoth(side, Items(side))
    /\ UNCHANGED <<page, group, requests, invalid, saving, server, came, dragged>>

\* onAssignByDbClick, onUnAssignByDbClick: the role whose row it is.
AssignClicked(side, r) ==
    /\ Usable(side, r)
    /\ Acts
    /\ Moves(side, {r})
    /\ twice' = {r} \intersect list[Other(side)]
    /\ ResetBoth(side, {r})
    /\ UNCHANGED <<page, group, requests, invalid, saving, server, came, dragged>>

\* sortable.itemMoved: the selection is not told; its row is gone.
Drag(side, r) ==
    /\ r \in Draggable
    /\ Usable(side, r)
    /\ Acts
    /\ Moves(side, {r})
    /\ twice' = {r} \intersect list[Other(side)]
    /\ high' = [high EXCEPT ![side] = @ \ {r}]
    /\ cache' = [cache EXCEPT
                   ![side] = [k \in DOMAIN @ |-> IF @[k].role = r THEN Dead(r) ELSE @[k]]]
    /\ dragged' = (dragged \/ r \in Items(side))
    /\ UNCHANGED <<page, group, requests, invalid, saving, server, came>>

-----------------------------------------------------------------------------
(* onSave(e), and SystemRoleServiceImpl.saveOrUpdate *)

\* The fields of the form are validated again when one of them is edited.
EditField(bad) ==
    /\ page = "open"
    /\ invalid' = bad
    /\ UNCHANGED <<page, group, requests, rows, saving, server, history>>

\* Nothing is assigned: the form is marked invalid, and nothing else.
SaveNothing ==
    /\ page = "open"
    /\ list["destination"] = {}
    /\ invalid' = TRUE
    /\ UNCHANGED <<page, group, requests, rows, saving, server, history>>

IsNext(i) == save[i] = "none" /\ \A j \in 1 .. (i - 1) : save[j] # "none"

\* The page is not blocked by the request: it may be sent again.
Save(i) ==
    /\ page = "open"
    /\ ~invalid
    /\ list["destination"] # {}
    /\ IsNext(i)
    /\ save' = [save EXCEPT ![i] = "sent"]
    /\ sent' = [sent EXCEPT ![i] = list["destination"]]
    /\ Acts
    /\ UNCHANGED <<page, group, requests, rows, invalid, server, came, dragged, taken>>

Answered(i) == sent' = [sent EXCEPT ![i] = {}]

\* The code of a new group is unique; one that is updated is read by the
\* identity that the page was given with it.
Accepted == IF group = "new" THEN ~stored ELSE group = "known"

\* Slip: the roles of the group are not deleted first.
ServerStores_adds(i) ==
    /\ save[i] = "sent"
    /\ Accepted
    /\ granted' = granted \union sent[i]
    /\ stored' = TRUE
    /\ save' = [save EXCEPT ![i] = "stored"]
    /\ Answered(i)
    /\ UNCHANGED <<page, group, requests, rows, invalid, offered, history>>

\* One transaction: the group, and in place of all its roles, offered or not,
\* those that were sent.
ServerStores(i) ==
    /\ save[i] = "sent"
    /\ Accepted
    /\ granted' = sent[i]
    /\ stored' = TRUE
    /\ save' = [save EXCEPT ![i] = "stored"]
    /\ Answered(i)
    /\ UNCHANGED <<page, group, requests, rows, invalid, offered, history>>

\* The request, or the transaction, or the answer is lost: the page stays.
SaveFails(i) ==
    /\ save[i] \in {"sent", "stored"}
    /\ save' = [save EXCEPT ![i] = IF @ = "sent" THEN "lost" ELSE "over"]
    /\ Answered(i)
    /\ UNCHANGED <<page, group, requests, rows, invalid, server, history>>

\* success: go('/system/role').
SaveReturns(i) ==
    /\ page = "open"
    /\ save[i] = "stored"
    /\ save' = [save EXCEPT ![i] = "over"]
    /\ page' = "left"
    /\ list' = [side \in Sides |-> {}]
    /\ twice' = {}
    /\ high' = [side \in Sides |-> {}]
    /\ cache' = [side \in Sides |-> <<>>]
    /\ invalid' = FALSE
    /\ UNCHANGED <<group, requests, sent, server, history>>

-----------------------------------------------------------------------------
\* onInit: of a group that exists, first the group; of a new one, the roles.
Init ==
    /\ page = "open"
    /\ stored \in BOOLEAN
    /\ granted \in SUBSET Roles
    /\ stored \/ granted = {}
    /\ offered \in {set \in SUBSET Roles : Roles \ Changing \subseteq set}
    /\ group = IF stored THEN "unknown" ELSE "new"
    /\ req = [side \in Sides |->
                IF stored THEN "waiting" ELSE IF side = "source" THEN "sent" ELSE "none"]
    /\ answer = [side \in Sides |-> {}]
    /\ list = [side \in Sides |-> {}]
    /\ twice = {}
    /\ cache = [side \in Sides |-> <<>>]
    /\ high = [side \in Sides |-> {}]
    /\ invalid = TRUE
    /\ save = [i \in Saves |-> "none"]
    /\ sent = [i \in Saves |-> {}]
    /\ came = {}
    /\ hasty = FALSE
    /\ dragged = FALSE
    /\ taken = {}

Loads ==
    \/ \E result \in {"group", "empty", "null", "error"} : GroupComes(result)
    \/ \E r \in Roles : ModuleChanges(r)
    \/ \E side \in Sides : ServerLists(side) \/ ListLost(side) \/ ListComes(side)

Selects ==
    \E side \in Sides, r \in Roles :
       Click(side, r) \/ ClickOff(side, r) \/ CtrlClick(side, r) \/ ShiftClick(side, r)

Edits ==
    \/ \E side \in Sides : AssignSelected(side)
    \/ \E side \in Sides, r \in Roles : AssignClicked(side, r) \/ Drag(side, r)
    \/ \E bad \in BOOLEAN : EditField(bad)
    \/ SaveNothing

SaveNext ==
    \E i \in Saves : Save(i) \/ ServerStores(i) \/ SaveFails(i) \/ SaveReturns(i)

Next == Loads \/ Selects \/ Edits \/ SaveNext

Spec == Init /\ [][Next]_vars

-----------------------------------------------------------------------------
(* Properties *)

\* A role that the lists have brought does not drop out of both of them while
\* the user moves it about, be it by selection, double click or dragging, nor
\* is any other role there, provided both lists were waited for.
NoneLost ==
    ~hasty /\ Loaded /\ page = "open" => list["source"] \union list["destination"] = came

\* No role is listed two times, and so granted two times, unless the user has
\* dragged a selected role away or has not waited: the two caches never name a
\* role twice, nor one that is in the other list.
NoneTwice ==
    ~hasty /\ ~dragged => twice = {} /\ list["source"] \intersect list["destination"] = {}

\* What is selected is what the user sees: the row of each live entry of a
\* cache is highlighted and in its list, and has no other entry.
SelectedShown ==
    \A side \in Sides : \A k \in DOMAIN cache[side] :
       cache[side][k].live =>
          /\ cache[side][k].role \in high[side] \intersect list[side]
          /\ \A j \in DOMAIN cache[side] : cache[side][j] = cache[side][k] => j = k

\* Of a user who waits for the lists a save takes no role from the group that
\* the lists have shown and the user has not taken from the destination before,
\* unless the server gets to it after a later one.  It does take away those that
\* were not shown: the roles of modules that are disabled or no leaves.
Overtaken(i) == \E j \in Saves : j > i /\ save[j] \in {"stored", "over"}

RevokedByUser ==
    [][\A i \in Saves : save[i] = "sent" /\ save'[i] = "stored" /\ ~Overtaken(i) =>
          \A r \in granted \ granted' : r \in taken \/ hasty \/ r \notin came]_vars

\* The inductive strengthening of the four properties above.  CacheInv: only
\* dragging leaves an entry without its row.  LoadInv: until both lists have
\* come, nothing is saved, and a list shows nothing that the database has not
\* on its side; only what has come is selected.  SaveInv: a role that has come
\* and that the user has not taken is in the destination and in what is saved
\* from now on, and it is in every save that is not overtaken.
CacheInv ==
    /\ SelectedShown
    /\ ~dragged => \A side \in Sides : \A k \in DOMAIN cache[side] : cache[side][k].live

LoadInv ==
    ~hasty =>
       /\ req["source"] # "none"
       /\ \A side \in Sides : Items(side) \subseteq came
       /\ ~Loaded =>
             /\ page = "open" /\ twice = {} /\ taken = {}
             /\ \A i \in Saves : save[i] = "none"
             /\ req["destination"] = "waiting" => req["source"] = "waiting"
             /\ \A side \in Sides :
                   /\ answer[side] \union list[side] \subseteq Stored(side)
                   /\ req[side] # "shown" => list[side] = {}
             /\ came = list["source"] \union list["destination"]
       /\ Loaded /\ page = "open" =>
             /\ list["source"] \union list["destination"] = came
             /\ list["source"] \intersect list["destination"] = {}
       /\ page = "left" => list = [side \in Sides |-> {}] /\ twice = {}
       /\ ~dragged => twice = {}

Untaken(set) == (set \intersect came) \ taken

SaveInv ==
    /\ \A i, j \in Saves : i < j /\ save[i] = "none" => save[j] = "none"
    /\ \A i \in Saves : save[i] = "sent" <=> sent[i] # {}
    /\ ~hasty =>
          /\ Loaded /\ page = "open" => Untaken(granted) \subseteq list["destination"]
          /\ \A i \in Saves :
                /\ page = "open" => Untaken(sent[i]) \subseteq list["destination"]
                /\ save[i] = "sent" /\ ~Overtaken(i) => Untaken(granted) \subseteq sent[i]
                /\ \A j \in Saves : i < j /\ save[j] = "sent" =>
                      Untaken(sent[i]) \subseteq sent[j]

ScreenInv == CacheInv /\ LoadInv /\ SaveInv

\* The screen implements the board.
Shown == Loaded /\ page = "open"

Board == INSTANCE RoleBoard WITH
            shown <- Shown,
            dealt <- IF Shown THEN came ELSE {},
            available <- IF Shown THEN list["source"] ELSE {},
            assigned <- IF Shown THEN list["destination"] ELSE {},
            submitted <- sent,
            careful <- ~hasty /\ ~dragged

\* The lists, caches and requests of the screen keep the promise of the board.
BoardSpec == Board!Spec
=============================================================================
