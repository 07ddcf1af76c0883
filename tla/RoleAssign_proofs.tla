--------------------------- MODULE RoleAssign_proofs ---------------------------
(***************************************************************************)
(* Proofs about RoleAssign: the types of its state, the inductive          *)
(* invariant ScreenInv with what follows from it, and that the screen      *)
(* implements the board of RoleBoard, for any roles and bounds.            *)
(***************************************************************************)
EXTENDS RoleAssign, FiniteSetTheorems, TLAPS

USE RolesAssumption DEF Sides

-----------------------------------------------------------------------------
(* Caches *)

\* Marking entries of a cache, or naming the roles of one, keeps a sequence.
LEMMA SameShape ==
    ASSUME NEW S, NEW T, NEW s \in Seq(S), NEW f \in [DOMAIN s -> T]
    PROVE  /\ f \in Seq(T)
           /\ Len(f) = Len(s)
<1>1. /\ Len(s) \in Nat
      /\ DOMAIN s = 1 .. Len(s)
  OBVIOUS
<1>2. f \in [1 .. Len(s) -> T]
  BY <1>1
<1> QED
  BY <1>1, <1>2

\* Deleting one position of a sequence moves those behind it by one.
LEMMA RemoveAtShape ==
    ASSUME NEW S, NEW s \in Seq(S), NEW i \in DOMAIN s
    PROVE  /\ RemoveAt(s, i) \in Seq(S)
           /\ Len(RemoveAt(s, i)) = Len(s) - 1
           /\ \A k \in 1 .. (Len(s) - 1) :
                 RemoveAt(s, i)[k] = s[IF k < i THEN k ELSE k + 1]
<1> DEFINE a == SubSeq(s, 1, i - 1)
           b == SubSeq(s, i + 1, Len(s))
<1>1. /\ Len(s) \in Nat
      /\ i \in 1 .. Len(s)
  OBVIOUS
<1>2. /\ a \in Seq(S)
      /\ Len(a) = i - 1
      /\ \A k \in 1 .. (i - 1) : a[k] = s[k]
  BY <1>1
<1>3. /\ b \in Seq(S)
      /\ Len(b) = Len(s) - i
      /\ \A k \in 1 .. (Len(s) - i) : b[k] = s[k + i]
  BY <1>1
<1>4. RemoveAt(s, i) = a \o b
  BY DEF RemoveAt
<1> HIDE DEF a, b
<1>5. /\ a \o b \in Seq(S)
      /\ Len(a \o b) = Len(s) - 1
  BY <1>1, <1>2, <1>3
<1>6. ASSUME NEW k \in 1 .. (Len(s) - 1)
      PROVE  (a \o b)[k] = s[IF k < i THEN k ELSE k + 1]
  <2>1. CASE k < i
    BY <1>1, <1>2, <1>3, <2>1
  <2>2. CASE ~(k < i)
    <3>1. (a \o b)[k] = b[k - (i - 1)]
      BY SMTT(60), <1>1, <1>2, <1>3, <2>2
    <3>2. b[k - (i - 1)] = s[k + 1]
      BY <1>1, <1>3, <2>2
    <3> QED
      BY <2>2, <3>1, <3>2
  <2> QED
    BY <2>1, <2>2
<1> QED
  BY <1>4, <1>5, <1>6

\* A shift-click appends one live entry for each row that it highlights.
LEMMA BlockEntries ==
    ASSUME NEW new \in SUBSET Roles, NEW order \in SetToSeqs(new)
    PROVE  /\ Entries(order) \in Seq(Entry)
           /\ Len(Entries(order)) = Cardinality(new)
           /\ Cardinality(new) \in Nat
           /\ DOMAIN order = 1 .. Cardinality(new)
           /\ \A k \in DOMAIN order : order[k] \in new
           /\ \A j, k \in DOMAIN order : order[j] = order[k] => j = k
<1> DEFINE D == 1 .. Cardinality(new)
<1>1. Cardinality(new) \in Nat
  BY FS_Subset, FS_CardinalityType
<1>2. /\ order \in [D -> new]
      /\ \A j, k \in D : j # k => order[j] # order[k]
  BY DEF SetToSeqs
<1>3. Entries(order) \in [D -> Entry]
  BY <1>2 DEF Entries, Live, Entry
<1>4. Entries(order) \in Seq(Entry) /\ Len(Entries(order)) = Cardinality(new)
  BY <1>1, <1>3
<1> QED
  BY <1>1, <1>2, <1>4

-----------------------------------------------------------------------------
(* Types *)

\* The other of the two lists is a list.
LEMMA OtherType == ASSUME NEW side \in Sides PROVE Other(side) \in Sides /\ Other(side) # side
BY DEF Other

\* What a cache holds.
LEMMA CacheType ==
    ASSUME TypeOK, NEW side \in Sides
    PROVE  /\ cache[side] \in Seq(Entry)
           /\ \A k \in DOMAIN cache[side] :
                 /\ cache[side][k] \in Entry
                 /\ cache[side][k].role \in Roles
                 /\ cache[side][k].live \in BOOLEAN
<1>1. cache[side] \in Seq(Entry)
  BY DEF TypeOK
<1>2. \A k \in DOMAIN cache[side] : cache[side][k] \in Entry
  BY <1>1
<1> QED
  BY <1>1, <1>2 DEF Entry

\* A screen that has been opened has its types.
LEMMA InitTypes == Init => TypeOK
<1> SUFFICES ASSUME Init PROVE TypeOK
  OBVIOUS
<1> USE DEF Init
<1>1. cache \in [Sides -> Seq(Entry)]
  OBVIOUS
<1>2. sent \in [Saves -> SUBSET Roles] /\ offered \in SUBSET Roles
  OBVIOUS
<1>3. stored \in BOOLEAN /\ invalid \in BOOLEAN
  BY Zenon
<1>4. req \in [Sides -> {"none", "waiting", "sent", "answered", "shown", "lost"}]
  OBVIOUS
<1> QED
  BY <1>1, <1>2, <1>3, <1>4 DEF TypeOK

\* The answers to the requests of onGroup and onRoles keep the types.
LEMMA LoadTypes == TypeOK /\ Loads => TypeOK'
<1> SUFFICES ASSUME TypeOK, Loads PROVE TypeOK'
  OBVIOUS
<1> USE DEF TypeOK, server, requests, saving, rows, acts, history
<1>1. ASSUME NEW result \in {"group", "empty", "null", "error"}, GroupComes(result)
      PROVE  TypeOK'
  BY <1>1 DEF GroupComes
<1>2. ASSUME NEW side \in Sides, ServerLists(side) PROVE TypeOK'
  BY <1>2 DEF ServerLists, Of, Stored
<1>3. ASSUME NEW side \in Sides, ListLost(side) PROVE TypeOK'
  BY <1>3 DEF ListLost
<1>4. ASSUME NEW side \in Sides, ListComes(side) PROVE TypeOK'
  BY <1>4 DEF ListComes
<1>5. ASSUME NEW r \in Roles, ModuleChanges(r) PROVE TypeOK'
  BY <1>5 DEF ModuleChanges
<1> QED
  BY <1>1, <1>2, <1>3, <1>4, <1>5 DEF Loads

\* The shape of every selection: one list's highlights and cache change.
LEMMA SelectTypes == TypeOK /\ Selects => TypeOK'
<1> SUFFICES ASSUME TypeOK, Selects PROVE TypeOK'
  OBVIOUS
<1> USE DEF TypeOK, server, requests, saving, acts, history
<1>1. ASSUME NEW side \in Sides, NEW r \in Roles, Click(side, r) PROVE TypeOK'
  <2>1. <<Live(r)>> \in Seq(Entry) /\ <<>> \in Seq(Entry)
    BY DEF Live, Entry
  <2>2. cache' \in [Sides -> Seq(Entry)]
    BY <1>1, <2>1 DEF Click
  <2>3. high' \in [Sides -> SUBSET Roles]
    BY <1>1 DEF Click
  <2> QED
    BY <1>1, <2>2, <2>3 DEF Click
<1>2. ASSUME NEW side \in Sides, NEW r \in Roles, ClickOff(side, r) PROVE TypeOK'
  BY <1>2 DEF ClickOff
<1>3. ASSUME NEW side \in Sides, NEW r \in Roles, CtrlClick(side, r) PROVE TypeOK'
  <2>1. /\ cache' \in [Sides -> Seq(Entry)]
        /\ high' \in [Sides -> SUBSET Roles]
    <3>1. CASE Select(side, r)
      <4>1. Append(cache[side], Live(r)) \in Seq(Entry)
        BY CacheType DEF Live, Entry
      <4>2. /\ high' = high \/ high' = [high EXCEPT ![side] = @ \union {r}]
            /\ cache' = cache \/ cache' = [cache EXCEPT ![side] = Append(@, Live(r))]
        BY <3>1, Zenon DEF Select
      <4>3. cache' \in [Sides -> Seq(Entry)]
        BY <4>1, <4>2
      <4>4. high' \in [Sides -> SUBSET Roles]
        BY <4>2
      <4> QED
        BY <4>3, <4>4
    <3>2. CASE Unselect(side, r)
      <4>1. ASSUME NEW k \in DOMAIN cache[side] PROVE RemoveAt(cache[side], k) \in Seq(Entry)
        BY RemoveAtShape
      <4> QED
        BY <3>2, <4>1 DEF Unselect
    <3> QED
      BY <1>3, <3>1, <3>2 DEF CtrlClick
  <2> QED
    BY <1>3, <2>1 DEF CtrlClick
<1>4. ASSUME NEW side \in Sides, NEW r \in Roles, ShiftClick(side, r) PROVE TypeOK'
  <2>1. PICK block \in SUBSET list[side] :
           /\ \E order \in SetToSeqs(block \ high[side]) :
                 cache' = [cache EXCEPT ![side] = @ \o Entries(order)]
           /\ high' = [high EXCEPT ![side] = @ \union block]
    BY <1>4 DEF ShiftClick
  <2>2. PICK order \in SetToSeqs(block \ high[side]) :
           cache' = [cache EXCEPT ![side] = @ \o Entries(order)]
    BY <2>1
  <2>3. Entries(order) \in Seq(Entry)
    BY BlockEntries
  <2>4. cache' \in [Sides -> Seq(Entry)]
    BY <2>2, <2>3
  <2>5. high' \in [Sides -> SUBSET Roles]
    BY <2>1
  <2> QED
    BY <1>4, <2>4, <2>5 DEF ShiftClick
<1> QED
  BY <1>1, <1>2, <1>3, <1>4 DEF Selects

\* onAssign, dragging and the fields of the form keep the types.
LEMMA EditTypes == TypeOK /\ Edits => TypeOK'
<1> SUFFICES ASSUME TypeOK, Edits PROVE TypeOK'
  OBVIOUS
<1> USE DEF TypeOK, server, requests, saving
<1>1. ASSUME NEW side \in Sides, NEW items \in SUBSET Roles, Moves(side, items)
      PROVE  list' \in [Sides -> SUBSET Roles] /\ taken' \in SUBSET Roles
  BY <1>1, OtherType DEF Moves
<1>2. ASSUME NEW side \in Sides, NEW items \in SUBSET Roles, ResetBoth(side, items)
      PROVE  cache' \in [Sides -> Seq(Entry)] /\ high' \in [Sides -> SUBSET Roles]
  BY <1>2 DEF ResetBoth
<1>3. Acts => hasty' \in BOOLEAN
  BY DEF Acts, Loaded
<1>4. ASSUME NEW side \in Sides PROVE Items(side) \in SUBSET Roles
  BY CacheType DEF Items
<1>5. ASSUME NEW side \in Sides, AssignSelected(side) PROVE TypeOK'
  <2>1. Doubled(side, Items(side)) \in SUBSET Roles
    BY <1>4 DEF Doubled
  <2>2. Moves(side, Items(side)) /\ ResetBoth(side, Items(side)) /\ Acts
    BY <1>5 DEF AssignSelected
  <2> QED
    BY <1>1, <1>2, <1>3, <1>4, <1>5, <2>1, <2>2 DEF AssignSelected
<1>6. ASSUME NEW side \in Sides, NEW r \in Roles, AssignClicked(side, r) PROVE TypeOK'
  <2>1. Moves(side, {r}) /\ ResetBoth(side, {r}) /\ Acts
    BY <1>6 DEF AssignClicked
  <2> QED
    BY <1>1, <1>2, <1>3, <1>6, <2>1 DEF AssignClicked
<1>7. ASSUME NEW side \in Sides, NEW r \in Roles, Drag(side, r) PROVE TypeOK'
  <2>1. Moves(side, {r}) /\ Acts
    BY <1>7 DEF Drag
  <2> DEFINE c == [k \in DOMAIN cache[side] |-> IF cache[side][k].role = r THEN Dead(r) ELSE cache[side][k]]
  <2>2. c \in [DOMAIN cache[side] -> Entry]
    BY CacheType DEF Dead, Entry
  <2>3. c \in Seq(Entry)
    BY <2>2, SameShape
  <2>4. cache' \in [Sides -> Seq(Entry)] /\ high' \in [Sides -> SUBSET Roles]
    BY <1>7, <2>3 DEF Drag
  <2>5. dragged' \in BOOLEAN /\ twice' \in SUBSET Roles
    BY <1>7 DEF Drag, Items
  <2> QED
    BY <1>1, <1>3, <1>7, <2>1, <2>4, <2>5 DEF Drag
<1>8. ASSUME NEW bad \in BOOLEAN, EditField(bad) PROVE TypeOK'
  BY <1>8 DEF EditField, rows, acts, history
<1>9. CASE SaveNothing
  BY <1>9 DEF SaveNothing, rows, acts, history
<1> QED
  BY <1>5, <1>6, <1>7, <1>8, <1>9 DEF Edits

\* onSave and its answers keep the types.
LEMMA SaveTypes == TypeOK /\ SaveNext => TypeOK'
<1> SUFFICES ASSUME TypeOK, NEW i \in Saves,
                    Save(i) \/ ServerStores(i) \/ SaveFails(i) \/ SaveReturns(i)
             PROVE  TypeOK'
  BY DEF SaveNext
<1> USE DEF TypeOK, server, requests
<1>1. CASE Save(i)
  BY <1>1 DEF Save, Acts, Loaded, rows
<1>2. CASE ServerStores(i)
  BY <1>2 DEF ServerStores, Answered, rows, acts, history
<1>3. CASE SaveFails(i)
  BY <1>3 DEF SaveFails, Answered, rows, acts, history
<1>4. CASE SaveReturns(i)
  <2>1. cache' \in [Sides -> Seq(Entry)]
    BY <1>4 DEF SaveReturns
  <2>2. save' \in [Saves -> {"none", "sent", "stored", "lost", "over"}]
    BY <1>4 DEF SaveReturns
  <2>3. list' \in [Sides -> SUBSET Roles] /\ high' \in [Sides -> SUBSET Roles]
    BY <1>4 DEF SaveReturns
  <2> QED
    BY <1>4, <2>1, <2>2, <2>3 DEF SaveReturns, acts, history
<1> QED
  BY <1>1, <1>2, <1>3, <1>4

\* The state keeps its types, for any roles and bounds.
THEOREM TypeCorrect == Spec => []TypeOK
<1>1. TypeOK /\ [Next]_vars => TypeOK'
  <2>1. TypeOK /\ UNCHANGED vars => TypeOK'
    BY DEF TypeOK, vars, server, requests, saving, rows, acts, history
  <2> QED
    BY <2>1, LoadTypes, SelectTypes, EditTypes, SaveTypes DEF Next
<1> QED
  BY <1>1, InitTypes, PTL DEF Spec

-----------------------------------------------------------------------------
(* The caches and what is shown *)

Good(l, h, c) ==
    \A k \in DOMAIN c : c[k].live =>
       /\ c[k].role \in h \intersect l
       /\ \A j \in DOMAIN c : c[j] = c[k] => j = k

AllLive(c) == \A k \in DOMAIN c : c[k].live

\* _reset and the answer to onRoles leave a cache in which nothing is wrong.
LEMMA GoodEmpty == \A l, h : Good(l, h, <<>>) /\ AllLive(<<>>)
BY DEF Good, AllLive

\* A cache with the one row that has been clicked is good.
LEMMA GoodOne ==
    ASSUME NEW l, NEW h, NEW r \in l, r \in h
    PROVE  Good(l, h, <<Live(r)>>) /\ AllLive(<<Live(r)>>)
BY DEF Good, AllLive, Live

\* A cache stays good when its list gets further rows.
LEMMA GoodGrow ==
    ASSUME NEW l, NEW m, l \subseteq m, NEW h, NEW c, Good(l, h, c)
    PROVE  Good(m, h, c)
BY DEF Good

\* A highlighted row has no second entry, and one that is not has none yet.
LEMMA GoodAppend ==
    ASSUME NEW l, NEW h, NEW c \in Seq(Entry), Good(l, h, c),
           NEW r \in Roles, r \in l, r \notin h
    PROVE  /\ Good(l, h \union {r}, Append(c, Live(r)))
           /\ AllLive(c) => AllLive(Append(c, Live(r)))
<1> DEFINE d == Append(c, Live(r))
<1>1. /\ Len(c) \in Nat
      /\ DOMAIN c = 1 .. Len(c)
      /\ DOMAIN d = 1 .. (Len(c) + 1)
      /\ d[Len(c) + 1] = Live(r)
      /\ \A k \in DOMAIN c : d[k] = c[k]
  OBVIOUS
<1> HIDE DEF d
<1>2. \A k \in DOMAIN c : c[k] # Live(r)
  BY DEF Good, Live
<1>3. \A k \in DOMAIN d : k = Len(c) + 1 \/ k \in DOMAIN c
  BY <1>1
<1>4. Good(l, h \union {r}, d)
  <2> SUFFICES ASSUME NEW k \in DOMAIN d, d[k].live
               PROVE  /\ d[k].role \in (h \union {r}) \intersect l
                      /\ \A j \in DOMAIN d : d[j] = d[k] => j = k
    BY DEF Good
  <2>1. CASE k = Len(c) + 1
    <3>1. d[k] = Live(r) /\ Live(r).role = r
      BY <1>1, <2>1 DEF Live
    <3>2. \A j \in DOMAIN d : d[j] = d[k] => j = k
      BY <1>1, <1>2, <1>3, <2>1, <3>1
    <3> QED
      BY <3>1, <3>2
  <2>2. CASE k \in DOMAIN c
    <3>1. d[k] = c[k] /\ c[k].live /\ c[k].role \in h \intersect l
      BY <1>1, <2>2 DEF Good
    <3>2. \A j \in DOMAIN d : d[j] = d[k] => j = k
      BY <1>1, <1>2, <1>3, <2>2, <3>1 DEF Good
    <3> QED
      BY <3>1, <3>2
  <2> QED
    BY <1>3, <2>1, <2>2
<1>5. AllLive(c) => AllLive(d)
  BY <1>1, <1>3 DEF AllLive, Live
<1> QED
  BY <1>4, <1>5 DEF d

\* Unselecting a row takes its entry out, and there was one at most.
LEMMA GoodRemove ==
    ASSUME NEW l, NEW h, NEW c \in Seq(Entry), Good(l, h, c),
           NEW r \in Roles, NEW k \in DOMAIN c, c[k] = Live(r)
    PROVE  /\ Good(l, h \ {r}, RemoveAt(c, k))
           /\ AllLive(c) => AllLive(RemoveAt(c, k))
<1> DEFINE d == RemoveAt(c, k)
           old(j) == IF j < k THEN j ELSE j + 1
<1>1. /\ Len(c) \in Nat
      /\ DOMAIN c = 1 .. Len(c)
      /\ k \in 1 .. Len(c)
  OBVIOUS
<1>0. /\ d \in Seq(Entry)
      /\ Len(d) = Len(c) - 1
      /\ \A j \in 1 .. (Len(c) - 1) : d[j] = c[old(j)]
  BY RemoveAtShape
<1> HIDE DEF d, old
<1>2. /\ DOMAIN d = 1 .. (Len(c) - 1)
      /\ \A j \in DOMAIN d : d[j] = c[old(j)]
  BY <1>0
<1> USE DEF old
<1> HIDE DEF d
<1>3. \A j \in DOMAIN d : old(j) \in DOMAIN c /\ old(j) # k
  BY <1>1, <1>2
<1>4. \A i, j \in DOMAIN d : old(i) = old(j) => i = j
  BY <1>1, <1>2
<1>5. \A j \in DOMAIN c : c[j].live /\ j # k => c[j].role # r
  <2> SUFFICES ASSUME NEW j \in DOMAIN c, c[j].live, c[j].role = r PROVE j = k
    OBVIOUS
  <2>1. c[j] \in Entry
    OBVIOUS
  <2>2. c[j] = Live(r)
    BY <2>1 DEF Entry, Live
  <2>3. c[k].live
    BY DEF Live
  <2> QED
    BY <2>2, <2>3 DEF Good
<1> HIDE DEF old
<1>6. Good(l, h \ {r}, d)
  BY <1>2, <1>3, <1>4, <1>5 DEF Good
<1>7. AllLive(c) => AllLive(d)
  BY <1>2, <1>3 DEF AllLive
<1> QED
  BY <1>6, <1>7 DEF d

\* Taking the highlight from a row without an entry leaves the cache good.
LEMMA GoodUncached ==
    ASSUME NEW l, NEW h, NEW c \in Seq(Entry), Good(l, h, c),
           NEW r \in Roles, ~\E k \in DOMAIN c : c[k] = Live(r)
    PROVE  Good(l, h \ {r}, c)
<1>1. \A k \in DOMAIN c : c[k] \in Entry
  OBVIOUS
<1>2. \A k \in DOMAIN c : c[k].live => c[k].role # r
  BY <1>1 DEF Entry, Live
<1> QED
  BY <1>2 DEF Good

\* A shift-click appends entries of rows that had none.
LEMMA GoodBlock ==
    ASSUME NEW l \in SUBSET Roles, NEW h, NEW c \in Seq(Entry), Good(l, h, c),
           NEW block \in SUBSET l, NEW order \in SetToSeqs(block \ h)
    PROVE  /\ Good(l, h \union block, c \o Entries(order))
           /\ AllLive(c) => AllLive(c \o Entries(order))
<1> DEFINE new == block \ h
           n == Cardinality(new)
           d == c \o Entries(order)
<1>0. new \in SUBSET Roles /\ order \in SetToSeqs(new)
  OBVIOUS
<1> HIDE DEF new
<1>1. /\ Entries(order) \in Seq(Entry)
      /\ Len(Entries(order)) = n
      /\ n \in Nat
      /\ DOMAIN order = 1 .. n
      /\ \A k \in 1 .. n : order[k] \in new
      /\ \A j, k \in 1 .. n : order[j] = order[k] => j = k
  BY <1>0, BlockEntries
<1>2. \A k \in 1 .. n : Entries(order)[k] = Live(order[k])
  BY <1>1 DEF Entries
<1>3. /\ Len(c) \in Nat
      /\ DOMAIN c = 1 .. Len(c)
  OBVIOUS
<1> HIDE DEF n
<1>4. /\ DOMAIN d = 1 .. (Len(c) + n)
      /\ \A k \in 1 .. Len(c) : d[k] = c[k]
      /\ \A k \in 1 .. n : d[Len(c) + k] = Entries(order)[k]
  BY <1>1, <1>3
<1>5. \A k \in (Len(c) + 1) .. (Len(c) + n) :
         k - Len(c) \in 1 .. n /\ d[k] = Live(order[k - Len(c)])
  <2> SUFFICES ASSUME NEW k \in (Len(c) + 1) .. (Len(c) + n)
               PROVE  k - Len(c) \in 1 .. n /\ d[k] = Live(order[k - Len(c)])
    OBVIOUS
  <2>1. k - Len(c) \in 1 .. n /\ k = Len(c) + (k - Len(c))
    BY <1>1, <1>3
  <2> QED
    BY <1>2, <1>4, <2>1
<1> HIDE DEF d
<1>6. \A k \in DOMAIN d : k \in DOMAIN c \/ k \in (Len(c) + 1) .. (Len(c) + n)
  BY <1>1, <1>3, <1>4
<1>7. \A r \in new : r \in block /\ r \notin h /\ r \in l
  BY DEF new
<1>8. \A j \in DOMAIN c, r \in new : c[j] # Live(r)
  BY <1>7 DEF Good, Live
<1>9. \A r, s : (Live(r) = Live(s) => r = s) /\ Live(r).role = r /\ Live(r).live = TRUE
  BY DEF Live
<1>10. Good(l, h \union block, d)
  <2> SUFFICES ASSUME NEW k \in DOMAIN d, d[k].live
               PROVE  /\ d[k].role \in (h \union block) \intersect l
                      /\ \A j \in DOMAIN d : d[j] = d[k] => j = k
    BY DEF Good
  <2>1. CASE k \in DOMAIN c
    <3>1. d[k] = c[k] /\ c[k].role \in h \intersect l
      BY <1>3, <1>4, <2>1 DEF Good
    <3>2. ASSUME NEW j \in DOMAIN d, d[j] = d[k] PROVE j = k
      <4>1. CASE j \in DOMAIN c
        BY <1>3, <1>4, <2>1, <3>1, <3>2, <4>1 DEF Good
      <4>2. CASE j \in (Len(c) + 1) .. (Len(c) + n)
        BY <1>1, <1>5, <1>8, <2>1, <3>1, <3>2, <4>2
      <4> QED
        BY <1>6, <4>1, <4>2
    <3> QED
      BY <3>1, <3>2
  <2>2. CASE k \in (Len(c) + 1) .. (Len(c) + n)
    <3>1. d[k] = Live(order[k - Len(c)]) /\ order[k - Len(c)] \in new
      BY <1>1, <1>5, <2>2
    <3>2. ASSUME NEW j \in DOMAIN d, d[j] = d[k] PROVE j = k
      <4>1. CASE j \in DOMAIN c
        BY <1>3, <1>4, <1>8, <3>1, <3>2, <4>1
      <4>2. CASE j \in (Len(c) + 1) .. (Len(c) + n)
        <5>1. /\ j - Len(c) \in 1 .. n /\ k - Len(c) \in 1 .. n
              /\ order[j - Len(c)] = order[k - Len(c)]
          BY <1>5, <1>9, <2>2, <3>1, <3>2, <4>2
        <5>2. j - Len(c) = k - Len(c)
          BY <1>1, <5>1
        <5> QED
          BY <1>1, <1>3, <2>2, <4>2, <5>2
      <4> QED
        BY <1>6, <4>1, <4>2
    <3>3. d[k].role \in (h \union block) \intersect l
      BY <1>7, <1>9, <3>1
    <3> QED
      BY <3>2, <3>3
  <2> QED
    BY <1>6, <2>1, <2>2
<1>11. AllLive(c) => AllLive(d)
  BY <1>3, <1>4, <1>5, <1>6, <1>9 DEF AllLive
<1> QED
  BY <1>10, <1>11 DEF d

\* Dragging a row out of the list leaves a dead entry of it at most.
LEMMA GoodDrag ==
    ASSUME NEW l, NEW h, NEW c \in Seq(Entry), Good(l, h, c), NEW r \in Roles
    PROVE  LET d == [k \in DOMAIN c |-> IF c[k].role = r THEN Dead(r) ELSE c[k]]
           IN /\ Good(l \ {r}, h \ {r}, d)
              /\ AllLive(c) /\ (\A k \in DOMAIN c : c[k].role # r) => AllLive(d)
BY DEF Good, Dead, AllLive

\* The caches are empty at first.
LEMMA CacheInit == Init => CacheInv
<1> SUFFICES ASSUME Init PROVE CacheInv
  OBVIOUS
<1>1. \A side \in Sides : cache[side] = <<>>
  BY DEF Init
<1> QED
  BY <1>1 DEF CacheInv, SelectedShown

\* CacheInv speaks of each list on its own.
SideInv(side) ==
    /\ Good(list[side], high[side], cache[side])
    /\ dragged \/ AllLive(cache[side])

\* CacheInv is what each list keeps on its own.
LEMMA CacheBySide ==
    /\ CacheInv => \A side \in Sides : SideInv(side)
    /\ (\A side \in Sides : SideInv(side)') => CacheInv'
BY DEF CacheInv, SelectedShown, SideInv, Good, AllLive

\* A list that is left alone keeps what it has.
LEMMA SideStutter ==
    ASSUME NEW side \in Sides, SideInv(side),
           list'[side] = list[side], high'[side] = high[side], cache'[side] = cache[side],
           dragged' = dragged
    PROVE  SideInv(side)'
BY DEF SideInv

\* A list whose selection is reset has nothing to show.
LEMMA SideEmpty ==
    ASSUME NEW side \in Sides, cache'[side] = <<>>
    PROVE  SideInv(side)'
BY GoodEmpty DEF SideInv

\* Clicking rows (onSelect, _select, _reset) keeps what the caches promise.
LEMMA CacheSelects ==
    ASSUME TypeOK, CacheInv, NEW side \in Sides, NEW r \in Roles,
           Click(side, r) \/ ClickOff(side, r) \/ CtrlClick(side, r) \/ ShiftClick(side, r)
    PROVE  CacheInv'
<1>1. /\ list' = list
      /\ dragged' = dragged
      /\ r \in list[side]
  BY DEF Click, ClickOff, CtrlClick, ShiftClick, Usable, acts, history
<1>2. \A s \in Sides : SideInv(s)
  BY CacheBySide
<1>3. /\ cache[side] \in Seq(Entry)
      /\ list[side] \in SUBSET Roles
      /\ high \in [Sides -> SUBSET Roles]
      /\ cache \in [Sides -> Seq(Entry)]
  BY DEF TypeOK
<1>4. SideInv(side)'
  <2>1. CASE Click(side, r)
    <3>1. cache'[side] = <<>> \/ cache'[side] = <<Live(r)>>
      BY <1>3, <2>1 DEF Click
    <3>2. r \in high'[side]
      BY <1>3, <2>1 DEF Click
    <3> QED
      BY <1>1, <3>1, <3>2, GoodEmpty, GoodOne DEF SideInv
  <2>2. CASE ClickOff(side, r)
    <3>1. cache'[side] = <<>>
      BY <1>3, <2>2 DEF ClickOff
    <3> QED
      BY <3>1, SideEmpty
  <2>3. CASE Select(side, r)
    <3>1. CASE r \in high[side]
      BY <1>1, <1>2, <2>3, <3>1 DEF Select, SideInv
    <3>2. CASE r \notin high[side]
      <4>1. /\ high'[side] = high[side] \union {r}
            /\ cache'[side] = Append(cache[side], Live(r))
        BY <1>3, <2>3, <3>2 DEF Select
      <4>2. Good(list[side], high[side], cache[side]) /\ (dragged \/ AllLive(cache[side]))
        BY <1>2 DEF SideInv
      <4>3. /\ Good(list[side], high[side] \union {r}, Append(cache[side], Live(r)))
            /\ AllLive(cache[side]) => AllLive(Append(cache[side], Live(r)))
        BY <1>1, <1>3, <3>2, <4>2, GoodAppend
      <4> QED
        BY <1>1, <4>1, <4>2, <4>3 DEF SideInv
    <3> QED
      BY <3>1, <3>2
  <2>4. CASE Unselect(side, r)
    <3>1. CASE UNCHANGED <<high, cache>>
      BY <1>1, <1>2, <3>1 DEF SideInv
    <3>2. CASE high' = [high EXCEPT ![side] = @ \ {r}] /\ ~Cached(side, r) /\ UNCHANGED cache
      <4>1. high'[side] = high[side] \ {r}
        BY <1>3, <3>2
      <4> QED
        BY <1>1, <1>2, <1>3, <3>2, <4>1, GoodUncached DEF SideInv, Cached
    <3>3. ASSUME high' = [high EXCEPT ![side] = @ \ {r}],
                 NEW k \in DOMAIN cache[side], cache[side][k] = Live(r),
                 cache' = [cache EXCEPT ![side] = RemoveAt(@, k)]
          PROVE  SideInv(side)'
      <4>1. /\ high'[side] = high[side] \ {r}
            /\ cache'[side] = RemoveAt(cache[side], k)
        BY <1>3, <3>3
      <4> QED
        BY <1>1, <1>2, <1>3, <3>3, <4>1, GoodRemove DEF SideInv
    <3> QED
      BY <2>4, <3>1, <3>2, <3>3 DEF Unselect
  <2>5. CASE ShiftClick(side, r)
    <3>1. PICK block \in SUBSET list[side] :
             /\ \E order \in SetToSeqs(block \ high[side]) :
                   cache' = [cache EXCEPT ![side] = @ \o Entries(order)]
             /\ high' = [high EXCEPT ![side] = @ \union block]
      BY <2>5 DEF ShiftClick
    <3>2. PICK order \in SetToSeqs(block \ high[side]) :
             cache' = [cache EXCEPT ![side] = @ \o Entries(order)]
      BY <3>1
    <3>3. /\ high'[side] = high[side] \union block
          /\ cache'[side] = cache[side] \o Entries(order)
      BY <1>3, <3>1, <3>2
    <3>4. SideInv(side)'
      <4>1. SideInv(side)
        BY <1>2
      <4>2. /\ Good(list[side], high[side] \union block, cache[side] \o Entries(order))
            /\ AllLive(cache[side]) => AllLive(cache[side] \o Entries(order))
        BY <1>3, <4>1, GoodBlock DEF SideInv
      <4> QED
        BY <1>1, <3>3, <4>1, <4>2 DEF SideInv
    <3> QED
      BY <3>4
  <2> QED
    BY <2>1, <2>2, <2>3, <2>4, <2>5 DEF CtrlClick
<1>5. ASSUME NEW s \in Sides, s # side PROVE SideInv(s)'
  <2>1. high'[s] = high[s] /\ cache'[s] = cache[s]
    BY <1>3, <1>5 DEF Click, ClickOff, CtrlClick, ShiftClick, Select, Unselect
  <2> QED
    BY <1>1, <1>2, <2>1, SideStutter
<1> QED
  BY <1>4, <1>5, CacheBySide

\* No step of the screen breaks what the caches promise.
LEMMA CacheStep == TypeOK /\ CacheInv /\ [Next]_vars => CacheInv'
<1> SUFFICES ASSUME TypeOK, CacheInv, [Next]_vars PROVE CacheInv'
  OBVIOUS
<1> USE DEF rows, acts, history
<1>0. \A side \in Sides : SideInv(side)
  BY CacheBySide
<1>1. ASSUME UNCHANGED <<list, high, cache, dragged>> PROVE CacheInv'
  BY <1>0, <1>1, SideStutter, CacheBySide
<1>2. CASE Loads
  <2>1. ASSUME NEW side \in Sides, ListComes(side) PROVE CacheInv'
    <3>1. SideInv(side)'
      <4>1. cache'[side] = <<>>
        BY <2>1 DEF ListComes, TypeOK
      <4> QED
        BY <4>1, SideEmpty
    <3>2. ASSUME NEW s \in Sides, s # side PROVE SideInv(s)'
      <4>1. /\ list'[s] = list[s] /\ high'[s] = high[s] /\ cache'[s] = cache[s]
            /\ dragged' = dragged
        BY <2>1, <3>2 DEF ListComes, TypeOK
      <4> QED
        BY <1>0, <4>1, SideStutter
    <3> QED
      BY <3>1, <3>2, CacheBySide
  <2>2. ASSUME (\E result \in {"group", "empty", "null", "error"} : GroupComes(result))
                  \/ \E r \in Roles : ModuleChanges(r)
        PROVE  CacheInv'
    BY <1>1, <2>2 DEF GroupComes, ModuleChanges
  <2>3. ASSUME NEW side \in Sides, ServerLists(side) \/ ListLost(side) PROVE CacheInv'
    BY <1>1, <2>3 DEF ServerLists, ListLost
  <2> QED
    BY <1>2, <2>1, <2>2, <2>3 DEF Loads
<1>3. CASE Selects
  BY <1>3, CacheSelects DEF Selects
<1>4. ASSUME \A side \in Sides : cache'[side] = <<>> PROVE CacheInv'
  BY <1>4, SideEmpty, CacheBySide
<1>5. CASE Edits
  <2>1. ASSUME NEW side \in Sides, AssignSelected(side) PROVE CacheInv'
    BY <1>4, <2>1 DEF AssignSelected, ResetBoth
  <2>2. ASSUME NEW side \in Sides, NEW r \in Roles, AssignClicked(side, r) PROVE CacheInv'
    BY <1>4, <2>2 DEF AssignClicked, ResetBoth
  <2>3. ASSUME NEW side \in Sides, NEW r \in Roles, Drag(side, r) PROVE CacheInv'
    <3> DEFINE d == [k \in DOMAIN cache[side] |->
                       IF cache[side][k].role = r THEN Dead(r) ELSE cache[side][k]]
               o == Other(side)
    <3>1. /\ list'[side] = list[side] \ {r}
          /\ list'[o] = list[o] \union {r}
          /\ high'[side] = high[side] \ {r} /\ high'[o] = high[o]
          /\ cache'[side] = d /\ cache'[o] = cache[o]
          /\ dragged' = (dragged \/ r \in Items(side))
      BY <2>3, OtherType DEF Drag, Moves, TypeOK
    <3>2. cache[side] \in Seq(Entry)
      BY DEF TypeOK
    <3>3. /\ Good(list[side] \ {r}, high[side] \ {r}, d)
          /\ AllLive(cache[side]) /\ (\A k \in DOMAIN cache[side] : cache[side][k].role # r)
                => AllLive(d)
      BY <1>0, <3>2, GoodDrag DEF SideInv
    <3> HIDE DEF d
    <3>4. SideInv(side)'
      BY <1>0, <3>1, <3>3 DEF SideInv, Items
    <3>5. SideInv(o)'
      <4>1. Good(list[o] \union {r}, high[o], cache[o])
        BY <1>0, OtherType, GoodGrow DEF SideInv
      <4> QED
        BY <1>0, <3>1, <4>1, OtherType DEF SideInv
    <3>6. \A s \in Sides : s = side \/ s = o
      BY DEF Other
    <3> QED
      BY <3>4, <3>5, <3>6, CacheBySide
  <2>4. ASSUME NEW bad \in BOOLEAN, EditField(bad) PROVE CacheInv'
    BY <1>1, <2>4 DEF EditField
  <2>5. CASE SaveNothing
    BY <1>1, <2>5 DEF SaveNothing
  <2> QED
    BY <1>5, <2>1, <2>2, <2>3, <2>4, <2>5 DEF Edits
<1>6. CASE SaveNext
  <2> SUFFICES ASSUME NEW i \in Saves,
                      Save(i) \/ ServerStores(i) \/ SaveFails(i) \/ SaveReturns(i)
               PROVE  CacheInv'
    BY <1>6 DEF SaveNext
  <2>1. CASE SaveReturns(i)
    BY <1>4, <2>1 DEF SaveReturns
  <2>2. CASE Save(i) \/ ServerStores(i) \/ SaveFails(i)
    BY <1>1, <2>2 DEF Save, ServerStores, SaveFails
  <2> QED
    BY <2>1, <2>2
<1>7. CASE UNCHANGED vars
  BY <1>1, <1>7 DEF vars
<1> QED
  BY <1>2, <1>3, <1>5, <1>6, <1>7 DEF Next

-----------------------------------------------------------------------------
(* The lists and the database *)

\* Before the lists have come, nothing is known and nothing is saved.
LEMMA LoadInit == Init => LoadInv
BY DEF Init, LoadInv, Loaded, Items, Stored

\* Under a live cache nothing that is moved is doubled.
LEMMA NothingDoubled ==
    ASSUME TypeOK, CacheInv, ~dragged, NEW side \in Sides,
           list[side] \intersect list[Other(side)] = {}
    PROVE  /\ Items(side) \subseteq list[side]
           /\ Doubled(side, Items(side)) = {}
<1> DEFINE c == cache[side]
<1>1. /\ \A k \in DOMAIN c : c[k] \in Entry
      /\ \A k \in DOMAIN c : c[k].live
      /\ \A k \in DOMAIN c : c[k].role \in list[side]
      /\ \A j, k \in DOMAIN c : c[j] = c[k] => j = k
  BY CacheType DEF CacheInv, SelectedShown
<1>2. \A j, k \in DOMAIN c : c[j].role = c[k].role => j = k
  BY <1>1 DEF Entry
<1> QED
  BY <1>1, <1>2 DEF Items, Doubled

\* What clicking adds to a cache is a row of its list.
LEMMA SelectItems ==
    ASSUME TypeOK, NEW side \in Sides, NEW r \in Roles,
           Click(side, r) \/ ClickOff(side, r) \/ CtrlClick(side, r) \/ ShiftClick(side, r)
    PROVE  \A s \in Sides : Items(s)' \subseteq Items(s) \union list[s]
<1>1. /\ cache \in [Sides -> Seq(Entry)]
      /\ cache[side] \in Seq(Entry)
      /\ list[side] \in SUBSET Roles
  BY DEF TypeOK
<1>2. r \in list[side]
  BY DEF Click, ClickOff, CtrlClick, ShiftClick, Usable
<1>3. ASSUME NEW s \in Sides, cache'[s] = cache[s] PROVE Items(s)' \subseteq Items(s)
  BY <1>3 DEF Items
<1>4. ASSUME NEW s \in Sides, s # side PROVE cache'[s] = cache[s]
  BY <1>1, <1>4 DEF Click, ClickOff, CtrlClick, ShiftClick, Select, Unselect
<1>5. Items(side)' \subseteq Items(side) \union list[side]
  <2>1. CASE Click(side, r) \/ ClickOff(side, r)
    <3>1. cache'[side] = <<>> \/ cache'[side] = <<Live(r)>>
      BY <1>1, <2>1 DEF Click, ClickOff
    <3> QED
      BY <1>2, <3>1 DEF Items, Live
  <2>2. CASE cache'[side] = Append(cache[side], Live(r))
    <3>1. \A k \in DOMAIN cache'[side] :
             cache'[side][k] = Live(r) \/ (k \in DOMAIN cache[side] /\ cache'[side][k] = cache[side][k])
      BY <1>1, <2>2
    <3> QED
      BY <1>2, <3>1 DEF Items, Live
  <2>3. ASSUME NEW i \in DOMAIN cache[side], cache'[side] = RemoveAt(cache[side], i)
        PROVE  Items(side)' \subseteq Items(side)
    <3>1. /\ Len(cache'[side]) = Len(cache[side]) - 1
          /\ cache'[side] \in Seq(Entry)
          /\ \A k \in 1 .. (Len(cache[side]) - 1) :
                cache'[side][k] = cache[side][IF k < i THEN k ELSE k + 1]
      BY <1>1, <2>3, RemoveAtShape
    <3>3. /\ Len(cache[side]) \in Nat
          /\ DOMAIN cache[side] = 1 .. Len(cache[side])
          /\ DOMAIN cache'[side] = 1 .. (Len(cache[side]) - 1)
          /\ i \in Nat
      BY <1>1, <3>1
    <3>4. \A k \in 1 .. (Len(cache[side]) - 1) : (IF k < i THEN k ELSE k + 1) \in 1 .. Len(cache[side])
      BY <3>3
    <3>2. \A k \in DOMAIN cache'[side] : \E j \in DOMAIN cache[side] :
             cache'[side][k] = cache[side][j]
      BY <3>1, <3>3, <3>4
    <3> QED
      BY <3>2 DEF Items
  <2>4. CASE ShiftClick(side, r)
    <3>1. PICK block \in SUBSET list[side] :
             \E order \in SetToSeqs(block \ high[side]) :
                cache' = [cache EXCEPT ![side] = @ \o Entries(order)]
      BY <2>4 DEF ShiftClick
    <3>2. PICK order \in SetToSeqs(block \ high[side]) :
             cache' = [cache EXCEPT ![side] = @ \o Entries(order)]
      BY <3>1
    <3>3. /\ Entries(order) \in Seq(Entry)
          /\ \A k \in DOMAIN Entries(order) : Entries(order)[k].role \in list[side]
      BY <1>1, BlockEntries DEF Entries, Live
    <3>4. cache'[side] = cache[side] \o Entries(order)
      BY <1>1, <3>2
    <3>5. \A k \in DOMAIN cache'[side] :
             \/ k \in DOMAIN cache[side] /\ cache'[side][k] = cache[side][k]
             \/ cache'[side][k].role \in list[side]
      <4> DEFINE c == cache[side]
                 e == Entries(order)
      <4>1. c \in Seq(Entry) /\ e \in Seq(Entry) /\ \A k \in DOMAIN e : e[k].role \in list[side]
        BY <1>1, <3>3
      <4> HIDE DEF c, e
      <4>2. ASSUME NEW k \in DOMAIN (c \o e)
            PROVE  \/ k \in DOMAIN c /\ (c \o e)[k] = c[k]
                   \/ (c \o e)[k].role \in list[side]
        <5>1. CASE k \in DOMAIN c
          BY <4>1, <5>1
        <5>2. CASE k \notin DOMAIN c
          <6>1. k - Len(c) \in DOMAIN e /\ (c \o e)[k] = e[k - Len(c)]
            BY <4>1, <4>2, <5>2
          <6> QED
            BY <4>1, <6>1
        <5> QED
          BY <5>1, <5>2
      <4> QED
        BY <3>4, <4>2 DEF c, e
    <3> QED
      BY <3>5 DEF Items
  <2>5. CASE CtrlClick(side, r)
    <3>1. \/ cache' = cache
          \/ cache'[side] = Append(cache[side], Live(r))
          \/ \E i \in DOMAIN cache[side] : cache'[side] = RemoveAt(cache[side], i)
      BY <1>1, <2>5 DEF CtrlClick, Select, Unselect
    <3> QED
      BY <1>3, <2>2, <2>3, <3>1
  <2> QED
    BY <2>1, <2>4, <2>5
<1> QED
  BY <1>3, <1>4, <1>5

\* No step of the screen breaks what is known of the lists.
LEMMA LoadStep == TypeOK /\ CacheInv /\ LoadInv /\ [Next]_vars => LoadInv'
<1> SUFFICES ASSUME TypeOK, CacheInv, LoadInv, [Next]_vars PROVE LoadInv'
  OBVIOUS
<1> USE DEF rows, requests, saving, server, acts, history
<1>1. ASSUME UNCHANGED <<page, req, answer, list, twice, save, granted, hasty, dragged, taken, came>>,
             ~hasty => \A side \in Sides : Items(side)' \subseteq came
      PROVE  LoadInv'
  BY <1>1 DEF LoadInv, Loaded, Stored
<1>8. ASSUME UNCHANGED <<page, req, answer, list, twice, save, granted, hasty, dragged, taken, came, cache>>
      PROVE  LoadInv'
  <2>1. \A side \in Sides : Items(side)' = Items(side)
    BY <1>8 DEF Items
  <2> QED
    BY <1>1, <1>8, <2>1 DEF LoadInv
<1>2. CASE Loads
  <2>1. ASSUME NEW result \in {"group", "empty", "null", "error"}, GroupComes(result)
        PROVE  LoadInv'
    <3>1. /\ UNCHANGED <<page, answer, list, twice, save, granted, hasty, dragged, taken, came, cache>>
          /\ page = "open" /\ req["destination"] = "waiting" /\ ~Loaded /\ ~Loaded'
          /\ req'["source"] \in {"sent", "lost"}
          /\ req'["destination"] \in {"none", "sent", "lost"}
      BY <2>1 DEF GroupComes, Loaded
    <3>2. ~hasty => \A s \in Sides : list[s] = {}
      BY <3>1 DEF LoadInv
    <3>9. \A s \in Sides : Items(s)' = Items(s)
      BY <3>1 DEF Items
    <3> QED
      BY <3>1, <3>2, <3>9 DEF LoadInv, Stored
  <2>2. ASSUME NEW side \in Sides, ServerLists(side) PROVE LoadInv'
    <3>1. /\ UNCHANGED <<page, list, twice, save, granted, hasty, dragged, taken, came, cache>>
          /\ ~Loaded /\ ~Loaded'
          /\ \A s \in Sides : answer'[s] = (IF s = side THEN Of(side) ELSE answer[s])
          /\ \A s \in Sides : req'[s] = (IF s = side THEN "answered" ELSE req[s])
          /\ req[side] = "sent"
      BY <2>2 DEF ServerLists, Loaded, TypeOK
    <3>9. \A s \in Sides : Items(s)' = Items(s)
      BY <3>1 DEF Items
    <3> QED
      BY <3>1, <3>9 DEF LoadInv, Of, Stored
  <2>3. ASSUME NEW side \in Sides, ListLost(side) PROVE LoadInv'
    <3>1. /\ UNCHANGED <<page, list, twice, save, granted, hasty, dragged, taken, came, cache>>
          /\ ~Loaded /\ ~Loaded'
          /\ \A s \in Sides : answer'[s] = (IF s = side THEN {} ELSE answer[s])
          /\ \A s \in Sides : req'[s] = (IF s = side THEN "lost" ELSE req[s])
          /\ req[side] \in {"sent", "answered"}
      BY <2>3 DEF ListLost, Loaded, TypeOK
    <3>9. \A s \in Sides : Items(s)' = Items(s)
      BY <3>1 DEF Items
    <3> QED
      BY <3>1, <3>9 DEF LoadInv, Stored
  <2>4. ASSUME NEW side \in Sides, ListComes(side) PROVE LoadInv'
    <3> SUFFICES ASSUME ~hasty PROVE LoadInv'
      BY <2>4 DEF ListComes, LoadInv
    <3>1. /\ UNCHANGED <<page, twice, save, granted, hasty, dragged, taken>>
          /\ page = "open" /\ ~Loaded /\ req[side] = "answered"
          /\ \A s \in Sides : req'[s] = (IF s = side THEN "shown" ELSE req[s])
          /\ \A s \in Sides : list'[s] = (IF s = side THEN answer[side] ELSE list[s])
          /\ \A s \in Sides : answer'[s] = (IF s = side THEN {} ELSE answer[s])
          /\ came' = came \union answer[side]
          /\ \A s \in Sides : cache'[s] = (IF s = side THEN <<>> ELSE cache[s])
      BY <2>4 DEF ListComes, Loaded, TypeOK
    <3>7. \A s \in Sides : Items(s)' \subseteq Items(s)
      BY <3>1 DEF Items
    <3>2. /\ twice = {} /\ taken = {}
          /\ \A i \in Saves : save[i] = "none"
          /\ req["destination"] = "waiting" => req["source"] = "waiting"
          /\ req["source"] # "none"
          /\ \A s \in Sides : Items(s) \subseteq came
          /\ \A s \in Sides :
                /\ answer[s] \union list[s] \subseteq Stored(s)
                /\ req[s] # "shown" => list[s] = {}
          /\ came = list["source"] \union list["destination"]
      BY <3>1 DEF LoadInv
    <3>3. /\ \A s \in Sides :
                /\ answer'[s] \union list'[s] \subseteq Stored(s)
                /\ req'[s] # "shown" => list'[s] = {}
          /\ came' = list'["source"] \union list'["destination"]
      BY <3>1, <3>2
    <3>4. list'["source"] \intersect list'["destination"] = {}
      BY <3>3 DEF Stored
    <3>5. \A s \in Sides : Stored(s)' = Stored(s)
      BY <3>1 DEF Stored
    <3>6. /\ req'["destination"] = "waiting" => req'["source"] = "waiting"
          /\ req'["source"] # "none"
      BY <3>1, <3>2
    <3> QED
      BY <3>1, <3>2, <3>3, <3>4, <3>5, <3>6, <3>7 DEF LoadInv
  <2>5. ASSUME NEW r \in Roles, ModuleChanges(r) PROVE LoadInv'
    BY <1>8, <2>5 DEF ModuleChanges
  <2> QED
    BY <1>2, <2>1, <2>2, <2>3, <2>4, <2>5 DEF Loads
<1>3. CASE Selects
  <2> SUFFICES ASSUME NEW side \in Sides, NEW r \in Roles,
                      Click(side, r) \/ ClickOff(side, r) \/ CtrlClick(side, r) \/ ShiftClick(side, r)
               PROVE  LoadInv'
    BY <1>3 DEF Selects
  <2>1. UNCHANGED <<page, req, answer, list, twice, save, granted, hasty, dragged, taken, came>>
        /\ page = "open"
    BY DEF Click, ClickOff, CtrlClick, ShiftClick, Usable
  <2>2. ~hasty => \A s \in Sides : Items(s) \union list[s] \subseteq came
    BY <2>1 DEF LoadInv
  <2>3. \A s \in Sides : Items(s)' \subseteq Items(s) \union list[s]
    BY SelectItems
  <2> QED
    BY <1>1, <2>1, <2>2, <2>3
<1>4. CASE Edits
  <2>1. ASSUME NEW side \in Sides, NEW items \in SUBSET Roles,
               page = "open", page' = page, req' = req, came' = came, Moves(side, items), Acts,
               ~hasty /\ Loaded /\ ~dragged' => twice' = {},
               ~hasty /\ Loaded => items \subseteq came,
               \A s \in Sides : Items(s)' \subseteq Items(s)
        PROVE  LoadInv'
    <3>1. Loaded' = Loaded
      BY <2>1 DEF Loaded
    <3>2. ~hasty' => Loaded /\ ~hasty
      BY <2>1 DEF Acts, TypeOK
    <3>3. ~hasty' => /\ list'["source"] \union list'["destination"] = came'
                     /\ list'["source"] \intersect list'["destination"] = {}
      <4> SUFFICES ASSUME ~hasty'
                   PROVE  /\ list'["source"] \union list'["destination"] = came'
                          /\ list'["source"] \intersect list'["destination"] = {}
        OBVIOUS
      <4>1. /\ list["source"] \union list["destination"] = came
            /\ list["source"] \intersect list["destination"] = {}
            /\ items \subseteq came
        BY <2>1, <3>2 DEF LoadInv
      <4>2. /\ list'[side] = list[side] \ items
            /\ list'[Other(side)] = list[Other(side)] \union items
        BY <2>1, OtherType DEF Moves, TypeOK
      <4> QED
        BY <2>1, <4>1, <4>2 DEF Other
    <3>4. ~hasty' => \A s \in Sides : Items(s)' \subseteq came'
      BY <2>1, <3>2 DEF LoadInv
    <3> QED
      BY <2>1, <3>1, <3>2, <3>3, <3>4 DEF LoadInv
  <2>8. ASSUME NEW side \in Sides, NEW items, ResetBoth(side, items)
        PROVE  \A s \in Sides : Items(s)' \subseteq Items(s)
    BY <2>8 DEF ResetBoth, Items
  <2>2. Loaded /\ ~hasty /\ page = "open" /\ ~dragged =>
           twice = {} /\ \A side \in Sides : list[side] \intersect list[Other(side)] = {}
    BY DEF LoadInv, Other
  <2>3. ASSUME NEW side \in Sides, AssignSelected(side) PROVE LoadInv'
    <3>1. Items(side) \in SUBSET Roles
      BY CacheType DEF Items
    <3>2. ~hasty /\ Loaded /\ ~dragged' => twice' = {}
      BY <2>2, <2>3, NothingDoubled DEF AssignSelected
    <3>3. ~hasty => Items(side) \subseteq came
      BY DEF LoadInv
    <3>4. \A s \in Sides : Items(s)' \subseteq Items(s)
      BY <2>3, <2>8 DEF AssignSelected
    <3> QED
      BY <2>1, <2>3, <3>1, <3>2, <3>3, <3>4 DEF AssignSelected
  <2>9. \A side \in Sides, r \in Roles :
           ~hasty /\ Loaded /\ Usable(side, r) => {r} \subseteq came
    BY DEF LoadInv, Usable
  <2>4. ASSUME NEW side \in Sides, NEW r \in Roles, AssignClicked(side, r) PROVE LoadInv'
    <3>1. ~hasty /\ Loaded /\ ~dragged' => twice' = {}
      BY <2>2, <2>4 DEF AssignClicked, Usable
    <3>2. \A s \in Sides : Items(s)' \subseteq Items(s)
      BY <2>4, <2>8 DEF AssignClicked
    <3>3. /\ page = "open" /\ page' = page /\ req' = req /\ came' = came
          /\ Moves(side, {r}) /\ Acts /\ {r} \in SUBSET Roles
          /\ ~hasty /\ Loaded => {r} \subseteq came
      BY <2>4, <2>9 DEF AssignClicked, Usable
    <3> QED
      BY <2>1, <3>1, <3>2, <3>3, <2>4 DEF AssignClicked
  <2>5. ASSUME NEW side \in Sides, NEW r \in Roles, Drag(side, r) PROVE LoadInv'
    <3>1. ~hasty /\ Loaded /\ ~dragged' => twice' = {}
      BY <2>2, <2>5 DEF Drag, Usable
    <3>2. \A s \in Sides : Items(s)' \subseteq Items(s)
      <4> SUFFICES ASSUME NEW s \in Sides PROVE Items(s)' \subseteq Items(s)
        OBVIOUS
      <4>1. CASE s = side
        <5>1. cache'[s] = [k \in DOMAIN cache[s] |->
                             IF cache[s][k].role = r THEN Dead(r) ELSE cache[s][k]]
          BY <2>5, <4>1 DEF Drag, TypeOK
        <5> QED
          BY <5>1 DEF Items, Dead
      <4>2. CASE s # side
        <5>1. cache'[s] = cache[s]
          BY <2>5, <4>2 DEF Drag, TypeOK
        <5> QED
          BY <5>1 DEF Items
      <4> QED
        BY <4>1, <4>2
    <3>3. /\ page = "open" /\ page' = page /\ req' = req /\ came' = came
          /\ Moves(side, {r}) /\ Acts /\ {r} \in SUBSET Roles
          /\ ~hasty /\ Loaded => {r} \subseteq came
      BY <2>5, <2>9 DEF Drag, Usable
    <3> QED
      BY <2>1, <3>1, <3>2, <3>3, <2>5 DEF Drag
  <2>6. ASSUME NEW bad \in BOOLEAN, EditField(bad) PROVE LoadInv'
    BY <1>8, <2>6 DEF EditField
  <2>7. CASE SaveNothing
    BY <1>8, <2>7 DEF SaveNothing
  <2> QED
    BY <1>4, <2>3, <2>4, <2>5, <2>6, <2>7 DEF Edits
<1>5. CASE SaveNext
  <2> SUFFICES ASSUME NEW i \in Saves,
                      Save(i) \/ ServerStores(i) \/ SaveFails(i) \/ SaveReturns(i)
               PROVE  LoadInv'
    BY <1>5 DEF SaveNext
  <2>1. Loaded' = Loaded
    BY DEF Save, ServerStores, SaveFails, SaveReturns, Loaded
  <2>2. ~hasty' => ~hasty /\ Loaded
    <3>1. CASE Save(i)
      BY <3>1 DEF Save, Acts, TypeOK
    <3>2. CASE ServerStores(i) \/ SaveFails(i) \/ SaveReturns(i)
      <4>1. save[i] # "none" /\ hasty' = hasty
        BY <3>2 DEF ServerStores, SaveFails, SaveReturns
      <4> QED
        BY <4>1 DEF LoadInv
    <3> QED
      BY <3>1, <3>2
  <2>3. CASE SaveReturns(i)
    <3>1. \A s \in Sides : Items(s)' = {}
      BY <2>3 DEF SaveReturns, Items
    <3> QED
      BY <2>1, <2>2, <2>3, <3>1 DEF SaveReturns, LoadInv
  <2>4. CASE Save(i) \/ ServerStores(i) \/ SaveFails(i)
    <3>1. /\ page' = page /\ list' = list /\ twice' = twice /\ dragged' = dragged
          /\ req' = req /\ came' = came /\ cache' = cache
      BY <2>4 DEF Save, ServerStores, SaveFails
    <3>2. \A s \in Sides : Items(s)' = Items(s)
      BY <3>1 DEF Items
    <3> QED
      BY <2>1, <2>2, <3>1, <3>2 DEF LoadInv
  <2> QED
    BY <2>3, <2>4
<1>6. CASE UNCHANGED vars
  BY <1>8, <1>6 DEF vars
<1> QED
  BY <1>2, <1>3, <1>4, <1>5, <1>6 DEF Next

-----------------------------------------------------------------------------
(* The saves *)

\* Nothing is saved at first.
LEMMA SaveInit == Init => SaveInv
BY DEF Init, SaveInv, Overtaken, Untaken, Loaded

\* What moves away from the destination has been taken by the user.
LEMMA MovesKeep ==
    ASSUME TypeOK, NEW side \in Sides, NEW items \in SUBSET Roles, Moves(side, items),
           ~hasty', came' = came, NEW set \in SUBSET Roles
    PROVE  /\ Untaken(set)' \subseteq Untaken(set)
           /\ Untaken(set) \subseteq list["destination"] =>
                 Untaken(set)' \subseteq list'["destination"]
BY DEF Moves, Other, Untaken, TypeOK

\* Both lists have come: they show what has come where the database has it.
LEMMA ListsShow ==
    ASSUME TypeOK, LoadInv, ~hasty, NEW side \in Sides, ListComes(side), Loaded'
    PROVE  /\ came' = list'["source"] \union list'["destination"]
           /\ list'["source"] = came' \ granted
           /\ list'["destination"] = came' \intersect granted
<1>1. /\ ~Loaded
      /\ \A s \in Sides : list'[s] = (IF s = side THEN answer[side] ELSE list[s])
      /\ came' = came \union answer[side]
      /\ req[side] = "answered"
  BY DEF ListComes, Loaded, TypeOK
<1>2. /\ \A s \in Sides :
            /\ answer[s] \union list[s] \subseteq Stored(s)
            /\ req[s] # "shown" => list[s] = {}
      /\ came = list["source"] \union list["destination"]
  BY <1>1 DEF LoadInv
<1>3. /\ \A s \in Sides : list'[s] \subseteq Stored(s)
      /\ came' = list'["source"] \union list'["destination"]
  BY <1>1, <1>2
<1> QED
  BY <1>3 DEF Stored

\* A user who has not been hasty saves what both lists together show.
LEMMA SaveByWaiter ==
    ASSUME TypeOK, LoadInv, SaveInv, NEW i \in Saves, Save(i)
    PROVE  SaveInv'
<1> USE DEF server, requests, rows, Untaken
<1>1. /\ save' = [save EXCEPT ![i] = "sent"] /\ save[i] = "none"
      /\ \A j \in Saves : j < i => save[j] # "none"
  BY DEF Save, IsNext, Saves
<1>2. /\ \A j \in Saves : sent'[j] = IF j = i THEN list["destination"] ELSE sent[j]
      /\ list["destination"] # {}
  BY DEF Save, TypeOK
<1>3. /\ UNCHANGED <<page, req, list, granted, taken, came>>
      /\ Loaded' = Loaded
      /\ ~hasty' => ~hasty /\ Loaded /\ page = "open"
  BY DEF Save, Acts, Loaded, TypeOK
<1>4. \A j \in Saves : save'[j] = IF j = i THEN "sent" ELSE save[j]
  BY <1>1 DEF TypeOK
<1>5. \A a, b \in Saves : a < b /\ save'[a] = "none" => save'[b] = "none"
  BY <1>1, <1>4 DEF SaveInv, Saves
<1>6. \A j \in Saves : save'[j] = "sent" <=> sent'[j] # {}
  BY <1>2, <1>4 DEF SaveInv
<1>7. \A j \in Saves : Overtaken(j)' <=> Overtaken(j)
  BY <1>1, <1>4 DEF Overtaken
<1>8. ASSUME ~hasty'
      PROVE  /\ Untaken(granted) \subseteq list["destination"]
             /\ \A j \in Saves : Untaken(sent'[j]) \subseteq list["destination"]
  BY <1>2, <1>3, <1>8 DEF SaveInv
<1>9. ASSUME ~hasty', NEW j \in Saves, save'[j] = "sent", ~Overtaken(j)'
      PROVE  Untaken(granted) \subseteq sent'[j]
  BY <1>2, <1>3, <1>4, <1>7, <1>8, <1>9 DEF SaveInv
<1>10. ASSUME ~hasty', NEW a \in Saves, NEW b \in Saves, a < b, save'[b] = "sent"
       PROVE  Untaken(sent'[a]) \subseteq sent'[b]
  <2>1. CASE b = i
    BY <1>2, <1>8, <1>10, <2>1
  <2>2. CASE b # i
    <3>1. save[b] = "sent" /\ a # i
      BY <1>1, <1>4, <1>10, <2>2 DEF SaveInv
    <3> QED
      BY <1>2, <1>3, <1>10, <2>2, <3>1 DEF SaveInv
  <2> QED
    BY <2>1, <2>2
<1> QED
  BY <1>3, <1>5, <1>6, <1>8, <1>9, <1>10 DEF SaveInv

\* What the server stores, or what fails, asks for nothing any more.
LEMMA SaveAnswered ==
    ASSUME TypeOK, SaveInv, NEW i \in Saves, ServerStores(i) \/ SaveFails(i)
    PROVE  SaveInv'
<1> USE DEF rows, requests, server, acts, history, Untaken
<1>1. /\ UNCHANGED <<page, req, list, hasty, taken, came>>
      /\ Loaded' = Loaded
      /\ save[i] \in {"sent", "stored"}
      /\ \A j \in Saves : j # i => save'[j] = save[j]
      /\ save'[i] \in {"stored", "lost", "over"}
  BY DEF ServerStores, SaveFails, Loaded, TypeOK
<1>2. \A j \in Saves : sent'[j] = IF j = i THEN {} ELSE sent[j]
  BY DEF ServerStores, SaveFails, Answered, TypeOK
<1>3. \A a, b \in Saves : a < b /\ save'[a] = "none" => save'[b] = "none"
  <2>1. \A j \in Saves : save'[j] = "none" <=> save[j] = "none"
    BY <1>1
  <2> QED
    BY <2>1 DEF SaveInv
<1>4. \A j \in Saves : save'[j] = "sent" <=> sent'[j] # {}
  BY <1>1, <1>2 DEF SaveInv
<1>5. CASE granted' = sent[i] /\ save[i] = "sent" /\ save'[i] = "stored"
  <2>1. ASSUME ~hasty, NEW j \in Saves, save'[j] = "sent", ~Overtaken(j)'
        PROVE  Untaken(granted') \subseteq sent'[j]
    <3>1. j # i /\ ~(i > j)
      BY <1>5, <2>1 DEF Overtaken
    <3>2. i < j /\ save[j] = "sent"
      BY <1>1, <2>1, <3>1 DEF Saves
    <3> QED
      BY <1>2, <1>5, <2>1, <3>1, <3>2 DEF SaveInv
  <2> QED
    BY <1>1, <1>2, <1>3, <1>4, <1>5, <2>1 DEF SaveInv
<1>6. CASE granted' = granted /\ \A j \in Saves : Overtaken(j)' <=> Overtaken(j)
  BY <1>1, <1>2, <1>3, <1>4, <1>6 DEF SaveInv
<1>7. SaveFails(i) => \A j \in Saves : Overtaken(j)' <=> Overtaken(j)
  BY DEF SaveFails, Overtaken, TypeOK
<1>8. SaveFails(i) => granted' = granted
  BY DEF SaveFails
<1>9. ServerStores(i) => granted' = sent[i] /\ save[i] = "sent" /\ save'[i] = "stored"
  BY DEF ServerStores, TypeOK
<1> QED
  BY <1>5, <1>6, <1>7, <1>8, <1>9

\* No step of the screen breaks what is known of the saves.
LEMMA SaveStep == TypeOK /\ LoadInv /\ SaveInv /\ [Next]_vars => SaveInv'
<1> SUFFICES ASSUME TypeOK, LoadInv, SaveInv, [Next]_vars PROVE SaveInv'
  OBVIOUS
<1> USE DEF rows, requests, saving, server, acts, history
<1>1. ASSUME UNCHANGED <<page, req, list, save, sent, granted, hasty, taken, came>>
      PROVE  SaveInv'
  BY <1>1 DEF SaveInv, Loaded, Overtaken, Untaken
<1>2. ASSUME UNCHANGED <<page, save, sent, granted, hasty, taken, came>>,
             list' = list, ~Loaded'
      PROVE  SaveInv'
  BY <1>2 DEF SaveInv, Overtaken, Untaken
<1>3. CASE Loads
  <2>1. ASSUME NEW result \in {"group", "empty", "null", "error"}, GroupComes(result)
        PROVE  SaveInv'
    BY <1>2, <2>1 DEF GroupComes, Loaded
  <2>4. ASSUME NEW r \in Roles, ModuleChanges(r) PROVE SaveInv'
    BY <1>1, <2>4 DEF ModuleChanges
  <2>2. ASSUME NEW side \in Sides, ServerLists(side) \/ ListLost(side) PROVE SaveInv'
    <3>1. ~Loaded'
      BY <2>2 DEF ServerLists, ListLost, Loaded, TypeOK
    <3> QED
      BY <1>2, <2>2, <3>1 DEF ServerLists, ListLost
  <2>3. ASSUME NEW side \in Sides, ListComes(side) PROVE SaveInv'
    <3>1. UNCHANGED <<save, sent, granted, hasty, taken>>
      BY <2>3 DEF ListComes
    <3>2. ~hasty => \A i \in Saves : save[i] = "none" /\ sent[i] = {}
      BY <2>3 DEF ListComes, LoadInv, SaveInv, Loaded
    <3>3. ~hasty /\ Loaded' => list'["destination"] = came' \intersect granted
      BY <2>3, ListsShow
    <3> QED
      BY <3>1, <3>2, <3>3 DEF SaveInv, Overtaken, Untaken
  <2> QED
    BY <1>3, <2>1, <2>2, <2>3, <2>4 DEF Loads
<1>4. CASE Selects
  BY <1>1, <1>4 DEF Selects, Click, ClickOff, CtrlClick, ShiftClick
<1>5. CASE Edits
  <2>1. ASSUME NEW side \in Sides, NEW items \in SUBSET Roles, Moves(side, items), Acts,
               UNCHANGED <<page, req, save, sent, granted, came>>
        PROVE  SaveInv'
    <3>1. Loaded' = Loaded /\ (~hasty' => ~hasty /\ Loaded)
      BY <2>1 DEF Loaded, Acts, TypeOK
    <3>2. granted \in SUBSET Roles /\ \A i \in Saves : sent[i] \in SUBSET Roles
      BY DEF TypeOK
    <3>3. ASSUME ~hasty', NEW set \in SUBSET Roles
          PROVE  /\ Untaken(set)' \subseteq Untaken(set)
                 /\ Untaken(set) \subseteq list["destination"] =>
                       Untaken(set)' \subseteq list'["destination"]
      BY <2>1, <3>3, MovesKeep
    <3>4. ASSUME ~hasty'
          PROVE  /\ Untaken(granted)' \subseteq Untaken(granted)
                 /\ Untaken(granted) \subseteq list["destination"] =>
                       Untaken(granted)' \subseteq list'["destination"]
                 /\ \A i \in Saves :
                       /\ Untaken(sent[i])' \subseteq Untaken(sent[i])
                       /\ Untaken(sent[i]) \subseteq list["destination"] =>
                             Untaken(sent[i])' \subseteq list'["destination"]
      BY <2>1, <3>2, <3>3, <3>4 DEF Untaken
    <3>5. ~hasty' =>
             /\ Loaded' /\ page' = "open" => Untaken(granted)' \subseteq list'["destination"]
             /\ \A i \in Saves :
                   /\ page' = "open" => Untaken(sent[i])' \subseteq list'["destination"]
                   /\ save'[i] = "sent" /\ ~Overtaken(i)' => Untaken(granted)' \subseteq sent'[i]
                   /\ \A j \in Saves : i < j /\ save'[j] = "sent" =>
                         Untaken(sent[i])' \subseteq sent'[j]
      BY <2>1, <3>1, <3>4 DEF SaveInv, Overtaken
    <3> QED
      BY <2>1, <3>5 DEF SaveInv
  <2>2. ASSUME NEW side \in Sides, AssignSelected(side) PROVE SaveInv'
    <3>1. Items(side) \in SUBSET Roles
      BY CacheType DEF Items
    <3> QED
      BY <2>1, <2>2, <3>1 DEF AssignSelected
  <2>3. ASSUME NEW side \in Sides, NEW r \in Roles, AssignClicked(side, r) PROVE SaveInv'
    BY <2>1, <2>3 DEF AssignClicked
  <2>4. ASSUME NEW side \in Sides, NEW r \in Roles, Drag(side, r) PROVE SaveInv'
    BY <2>1, <2>4 DEF Drag
  <2>5. ASSUME NEW bad \in BOOLEAN, EditField(bad) PROVE SaveInv'
    BY <1>1, <2>5 DEF EditField
  <2>6. CASE SaveNothing
    BY <1>1, <2>6 DEF SaveNothing
  <2> QED
    BY <1>5, <2>2, <2>3, <2>4, <2>5, <2>6 DEF Edits
<1>6. CASE SaveNext
  <2> SUFFICES ASSUME NEW i \in Saves,
                      Save(i) \/ ServerStores(i) \/ SaveFails(i) \/ SaveReturns(i)
               PROVE  SaveInv'
    BY <1>6 DEF SaveNext
  <2>1. CASE SaveReturns(i)
    <3>1. /\ page' = "left" /\ UNCHANGED <<sent, granted, hasty, taken, came>>
          /\ save' = [save EXCEPT ![i] = "over"] /\ save[i] = "stored"
      BY <2>1 DEF SaveReturns
    <3>2. \A j \in Saves : /\ save'[j] = "none" <=> save[j] = "none"
                           /\ save'[j] = "sent" <=> save[j] = "sent"
                           /\ Overtaken(j)' <=> Overtaken(j)
      BY <3>1 DEF TypeOK, Overtaken
    <3> QED
      BY <3>1, <3>2 DEF SaveInv, Untaken
  <2> QED
    BY <2>1, SaveByWaiter, SaveAnswered
<1>7. CASE UNCHANGED vars
  BY <1>1, <1>7 DEF vars
<1> QED
  BY <1>3, <1>4, <1>5, <1>6, <1>7 DEF Next

-----------------------------------------------------------------------------
(* The invariant and what follows from it *)

\* The caches, the two lists, the saves and the database stay consistent with
\* one another whatever the user does and in whichever order requests end.
THEOREM ScreenCorrect == Spec => []ScreenInv
<1>1. Init => ScreenInv
  BY CacheInit, LoadInit, SaveInit DEF ScreenInv
<1>2. TypeOK /\ ScreenInv /\ [Next]_vars => ScreenInv'
  BY CacheStep, LoadStep, SaveStep DEF ScreenInv
<1> QED
  BY <1>1, <1>2, TypeCorrect, PTL DEF Spec

\* No role that has come drops out of both lists while the user moves roles
\* about, and no other role gets there.
THEOREM NoneLostHolds == Spec => []NoneLost
<1>1. TypeOK /\ ScreenInv => NoneLost
  BY DEF TypeOK, ScreenInv, LoadInv, NoneLost
<1> QED
  BY <1>1, TypeCorrect, ScreenCorrect, PTL

\* No role is listed two times unless a selected one has been dragged.
THEOREM NoneTwiceHolds == Spec => []NoneTwice
<1>1. TypeOK /\ ScreenInv => NoneTwice
  <2> SUFFICES ASSUME TypeOK, ScreenInv, ~hasty, ~dragged
               PROVE  twice = {} /\ list["source"] \intersect list["destination"] = {}
    BY DEF NoneTwice
  <2>1. LoadInv
    BY DEF ScreenInv
  <2>2. CASE ~Loaded
    BY <2>1, <2>2 DEF LoadInv, Stored, Loaded
  <2>3. CASE Loaded /\ page = "open"
    BY <2>1, <2>3 DEF LoadInv
  <2>4. CASE page = "left"
    BY <2>1, <2>4 DEF LoadInv
  <2> QED
    BY <2>2, <2>3, <2>4 DEF TypeOK
<1> QED
  BY <1>1, TypeCorrect, ScreenCorrect, PTL

\* The selection that an assignment acts on is the one that is highlighted.
THEOREM SelectedShownHolds == Spec => []SelectedShown
<1>1. ScreenInv => SelectedShown
  BY DEF ScreenInv, CacheInv
<1> QED
  BY <1>1, ScreenCorrect, PTL

\* A save takes no role from the group that was on the screen and that its user
\* has not taken away.
THEOREM RevokedByUserHolds == Spec => RevokedByUser
<1> DEFINE Kept == \A i \in Saves :
                      save[i] = "sent" /\ save'[i] = "stored" /\ ~Overtaken(i) =>
                         \A r \in granted \ granted' : r \in taken \/ hasty \/ r \notin came
<1>1. TypeOK /\ ScreenInv /\ [Next]_vars => Kept
  <2> SUFFICES ASSUME TypeOK, ScreenInv, [Next]_vars, ~hasty,
                      NEW i \in Saves, save[i] = "sent", save'[i] = "stored", ~Overtaken(i)
               PROVE  Untaken(granted) \subseteq granted'
    BY DEF Untaken
  <2> USE DEF rows, requests, saving, server, acts, history
  <2>1. ServerStores(i)
    <3>1. save' # save
      OBVIOUS
    <3>2. ~Loads /\ ~Selects /\ ~Edits
      BY <3>1 DEF Loads, GroupComes, ModuleChanges, ServerLists, ListLost, ListComes, Selects, Click, ClickOff,
                  CtrlClick, ShiftClick, Edits, AssignSelected, AssignClicked, Drag, EditField,
                  SaveNothing
    <3>3. PICK j \in Saves : Save(j) \/ ServerStores(j) \/ SaveFails(j) \/ SaveReturns(j)
      BY <3>1, <3>2 DEF Next, SaveNext, vars
    <3> QED
      BY <3>3 DEF Save, ServerStores, SaveFails, SaveReturns, TypeOK
  <2> QED
    BY <2>1 DEF ServerStores, ScreenInv, SaveInv
<1>2. RevokedByUser <=> [][Kept]_vars
  BY DEF RevokedByUser
<1> QED
  BY <1>1, <1>2, TypeCorrect, ScreenCorrect, PTL DEF Spec

-----------------------------------------------------------------------------
(* The screen implements the board *)

\* A screen that has been opened is a board that is not shown yet.
LEMMA BoardInit == Init => Board!Init
BY DEF Init, Board!Init, Shown, Loaded

\* What the board does not show changes nothing on it.
LEMMA BoardStutter ==
    ASSUME UNCHANGED <<page, req, list, sent, granted, hasty, dragged, came>>
    PROVE  UNCHANGED Board!vars
BY DEF Board!vars, Shown, Loaded

\* From the first careless step on the board may show anything.
LEMMA BoardCareless ==
    ASSUME TypeOK, TypeOK', hasty' \/ dragged', UNCHANGED granted, UNCHANGED sent
    PROVE  Board!Careless
BY DEF Board!Careless, Shown, Loaded, TypeOK

\* The last list that comes shows the board; the other answers do nothing to it.
LEMMA BoardLoads == TypeOK /\ TypeOK' /\ ScreenInv /\ Loads => [Board!Next]_Board!vars
<1> SUFFICES ASSUME TypeOK, TypeOK', ScreenInv, Loads PROVE [Board!Next]_Board!vars
  OBVIOUS
<1> USE DEF rows, requests, saving, server, acts, history
<1>1. ASSUME ~Shown, ~Shown', UNCHANGED <<sent, granted, hasty, dragged>>
      PROVE  UNCHANGED Board!vars
  BY <1>1 DEF Board!vars, Shown, Loaded
<1>2. ASSUME NEW result \in {"group", "empty", "null", "error"}, GroupComes(result)
      PROVE  UNCHANGED Board!vars
  BY <1>1, <1>2 DEF GroupComes, Shown, Loaded
<1>5. ASSUME NEW r \in Roles, ModuleChanges(r) PROVE UNCHANGED Board!vars
  BY <1>5, BoardStutter DEF ModuleChanges
<1>3. ASSUME NEW side \in Sides, ServerLists(side) \/ ListLost(side)
      PROVE  UNCHANGED Board!vars
  <2>1. ~Shown /\ ~Shown'
    BY <1>3 DEF ServerLists, ListLost, Shown, Loaded, TypeOK
  <2> QED
    BY <1>1, <1>3, <2>1 DEF ServerLists, ListLost
<1>4. ASSUME NEW side \in Sides, ListComes(side) PROVE [Board!Next]_Board!vars
  <2>1. ~Shown /\ page' = "open" /\ UNCHANGED <<sent, granted, hasty, dragged>>
    BY <1>4 DEF ListComes, Shown, Loaded
  <2>2. CASE ~Loaded'
    BY <1>1, <2>1, <2>2 DEF Shown
  <2>3. CASE hasty \/ dragged
    BY <2>1, <2>3, BoardCareless DEF Board!Next
  <2>4. CASE Loaded' /\ ~hasty /\ ~dragged
    <3>1. list'["source"] = came' \ granted /\ list'["destination"] = came' \intersect granted
      BY <1>4, <2>4, ListsShow DEF ScreenInv
    <3>2. Shown'
      BY <2>1, <2>4 DEF Shown
    <3>3. Board!Show
      BY <2>1, <2>4, <3>1, <3>2 DEF Board!Show, TypeOK
    <3> QED
      BY <3>3 DEF Board!Next
  <2> QED
    BY <2>2, <2>3, <2>4
<1> QED
  BY <1>2, <1>3, <1>4, <1>5 DEF Loads

\* onAssign and dragging move roles from side to side of the board.
LEMMA BoardEdits == TypeOK /\ TypeOK' /\ ScreenInv /\ Edits => [Board!Next]_Board!vars
<1> SUFFICES ASSUME TypeOK, TypeOK', ScreenInv, Edits PROVE [Board!Next]_Board!vars
  OBVIOUS
<1> USE DEF rows, requests, saving, server
<1>1. ASSUME NEW side \in Sides, NEW items \in SUBSET Roles, Moves(side, items), Acts,
             page = "open", UNCHANGED <<page, req, sent, granted, came>>,
             ~hasty /\ Loaded /\ ~dragged' => ~dragged /\ items \subseteq list[side]
      PROVE  Board!Next
  <2>1. CASE hasty' \/ dragged'
    BY <1>1, <2>1, BoardCareless DEF Board!Next
  <2>2. CASE ~hasty' /\ ~dragged'
    <3>1. ~hasty /\ Loaded /\ Loaded' = Loaded /\ ~dragged
      BY <1>1, <2>2 DEF Acts, Loaded, TypeOK
    <3>2. Shown /\ Shown'
      BY <1>1, <3>1 DEF Shown
    <3>3. items \subseteq list[side]
      BY <1>1, <2>2, <3>1
    <3>4. CASE side = "source"
      <4>1. /\ list'["source"] = list["source"] \ items
            /\ list'["destination"] = list["destination"] \union items
        BY <1>1, <3>4 DEF Moves, Other, TypeOK
      <4>2. Board!Assign
        BY <1>1, <2>2, <3>1, <3>2, <3>3, <3>4, <4>1 DEF Board!Assign
      <4> QED
        BY <4>2 DEF Board!Next
    <3>5. CASE side = "destination"
      <4>1. /\ list'["destination"] = list["destination"] \ items
            /\ list'["source"] = list["source"] \union items
        BY <1>1, <3>5 DEF Moves, Other, TypeOK
      <4>2. Board!Unassign
        BY <1>1, <2>2, <3>1, <3>2, <3>3, <3>5, <4>1 DEF Board!Unassign
      <4> QED
        BY <4>2 DEF Board!Next
    <3> QED
      BY <3>4, <3>5
  <2> QED
    BY <2>1, <2>2
<1>2. ~hasty /\ Loaded /\ page = "open" =>
         \A side \in Sides : list[side] \intersect list[Other(side)] = {}
  BY DEF ScreenInv, LoadInv, Other
<1>3. ASSUME NEW side \in Sides, AssignSelected(side) PROVE Board!Next
  <2>1. Items(side) \in SUBSET Roles
    BY CacheType DEF Items
  <2>2. ~hasty /\ Loaded /\ ~dragged' => ~dragged /\ Items(side) \subseteq list[side]
    BY <1>2, <1>3, NothingDoubled DEF AssignSelected, ScreenInv
  <2> QED
    BY <1>1, <1>3, <2>1, <2>2 DEF AssignSelected
<1>4. ASSUME NEW side \in Sides, NEW r \in Roles, AssignClicked(side, r) PROVE Board!Next
  BY <1>1, <1>4 DEF AssignClicked, Usable
<1>5. ASSUME NEW side \in Sides, NEW r \in Roles, Drag(side, r) PROVE Board!Next
  <2>1. ~dragged' => ~dragged
    BY <1>5 DEF Drag, TypeOK
  <2> QED
    BY <1>1, <1>5, <2>1 DEF Drag, Usable
<1>6. ASSUME (\E bad \in BOOLEAN : EditField(bad)) \/ SaveNothing PROVE UNCHANGED Board!vars
  BY <1>6, BoardStutter DEF EditField, SaveNothing, acts, history
<1> QED
  BY <1>3, <1>4, <1>5, <1>6 DEF Edits

\* onSave submits a side of the board, and the server grants or refuses it.
LEMMA BoardSaves == TypeOK /\ TypeOK' /\ ScreenInv /\ SaveNext => [Board!Next]_Board!vars
<1> SUFFICES ASSUME TypeOK, TypeOK', ScreenInv, NEW i \in Saves,
                    Save(i) \/ ServerStores(i) \/ SaveFails(i) \/ SaveReturns(i)
             PROVE  [Board!Next]_Board!vars
  BY DEF SaveNext
<1> USE DEF rows, requests, saving, server, acts, history
<1>1. save[i] = "sent" <=> sent[i] # {}
  BY DEF ScreenInv, SaveInv
<1>2. CASE Save(i)
  <2>1. /\ sent[i] = {}
        /\ list["destination"] \in (SUBSET Roles) \ {{}}
        /\ \A j \in Saves : sent'[j] =
              IF j = i THEN list["destination"] ELSE sent[j]
    BY <1>1, <1>2 DEF Save, IsNext, TypeOK
  <2>2. UNCHANGED <<page, req, list, granted, dragged, came>> /\ Loaded' = Loaded /\ page = "open"
    BY <1>2 DEF Save, Loaded
  <2>3. sent' = [sent EXCEPT ![i] = list["destination"]]
    BY <1>2 DEF Save
  <2>4. CASE hasty' \/ dragged'
    <3>1. Board!Careless
      BY <2>1, <2>2, <2>3, <2>4 DEF Board!Careless, Shown, Loaded, TypeOK
    <3> QED
      BY <3>1 DEF Board!Next
  <2>5. CASE ~hasty' /\ ~dragged'
    <3>1. Loaded /\ ~hasty
      BY <1>2, <2>5 DEF Save, Acts, TypeOK
    <3>2. Shown /\ Shown'
      BY <2>2, <3>1 DEF Shown
    <3>3. Board!Submit(i)
      BY <2>1, <2>2, <2>3, <2>5, <3>1, <3>2 DEF Board!Submit
    <3> QED
      BY <3>3 DEF Board!Next
  <2> QED
    BY <2>4, <2>5
<1>4. CASE ServerStores(i)
  <2>1. /\ UNCHANGED <<page, req, list, hasty, dragged, came>>
        /\ granted' = sent[i] /\ sent[i] # {}
        /\ sent' = [sent EXCEPT ![i] = {}]
    BY <1>1, <1>4 DEF ServerStores, Answered
  <2>2. Shown' = Shown
    BY <2>1 DEF Shown, Loaded
  <2>3. Board!Grant(i)
    BY <2>1, <2>2 DEF Board!Grant
  <2> QED
    BY <2>3 DEF Board!Next
<1>5. CASE SaveFails(i)
  <2>1. /\ UNCHANGED <<page, req, list, granted, hasty, dragged, came>>
        /\ sent' = [sent EXCEPT ![i] = {}]
    BY <1>5 DEF SaveFails, Answered
  <2>2. Shown' = Shown
    BY <2>1 DEF Shown, Loaded
  <2>3. CASE sent[i] # {}
    <3>1. Board!Refuse(i)
      BY <2>1, <2>2, <2>3 DEF Board!Refuse
    <3> QED
      BY <3>1 DEF Board!Next
  <2>4. CASE sent[i] = {}
    <3>1. sent' = sent
      BY <2>1, <2>4 DEF TypeOK
    <3> QED
      BY <2>1, <2>2, <3>1 DEF Board!vars
  <2> QED
    BY <2>3, <2>4
<1>6. CASE SaveReturns(i)
  <2>1. ~Shown' /\ UNCHANGED <<sent, granted, hasty, dragged>>
    BY <1>6 DEF SaveReturns, Shown
  <2>2. CASE Shown
    <3>1. Board!Leave
      BY <2>1, <2>2 DEF Board!Leave
    <3> QED
      BY <3>1 DEF Board!Next
  <2>3. CASE ~Shown
    BY <2>1, <2>3 DEF Board!vars, Shown, Loaded
  <2> QED
    BY <2>2, <2>3
<1> QED
  BY <1>2, <1>4, <1>5, <1>6

\* The screen keeps the promise of the board: every step of it is one of the
\* board's, or one that the board does not show.
THEOREM ImplementsBoard == Spec => BoardSpec
<1>1. TypeOK /\ TypeOK' /\ ScreenInv /\ [Next]_vars => [Board!Next]_Board!vars
  <2>1. Selects \/ UNCHANGED vars => UNCHANGED Board!vars
    BY BoardStutter DEF Selects, Click, ClickOff, CtrlClick, ShiftClick, vars,
                        rows, requests, saving, server, acts, history
  <2> QED
    BY <2>1, BoardLoads, BoardEdits, BoardSaves DEF Next
<1> QED
  BY <1>1, BoardInit, TypeCorrect, ScreenCorrect, PTL DEF Spec, BoardSpec, Board!Spec
=============================================================================
