---------------------------- MODULE WorkbenchProofs ----------------------------
(***************************************************************************)
(* Proofs about the workbench, for every policy of the tools, every number *)
(* of projects, sources, edits, files, paths and groups.  The parts share  *)
(* no variable: each has its own inductive invariant, kept by its steps    *)
(* and by those that move another part.  The workspace comes first.  What  *)
(* filter, removeFiles and addFiles compute is proved for lists of any     *)
(* length: a recursive function exists because its iterates do, and what   *)
(* its steps keep holds of its value, both because a set of                *)
(* counterexamples would have a least one.                                 *)
(***************************************************************************)
EXTENDS Workbench, SequenceTheorems, WellFoundedInduction, TLAPS

-----------------------------------------------------------------------------
(***************************************************************************)
(* Numbers and iteration                                                   *)
(***************************************************************************)
\* The pairs of numbers in their order.
Less == {p \in Nat \X Nat : p[1] < p[2]}

\* A set of numbers has a least one.
LEMMA LeastNumber ==
  ASSUME NEW S, S \subseteq Nat, S # {}
  PROVE  \E m \in S : \A n \in S : m <= n
<1>1. IsWellFoundedOn(Less, Nat)
  BY NatLessThanWellFounded, Zenon DEF OpToRel, Less
<1>2. PICK m \in S : \A n \in S : <<n, m>> \notin Less
  BY <1>1, WFMin
<1>3. ASSUME NEW n \in S PROVE m <= n
  <2>1. n < m => <<n, m>> \in Less
    BY DEF Less
  <2> QED BY <1>2, <2>1
<1> QED BY <1>3

\* The first r values of an iteration that starts at v0.
Iterates(r, n, v0, step) == r[0] = v0 /\ \A k \in 1 .. n : r[k] = step[<<k, r[k - 1]>>]

\* An iteration can be carried on to any number of steps.
LEMMA IterationExists ==
  ASSUME NEW V, NEW v0 \in V, NEW last \in Nat, NEW step \in [(1 .. last) \X V -> V]
  PROVE  \E r \in [0 .. last -> V] : Iterates(r, last, v0, step)
<1> DEFINE missing == {n \in 0 .. last : ~ \E r \in [0 .. n -> V] : Iterates(r, n, v0, step)}
<1>1. SUFFICES ASSUME missing # {} PROVE FALSE
  OBVIOUS
<1>2. PICK m \in missing : \A n \in missing : m <= n
  <2>1. missing \subseteq Nat
    OBVIOUS
  <2> HIDE DEF missing
  <2> QED BY <1>1, <2>1, LeastNumber
<1>3. m # 0
  <2>1. [k \in 0 .. 0 |-> v0] \in [0 .. 0 -> V] /\ Iterates([k \in 0 .. 0 |-> v0], 0, v0, step)
    BY DEF Iterates
  <2> QED BY <1>2, <2>1
<1>4. PICK r \in [0 .. m - 1 -> V] : Iterates(r, m - 1, v0, step)
  BY <1>2, <1>3
<1> DEFINE q == [k \in 0 .. m |-> IF k = m THEN step[<<m, r[m - 1]>>] ELSE r[k]]
<1>5. q \in [0 .. m -> V]
  BY <1>2, <1>3
<1>6. Iterates(q, m, v0, step)
  <2>1. m \in Nat /\ m \in 0 .. m /\ 0 \in 0 .. m - 1 /\ \A k \in 0 .. m - 1 : k \in 0 .. m /\ k # m
    BY <1>2, <1>3
  <2>2. \A k \in 0 .. m - 1 : q[k] = r[k]
    BY <2>1
  <2>3. q[m] = step[<<m, r[m - 1]>>]
    BY <2>1
  <2> HIDE DEF q
  <2>4. q[0] = v0
    BY <1>4, <2>1, <2>2 DEF Iterates
  <2>5. ASSUME NEW k \in 1 .. m PROVE q[k] = step[<<k, q[k - 1]>>]
    <3>1. k - 1 \in 0 .. m - 1 /\ (k = m \/ (k \in 1 .. m - 1 /\ k \in 0 .. m - 1))
      BY <2>1
    <3>2. q[k - 1] = r[k - 1]
      BY <2>2, <3>1
    <3>3. k \in 1 .. m - 1 => r[k] = step[<<k, r[k - 1]>>]
      BY <1>4 DEF Iterates
    <3> QED BY <2>2, <2>3, <3>1, <3>2, <3>3
  <2> QED BY <2>4, <2>5 DEF Iterates
<1> QED BY <1>2, <1>5, <1>6

\* What holds at the start of an iteration and is kept by its steps holds throughout.
LEMMA IterationKeeps ==
  ASSUME NEW last \in Nat, NEW good, NEW r,
         r[0] \in good[0], \A n \in 1 .. last : r[n - 1] \in good[n - 1] => r[n] \in good[n]
  PROVE  \A n \in 0 .. last : r[n] \in good[n]
<1> DEFINE bad == {n \in 0 .. last : r[n] \notin good[n]}
<1>1. SUFFICES ASSUME bad # {} PROVE FALSE
  OBVIOUS
<1>2. PICK m \in bad : \A n \in bad : m <= n
  <2>1. bad \subseteq Nat
    OBVIOUS
  <2> HIDE DEF bad
  <2> QED BY <1>1, <2>1, LeastNumber
<1>3. m \in 1 .. last /\ m - 1 \notin bad
  BY <1>2
<1> QED BY <1>2, <1>3

-----------------------------------------------------------------------------
(***************************************************************************)
(* filter, and the tabs of the groups                                      *)
(***************************************************************************)
\* The elements of q, in their order: those of the first n of s that are in kept.
Picks(q, s, n, kept) ==
  \E at \in [1 .. Len(q) -> 1 .. n] :
    /\ \A i \in 1 .. Len(q) : q[i] = s[at[i]] /\ q[i] \in kept
    /\ \A i, j \in 1 .. Len(q) : at[i] = at[j] => i = j
    /\ \A k \in 1 .. n : s[k] \in kept => \E i \in 1 .. Len(q) : at[i] = k

\* The next element is added to what was picked, or left out.
LEMMA PicksNext ==
  ASSUME NEW T, NEW s \in Seq(T), NEW kept, NEW n \in 1 .. Len(s), NEW q \in Seq(T), Picks(q, s, n - 1, kept),
         NEW p, p = IF s[n] \in kept THEN Append(q, s[n]) ELSE q
  PROVE  p \in Seq(T) /\ Picks(p, s, n, kept)
<1>1. PICK at \in [1 .. Len(q) -> 1 .. n - 1] :
        /\ \A i \in 1 .. Len(q) : q[i] = s[at[i]] /\ q[i] \in kept
        /\ \A i, j \in 1 .. Len(q) : at[i] = at[j] => i = j
        /\ \A k \in 1 .. n - 1 : s[k] \in kept => \E i \in 1 .. Len(q) : at[i] = k
  BY DEF Picks
<1>2. Len(s) \in Nat /\ n \in Nat /\ Len(q) \in Nat /\ s[n] \in T
  OBVIOUS
<1>3. CASE s[n] \in kept
  <2>1. p \in Seq(T) /\ Len(p) = Len(q) + 1 /\ p[Len(q) + 1] = s[n] /\ \A i \in 1 .. Len(q) : p[i] = q[i]
    BY <1>2, <1>3
  <2> DEFINE last == Len(p)
             new == [i \in 1 .. last |-> IF i = last THEN n ELSE at[i]]
  <2>2. /\ last \notin 1 .. Len(q) /\ 1 .. last = (1 .. Len(q)) \cup {last}
        /\ n \notin 1 .. n - 1 /\ 1 .. n = (1 .. n - 1) \cup {n}
    BY <1>2, <2>1
  <2>3. new[last] = n /\ \A i \in 1 .. Len(q) : new[i] = at[i] /\ at[i] \in 1 .. n - 1
    BY <2>2
  <2>4. new \in [1 .. last -> 1 .. n]
    BY <2>2
  <2> HIDE DEF new, last
  <2>5. \A i \in 1 .. last : p[i] = s[new[i]] /\ p[i] \in kept
    <3>1. p[last] = s[n]
      BY <2>1 DEF last
    <3>2. \A i \in 1 .. Len(q) : p[i] = s[new[i]] /\ p[i] \in kept
      BY <1>1, <2>1, <2>3, Zenon
    <3> QED BY <1>3, <2>2, <2>3, <3>1, <3>2, Zenon
  <2>6. \A i, j \in 1 .. last : new[i] = new[j] => i = j
    <3> SUFFICES ASSUME NEW i \in 1 .. last, NEW j \in 1 .. last, new[i] = new[j] PROVE i = j
      OBVIOUS
    <3>1. CASE i = last /\ j # last
      BY <2>2, <2>3, <3>1
    <3>2. CASE i # last /\ j = last
      BY <2>2, <2>3, <3>2
    <3>3. CASE i # last /\ j # last
      BY <1>1, <2>2, <2>3, <3>3
    <3> QED BY <3>1, <3>2, <3>3
  <2>7. \A k \in 1 .. n : s[k] \in kept => \E i \in 1 .. last : new[i] = k
    BY <1>1, <2>2, <2>3
  <2>9. Picks(p, s, n, kept)
    BY <2>4, <2>5, <2>6, <2>7, Zenon DEF Picks, last
  <2> QED BY <2>1, <2>9
<1>4. CASE s[n] \notin kept
  <2>1. p = q
    BY <1>4
  <2>2. 1 .. n = (1 .. n - 1) \cup {n}
    BY <1>2
  <2>3. at \in [1 .. Len(q) -> 1 .. n]
    BY <2>2
  <2>4. \A k \in 1 .. n : s[k] \in kept => \E i \in 1 .. Len(q) : at[i] = k
    BY <1>1, <1>4, <2>2
  <2>5. Picks(q, s, n, kept)
    BY <1>1, <2>3, <2>4, Zenon DEF Picks
  <2> QED BY <2>1, <2>5
<1> QED BY <1>3, <1>4

\* Filter picks the elements that are kept, each place once.
LEMMA FilterPicks ==
  ASSUME NEW T, NEW s \in Seq(T), NEW kept
  PROVE  Filter(s, kept) \in Seq(T) /\ Picks(Filter(s, kept), s, Len(s), kept)
<1> DEFINE step == [p \in (1 .. Len(s)) \X Seq(T) |->
                      IF s[p[1]] \in kept THEN Append(p[2], s[p[1]]) ELSE p[2]]
           body(f) == [n \in 0 .. Len(s) |->
                        IF n = 0 THEN <<>>
                        ELSE IF s[n] \in kept THEN Append(f[n - 1], s[n]) ELSE f[n - 1]]
           upTo == CHOOSE f : f = body(f)
<1>0. Len(s) \in Nat /\ <<>> \in Seq(T) /\ \A n \in 1 .. Len(s) : s[n] \in T
  OBVIOUS
<1>1. \E f : f = body(f)
  <2>1. step \in [(1 .. Len(s)) \X Seq(T) -> Seq(T)]
    BY <1>0
  <2>2. \A n \in 1 .. Len(s), q \in Seq(T) : step[<<n, q>>] = IF s[n] \in kept THEN Append(q, s[n]) ELSE q
    OBVIOUS
  <2> HIDE DEF step
  <2>3. PICK r \in [0 .. Len(s) -> Seq(T)] : Iterates(r, Len(s), <<>>, step)
    <3>1. \E r \in [0 .. Len(s) -> Seq(T)] : Iterates(r, Len(s), <<>>, step)
      BY <1>0, <2>1, IterationExists, Zenon
    <3> QED BY <3>1
  <2>4. r[0] = <<>> /\ \A n \in 1 .. Len(s) : r[n] = step[<<n, r[n - 1]>>]
    BY <2>3 DEF Iterates
  <2>5. ASSUME NEW n \in 0 .. Len(s)
        PROVE  r[n] = IF n = 0 THEN <<>>
                      ELSE IF s[n] \in kept THEN Append(r[n - 1], s[n]) ELSE r[n - 1]
    <3>1. CASE n # 0
      <4>1. n \in 1 .. Len(s) /\ n - 1 \in 0 .. Len(s)
        BY <1>0, <3>1
      <4>2. r[n - 1] \in Seq(T)
        BY <4>1
      <4> QED BY <2>2, <2>4, <3>1, <4>1, <4>2
    <3> QED BY <2>4, <3>1
  <2>6. r = body(r)
    BY <2>5, Zenon
  <2> QED BY <2>6, Zenon
<1>2. upTo = body(upTo)
  BY <1>1, Zenon
<1>3. Filter(s, kept) = upTo[Len(s)]
  BY Zenon DEF Filter
<1> HIDE DEF upTo, step
<1> DEFINE good == [n \in 0 .. Len(s) |-> {q \in Seq(T) : Picks(q, s, n, kept)}]
<1>4. upTo[0] \in good[0]
  <2>1. upTo[0] = <<>>
    BY <1>2
  <2>2. Picks(<<>>, s, 0, kept)
    <3>1. [i \in {} |-> 0] \in [1 .. Len(<<>>) -> 1 .. 0] /\ 1 .. Len(<<>>) = {} /\ 1 .. 0 = {}
      OBVIOUS
    <3> QED BY <3>1, Zenon DEF Picks
  <2> QED BY <1>0, <2>1, <2>2
<1>5. ASSUME NEW n \in 1 .. Len(s), upTo[n - 1] \in good[n - 1] PROVE upTo[n] \in good[n]
  <2>0. n - 1 \in 0 .. Len(s) /\ n \in 0 .. Len(s) /\ n # 0
    BY <1>0
  <2>1. PICK q \in Seq(T) : q = upTo[n - 1] /\ Picks(q, s, n - 1, kept)
    BY <1>5, <2>0
  <2>2. upTo[n] = IF s[n] \in kept THEN Append(q, s[n]) ELSE q
    BY <1>2, <2>0, <2>1, Zenon
  <2>3. upTo[n] \in Seq(T) /\ Picks(upTo[n], s, n, kept)
    BY <2>1, <2>2, PicksNext
  <2> QED BY <2>0, <2>3
<1>6. Len(s) \in Nat /\ Len(s) \in 0 .. Len(s)
  OBVIOUS
<1> HIDE DEF good
<1>7. upTo[Len(s)] \in good[Len(s)]
  BY <1>4, <1>5, <1>6, IterationKeeps
<1> QED BY <1>3, <1>6, <1>7 DEF good

\* As sets and as maps: nothing else is in the result, and nothing twice that was not.
LEMMA FilterIsASelection ==
  ASSUME NEW T, NEW s \in Seq(T), NEW kept, NEW q, q = Filter(s, kept)
  PROVE  /\ q \in Seq(T) /\ ToSet(q) = ToSet(s) \cap kept
         /\ IsInjective(s) => IsInjective(q)
         /\ \A i \in DOMAIN q : \E j \in DOMAIN s : q[i] = s[j]
<1>1. q \in Seq(T) /\ Picks(q, s, Len(s), kept)
  BY FilterPicks
<1>2. PICK at \in [1 .. Len(q) -> 1 .. Len(s)] :
        /\ \A i \in 1 .. Len(q) : q[i] = s[at[i]] /\ q[i] \in kept
        /\ \A i, j \in 1 .. Len(q) : at[i] = at[j] => i = j
        /\ \A k \in 1 .. Len(s) : s[k] \in kept => \E i \in 1 .. Len(q) : at[i] = k
  BY <1>1 DEF Picks
<1>3. DOMAIN q = 1 .. Len(q) /\ DOMAIN s = 1 .. Len(s)
  BY <1>1
<1>4. ToSet(q) = ToSet(s) \cap kept
  BY <1>2, <1>3 DEF ToSet
<1>5. IsInjective(s) => IsInjective(q)
  BY <1>2, <1>3 DEF IsInjective
<1>6. \A i \in DOMAIN q : \E j \in DOMAIN s : q[i] = s[j]
  BY <1>2, <1>3
<1> QED BY <1>1, <1>4, <1>5, <1>6

-----------------------------------------------------------------------------
(***************************************************************************)
(* removeFiles of the reducer                                              *)
(***************************************************************************)
\* Groups of the model, whatever their ids and tabs.
Groups == [id : Nat, tabs : Seq(Nat), active : Nat \cup {None}]

\* A group shows one of its tabs, or nothing when it has none, and has each once.
Shows(g) ==
  /\ IF g.tabs = <<>> THEN g.active = None ELSE g.active \in Tabs(g)
  /\ IsInjective(g.tabs)

\* Closing a tab takes it away and shows another one.
LEMMA TabClosed ==
  ASSUME NEW g \in Groups, NEW id \in Nat, NEW h, h = RemoveFileFromGroup(g, id)
  PROVE  h \in Groups /\ h.id = g.id /\ Tabs(h) = Tabs(g) \ {id} /\ (Shows(g) => Shows(h))
<1> DEFINE index == SelectInSeq(g.tabs, LAMBDA t : t = id)
           left == IF index > 1 THEN index - 1 ELSE 1
<1>1. g.id \in Nat /\ g.tabs \in Seq(Nat) /\ g.active \in Nat \cup {None} /\ None \notin Nat
  BY WorkspaceAssumption DEF Groups, WorkspaceAssumption
<1>2. PICK tabs : tabs = Filter(g.tabs, Tabs(g) \ {id})
  OBVIOUS
<1>3. tabs \in Seq(Nat) /\ ToSet(tabs) = Tabs(g) \ {id} /\ (IsInjective(g.tabs) => IsInjective(tabs))
  <2>1. PICK s \in Seq(Nat) : s = g.tabs
    BY <1>1
  <2>2. PICK kept : kept = Tabs(g) \ {id}
    OBVIOUS
  <2>3. tabs = Filter(s, kept)
    BY <1>2, <2>1, <2>2
  <2>4. tabs \in Seq(Nat) /\ ToSet(tabs) = ToSet(s) \cap kept /\ (IsInjective(s) => IsInjective(tabs))
    BY <2>3, FilterIsASelection
  <2> QED BY <2>1, <2>2, <2>4 DEF Tabs
<1>4. PICK active : active = IF g.active # id THEN g.active
                             ELSE IF left \in DOMAIN tabs THEN tabs[left]
                             ELSE IF tabs # <<>> THEN tabs[1] ELSE None
  OBVIOUS
<1>5. h = [g EXCEPT !.tabs = tabs, !.active = active]
  BY <1>2, <1>4 DEF RemoveFileFromGroup
<1> HIDE DEF index, left
<1>6. \A i \in DOMAIN tabs : tabs[i] \in Nat /\ tabs[i] \in ToSet(tabs)
  BY <1>3 DEF ToSet
<1>7. tabs # <<>> => 1 \in DOMAIN tabs
  BY <1>3
<1>8. active \in Nat \cup {None}
  BY <1>1, <1>4, <1>6, <1>7, Zenon
<1>9. h \in Groups /\ h.id = g.id /\ h.tabs = tabs /\ h.active = active
  BY <1>1, <1>3, <1>5, <1>8 DEF Groups
<1>10. Shows(g) => IF tabs = <<>> THEN active = None ELSE active \in ToSet(tabs)
  <2>1. CASE g.active # id
    <3>1. active = g.active
      BY <1>4, <2>1
    <3>2. g.tabs = <<>> => ToSet(tabs) = {}
      BY <1>3 DEF Tabs, ToSet
    <3>3. ToSet(tabs) = {} <=> tabs = <<>>
      <4>1. tabs = <<>> => ToSet(tabs) = {}
        BY DEF ToSet
      <4> QED BY <1>6, <1>7, <4>1
    <3> QED BY <1>3, <2>1, <3>1, <3>2, <3>3 DEF Shows
  <2>2. CASE g.active = id
    <3>1. left \in DOMAIN tabs => tabs # <<>>
      OBVIOUS
    <3> QED BY <1>4, <1>6, <1>7, <2>2, <3>1, Zenon
  <2> QED BY <2>1, <2>2
<1> QED BY <1>3, <1>9, <1>10 DEF Shows, Tabs

\* The groups without the first n files of ids.
Without(hs, gs, ids, n) ==
  /\ Len(hs) = Len(gs)
  /\ \A i \in 1 .. Len(gs) :
       hs[i].id = gs[i].id /\ Tabs(hs[i]) = Tabs(gs[i]) \ {ids[k] : k \in 1 .. n} /\ Shows(hs[i])

\* The groups ks are the groups hs without a file.
Closes(ks, hs, id) ==
  /\ Len(ks) = Len(hs)
  /\ \A i \in 1 .. Len(hs) :
       ks[i].id = hs[i].id /\ Tabs(ks[i]) = Tabs(hs[i]) \ {id} /\ (Shows(hs[i]) => Shows(ks[i]))

\* A deleted file leaves every group.
LEMMA FileClosed ==
  ASSUME NEW hs \in Seq(Groups), NEW id \in Nat
  PROVE  RemoveFile(hs, id) \in Seq(Groups) /\ Closes(RemoveFile(hs, id), hs, id)
<1>1. PICK ks : ks = [i \in 1 .. Len(hs) |-> RemoveFileFromGroup(hs[i], id)]
  OBVIOUS
<1>2. RemoveFile(hs, id) = ks
  BY <1>1 DEF RemoveFile, EachGroup
<1>3. \A i \in 1 .. Len(hs) :
        /\ ks[i] \in Groups /\ ks[i].id = hs[i].id /\ Tabs(ks[i]) = Tabs(hs[i]) \ {id}
        /\ Shows(hs[i]) => Shows(ks[i])
  BY <1>1, TabClosed
<1>4. ks \in Seq(Groups) /\ Closes(ks, hs, id)
  BY <1>1, <1>3 DEF Closes
<1> QED BY <1>2, <1>4

\* One file more.
LEMMA WithoutNext ==
  ASSUME NEW gs \in Seq(Groups), NEW ids \in Seq(Nat), NEW n \in 1 .. Len(ids),
         NEW hs \in Seq(Groups), Without(hs, gs, ids, n - 1)
  PROVE  RemoveFile(hs, ids[n]) \in Seq(Groups) /\ Without(RemoveFile(hs, ids[n]), gs, ids, n)
<1>1. PICK id \in Nat : id = ids[n]
  OBVIOUS
<1>2. PICK ks : ks = RemoveFile(hs, id)
  OBVIOUS
<1>3. ks \in Seq(Groups) /\ Closes(ks, hs, id)
  BY <1>2, FileClosed
<1>4. {ids[k] : k \in 1 .. n} = {ids[k] : k \in 1 .. n - 1} \cup {id}
  <2>1. 1 .. n = (1 .. n - 1) \cup {n}
    OBVIOUS
  <2> QED BY <1>1, <2>1
<1>5. Without(ks, gs, ids, n)
  BY <1>3, <1>4 DEF Without, Closes
<1> QED BY <1>1, <1>2, <1>3, <1>5

\* Deleted files leave every group, whichever tabs there are and however many.
LEMMA FilesClosed ==
  ASSUME NEW gs \in Seq(Groups), \A i \in 1 .. Len(gs) : Shows(gs[i]), NEW ids \in Seq(Nat),
         NEW hs, hs = RemoveFiles(gs, ids)
  PROVE  hs \in Seq(Groups) /\ Without(hs, gs, ids, Len(ids))
<1> DEFINE step == [p \in (1 .. Len(ids)) \X Seq(Groups) |-> RemoveFile(p[2], ids[p[1]])]
           body(f) == [n \in 0 .. Len(ids) |-> IF n = 0 THEN gs ELSE RemoveFile(f[n - 1], ids[n])]
           after == CHOOSE f : f = body(f)
<1>0. Len(ids) \in Nat /\ Len(ids) \in 0 .. Len(ids) /\ 0 \in 0 .. Len(ids) /\ \A n \in 1 .. Len(ids) : ids[n] \in Nat
  OBVIOUS
<1>1. \E f : f = body(f)
  <2>1. step \in [(1 .. Len(ids)) \X Seq(Groups) -> Seq(Groups)]
    BY <1>0, FileClosed
  <2>2. \A n \in 1 .. Len(ids), ks \in Seq(Groups) : step[<<n, ks>>] = RemoveFile(ks, ids[n])
    OBVIOUS
  <2> HIDE DEF step
  <2>3. PICK r \in [0 .. Len(ids) -> Seq(Groups)] : Iterates(r, Len(ids), gs, step)
    <3>1. \E r \in [0 .. Len(ids) -> Seq(Groups)] : Iterates(r, Len(ids), gs, step)
      BY <1>0, <2>1, IterationExists, Zenon
    <3> QED BY <3>1
  <2>4. r[0] = gs /\ \A n \in 1 .. Len(ids) : r[n] = step[<<n, r[n - 1]>>]
    BY <2>3 DEF Iterates
  <2>5. ASSUME NEW n \in 0 .. Len(ids) PROVE r[n] = IF n = 0 THEN gs ELSE RemoveFile(r[n - 1], ids[n])
    <3>1. CASE n # 0
      <4>1. n \in 1 .. Len(ids) /\ n - 1 \in 0 .. Len(ids)
        BY <1>0, <3>1
      <4>2. r[n - 1] \in Seq(Groups)
        BY <4>1
      <4> QED BY <2>2, <2>4, <3>1, <4>1, <4>2
    <3> QED BY <2>4, <3>1
  <2>6. r = body(r)
    BY <2>5, Zenon
  <2> QED BY <2>6, Zenon
<1>2. after = body(after)
  BY <1>1, Zenon
<1>3. hs = after[Len(ids)]
  BY Zenon DEF RemoveFiles
<1> HIDE DEF after, step
<1> DEFINE good == [n \in 0 .. Len(ids) |-> {ks \in Seq(Groups) : Without(ks, gs, ids, n)}]
<1>4. after[0] \in good[0]
  <2>1. after[0] = gs
    BY <1>0, <1>2, Zenon
  <2>2. Without(gs, gs, ids, 0)
    BY DEF Without
  <2> QED BY <1>0, <2>1, <2>2
<1>5. ASSUME NEW n \in 1 .. Len(ids), after[n - 1] \in good[n - 1] PROVE after[n] \in good[n]
  <2>1. n - 1 \in 0 .. Len(ids) /\ n \in 0 .. Len(ids) /\ n # 0
    BY <1>0
  <2>2. PICK ks \in Seq(Groups) : ks = after[n - 1] /\ Without(ks, gs, ids, n - 1)
    BY <1>5, <2>1
  <2>3. after[n] = RemoveFile(ks, ids[n])
    BY <1>2, <2>1, <2>2, Zenon
  <2> HIDE DEF good
  <2>4. RemoveFile(ks, ids[n]) \in Seq(Groups) /\ Without(RemoveFile(ks, ids[n]), gs, ids, n)
    BY <2>2, WithoutNext
  <2> QED BY <2>1, <2>3, <2>4 DEF good
<1> HIDE DEF good
<1>6. after[Len(ids)] \in good[Len(ids)]
  BY <1>0, <1>4, <1>5, IterationKeeps
<1> QED BY <1>0, <1>3, <1>6 DEF good

-----------------------------------------------------------------------------
(***************************************************************************)
(* addFiles                                                                *)
(***************************************************************************)
\* Files with paths in P.
Records(P) == [id : Nat, path : P]

\* No two files of a list share a path or an id (FilesDistinct).
Distinct(fs) == \A i, j \in DOMAIN fs : fs[i].path = fs[j].path \/ fs[i].id = fs[j].id => i = j

\* The index SelectInSeq finds for a path.
LEMMA FileWithPath ==
  ASSUME NEW P, NEW fs \in Seq(Records(P)), NEW path, NEW at, at = IndexOf(fs, path)
  PROVE  /\ at = 0 => path \notin PathsOf(fs)
         /\ at # 0 => at \in 1 .. Len(fs) /\ fs[at].path = path
<1> DEFINE matches == {i \in 1 .. Len(fs) : fs[i].path = path}
<1>1. at = IF matches # {} THEN Min(matches) ELSE 0
  BY DEF IndexOf, SelectInSeq
<1>2. CASE matches # {}
  <2>1. matches \subseteq Nat /\ 0 \notin matches
    OBVIOUS
  <2> HIDE DEF matches
  <2>2. at \in matches
    BY <1>1, <1>2, <2>1, LeastNumber DEF Min
  <2> QED BY <2>1, <2>2 DEF matches
<1>3. CASE matches = {}
  <2>1. at = 0
    BY <1>1, <1>3
  <2>2. path \notin PathsOf(fs)
    BY <1>3 DEF PathsOf
  <2> QED BY <2>1, <2>2
<1> QED BY <1>2, <1>3

\* gs are the files fs and a new one, or its contents in the place of an old one's.
Gains(gs, fs, id, path) ==
  /\ Distinct(fs) /\ id \notin Ids(fs) => Distinct(gs)
  /\ Ids(fs) \subseteq Ids(gs) /\ Ids(gs) \subseteq Ids(fs) \cup {id}
  /\ path \notin PathsOf(fs) => id \in Ids(gs)

\* Adding a file keeps paths and ids distinct.
LEMMA FileAdded ==
  ASSUME NEW P, NEW fs \in Seq(Records(P)), NEW f \in Records(P)
  PROVE  AddFile(fs, f) \in Seq(Records(P)) /\ Gains(AddFile(fs, f), fs, f.id, f.path)
<1>1. PICK at : at = IndexOf(fs, f.path)
  OBVIOUS
<1>2. PICK gs : gs = AddFile(fs, f)
  OBVIOUS
<1>3. gs = IF at = 0 THEN Append(fs, f) ELSE [fs EXCEPT ![at] = File(fs[at].id, f.path)]
  BY <1>1, <1>2, Zenon DEF AddFile
<1>4. /\ at = 0 => f.path \notin PathsOf(fs)
      /\ at # 0 => at \in 1 .. Len(fs) /\ fs[at].path = f.path
  BY <1>1, FileWithPath
<1>5. DOMAIN fs = 1 .. Len(fs) /\ Len(fs) \in Nat
  OBVIOUS
<1>6. CASE at = 0
  <2>1. gs = Append(fs, f)
    BY <1>3, <1>6
  <2>2. /\ gs \in Seq(Records(P)) /\ DOMAIN gs = DOMAIN fs \cup {Len(fs) + 1} /\ Len(fs) + 1 \notin DOMAIN fs
        /\ gs[Len(fs) + 1] = f /\ \A i \in DOMAIN fs : gs[i] = fs[i]
    BY <1>5, <2>1
  <2>3. Ids(gs) = Ids(fs) \cup {f.id}
    BY <2>2 DEF Ids
  <2>4. ASSUME Distinct(fs), f.id \notin Ids(fs) PROVE Distinct(gs)
    <3>1. \A i \in DOMAIN fs : fs[i].path # f.path /\ fs[i].id # f.id
      BY <1>4, <1>6, <2>4 DEF PathsOf, Ids
    <3> QED BY <2>2, <2>4, <3>1 DEF Distinct
  <2> QED BY <1>2, <2>2, <2>3, <2>4 DEF Gains
<1>7. CASE at # 0
  <2>1. PICK old \in Records(P) : old = fs[at] /\ old.path = f.path
    BY <1>4, <1>7
  <2>2. File(fs[at].id, f.path) = old
    BY <2>1 DEF File, Records
  <2>3. gs = [fs EXCEPT ![at] = old]
    BY <1>3, <1>7, <2>2
  <2>4. gs = fs
    BY <1>4, <1>7, <2>1, <2>3
  <2>5. f.path \in PathsOf(fs)
    BY <1>4, <1>7 DEF PathsOf
  <2> QED BY <1>2, <2>4, <2>5 DEF Gains
<1> QED BY <1>6, <1>7

\* gs are the files fs and the first n of new.
Grown(gs, fs, new, n) ==
  /\ Distinct(gs)
  /\ Ids(fs) \subseteq Ids(gs) /\ Ids(gs) \subseteq Ids(fs) \cup {new[k].id : k \in 1 .. n}
  /\ n = 0 => gs = fs
  /\ n >= 1 /\ new[1].path \notin PathsOf(fs) => new[1].id \in Ids(gs)

\* One file more.
LEMMA GrownNext ==
  ASSUME NEW P, NEW fs \in Seq(Records(P)), NEW new \in Seq(Records(P)), NEW n \in 1 .. Len(new),
         NEW gs \in Seq(Records(P)), Grown(gs, fs, new, n - 1),
         \A k \in 1 .. Len(new) : new[k].id \notin Ids(fs),
         \A k, m \in 1 .. Len(new) : new[k].id = new[m].id => k = m
  PROVE  AddFile(gs, new[n]) \in Seq(Records(P)) /\ Grown(AddFile(gs, new[n]), fs, new, n)
<1>1. PICK f \in Records(P) : f = new[n]
  OBVIOUS
<1>2. PICK hs : hs = AddFile(gs, f)
  OBVIOUS
<1>3. hs \in Seq(Records(P)) /\ Gains(hs, gs, f.id, f.path)
  BY <1>2, FileAdded
<1>4. n \in Nat /\ 1 .. n = (1 .. n - 1) \cup {n} /\ n \notin 1 .. n - 1 /\ 1 .. n \subseteq 1 .. Len(new)
  OBVIOUS
<1>5. f.id \notin Ids(gs)
  <2>1. f.id \notin {new[k].id : k \in 1 .. n - 1}
    BY <1>1, <1>4, SMTT(40)
  <2>2. f.id \notin Ids(fs)
    BY <1>1
  <2> QED BY <2>1, <2>2 DEF Grown
<1>6. Distinct(hs) /\ Ids(fs) \subseteq Ids(hs)
  BY <1>3, <1>5 DEF Grown, Gains
<1>7. Ids(hs) \subseteq Ids(fs) \cup {new[k].id : k \in 1 .. n}
  <2>1. {new[k].id : k \in 1 .. n} = {new[k].id : k \in 1 .. n - 1} \cup {f.id}
    BY <1>1, <1>4
  <2> QED BY <1>3, <2>1 DEF Grown, Gains
<1>8. ASSUME new[1].path \notin PathsOf(fs) PROVE new[1].id \in Ids(hs)
  <2>1. CASE n = 1
    BY <1>1, <1>3, <1>8, <2>1 DEF Grown, Gains
  <2>2. CASE n # 1
    BY <1>3, <1>4, <1>8, <2>2 DEF Grown, Gains
  <2> QED BY <2>1, <2>2
<1>9. Grown(hs, fs, new, n)
  BY <1>4, <1>6, <1>7, <1>8 DEF Grown
<1> QED BY <1>1, <1>2, <1>3, <1>9

\* Adding files keeps paths and ids distinct, however many there are and whatever
\* paths they have.
LEMMA FilesAdded ==
  ASSUME NEW P, NEW fs \in Seq(Records(P)), Distinct(fs), NEW new \in Seq(Records(P)),
         \A k \in 1 .. Len(new) : new[k].id \notin Ids(fs),
         \A k, m \in 1 .. Len(new) : new[k].id = new[m].id => k = m,
         NEW gs, gs = AddFiles(fs, new)
  PROVE  gs \in Seq(Records(P)) /\ Grown(gs, fs, new, Len(new))
<1> DEFINE V == Seq(Records(P))
           step == [p \in (1 .. Len(new)) \X V |-> AddFile(p[2], new[p[1]])]
           body(f) == [n \in 0 .. Len(new) |-> IF n = 0 THEN fs ELSE AddFile(f[n - 1], new[n])]
           after == CHOOSE f : f = body(f)
<1>0. /\ Len(new) \in Nat /\ Len(new) \in 0 .. Len(new) /\ 0 \in 0 .. Len(new)
      /\ \A n \in 1 .. Len(new) : new[n] \in Records(P)
  OBVIOUS
<1>1. \E f : f = body(f)
  <2>1. step \in [(1 .. Len(new)) \X V -> V]
    BY <1>0, FileAdded
  <2>2. \A n \in 1 .. Len(new), ks \in V : step[<<n, ks>>] = AddFile(ks, new[n])
    OBVIOUS
  <2> HIDE DEF step, V
  <2>3. PICK r \in [0 .. Len(new) -> V] : Iterates(r, Len(new), fs, step)
    <3>1. fs \in V
      BY DEF V
    <3>2. \E r \in [0 .. Len(new) -> V] : Iterates(r, Len(new), fs, step)
      BY <1>0, <2>1, <3>1, IterationExists, Zenon
    <3> QED BY <3>2
  <2>4. r[0] = fs /\ \A n \in 1 .. Len(new) : r[n] = step[<<n, r[n - 1]>>]
    BY <2>3 DEF Iterates
  <2>5. ASSUME NEW n \in 0 .. Len(new) PROVE r[n] = IF n = 0 THEN fs ELSE AddFile(r[n - 1], new[n])
    <3>1. CASE n # 0
      <4>1. n \in 1 .. Len(new) /\ n - 1 \in 0 .. Len(new)
        BY <1>0, <3>1
      <4>2. r[n - 1] \in V
        BY <4>1
      <4> QED BY <2>2, <2>4, <3>1, <4>1, <4>2
    <3> QED BY <2>4, <3>1
  <2>6. r = body(r)
    BY <2>5, Zenon
  <2> QED BY <2>6, Zenon
<1>2. after = body(after)
  BY <1>1, Zenon
<1>3. gs = after[Len(new)]
  BY Zenon DEF AddFiles
<1> HIDE DEF after, step
<1> DEFINE good == [n \in 0 .. Len(new) |-> {ks \in V : Grown(ks, fs, new, n)}]
<1>4. after[0] \in good[0]
  <2>1. after[0] = fs
    BY <1>0, <1>2, Zenon
  <2>2. Grown(fs, fs, new, 0)
    BY DEF Grown
  <2> QED BY <1>0, <2>1, <2>2
<1>5. ASSUME NEW n \in 1 .. Len(new), after[n - 1] \in good[n - 1] PROVE after[n] \in good[n]
  <2>1. n - 1 \in 0 .. Len(new) /\ n \in 0 .. Len(new) /\ n # 0
    BY <1>0
  <2>2. PICK ks \in V : ks = after[n - 1] /\ Grown(ks, fs, new, n - 1)
    BY <1>5, <2>1
  <2>3. after[n] = AddFile(ks, new[n])
    BY <1>2, <2>1, <2>2, Zenon
  <2> HIDE DEF good
  <2>4. AddFile(ks, new[n]) \in V /\ Grown(AddFile(ks, new[n]), fs, new, n)
    BY <2>2, GrownNext
  <2> QED BY <2>1, <2>3, <2>4 DEF good
<1> HIDE DEF good
<1>6. after[Len(new)] \in good[Len(new)]
  BY <1>0, <1>4, <1>5, IterationKeeps
<1> QED BY <1>0, <1>3, <1>6 DEF good

-----------------------------------------------------------------------------
(***************************************************************************)
(* The invariant of the workspace, in three parts that an operation can    *)
(* disturb: the files, the groups, and what the tabs name.                 *)
(***************************************************************************)
GoodFiles(fs, made) == fs \in Seq(Records(Paths)) /\ Distinct(fs) /\ Ids(fs) \subseteq 1 .. made

GoodGroups(gs, focus, made) ==
  /\ gs \in Seq(Groups) /\ Len(gs) \in 1 .. 3
  /\ \A i \in DOMAIN gs : gs[i].id \in 0 .. made /\ Shows(gs[i])
  /\ \A i, j \in DOMAIN gs : gs[i].id = gs[j].id => i = j
  /\ \E i \in DOMAIN gs : gs[i].id = focus

GoodTabs(gs, fs, made, shown) ==
  \A i \in DOMAIN gs :
    Tabs(gs[i]) \subseteq 1 .. made /\ (ReImports \/ ~shown \/ Tabs(gs[i]) \subseteq Ids(fs))

WorkspaceInv ==
  /\ setup \in Setups
  /\ open \in BOOLEAN /\ fileIds \in 0 .. MaxIds /\ groupIds \in 0 .. MaxGroups
  /\ GoodFiles(files, fileIds)
  /\ GoodGroups(groups, activeGroup, groupIds)
  /\ GoodTabs(groups, files, fileIds, open)

\* Imports under way, the only part of the state that no other handler touches.
ImportsCounted == importing \in 0 .. MaxImports

\* The setups are instances.
LEMMA WorkspaceConstants ==
  ASSUME setup \in Setups
  PROVE  /\ None \notin Nat /\ MaxIds \in Nat /\ MaxGroups \in Nat /\ MaxDepth \in Nat \ {0}
         /\ MaxImports \in Nat /\ ReImports \in BOOLEAN
  BY WorkspaceAssumption, Zenon DEF WorkspaceAssumption, MaxIds, MaxGroups, MaxDepth, MaxImports, ReImports

\* The instance never changes, and nothing that is defined from it.
LEMMA WorkspaceStays ==
  ASSUME setup' = setup, setup \in Setups, open' \in BOOLEAN, fileIds' \in 0 .. MaxIds, groupIds' \in 0 .. MaxGroups,
         GoodFiles(files', fileIds'), GoodGroups(groups', activeGroup', groupIds'), GoodTabs(groups', files', fileIds', open')
  PROVE  WorkspaceInv'
<1>1. Paths' = Paths /\ MaxIds' = MaxIds /\ MaxGroups' = MaxGroups /\ ReImports' = ReImports
  BY DEF Paths, Segments, MaxDepth, MaxIds, MaxGroups, ReImports
<1>2. Records(Paths)' = Records(Paths)
  BY <1>1 DEF Records
<1>3. GoodFiles(files, fileIds)'
  BY <1>2 DEF GoodFiles, Distinct, Ids
<1>4. GoodGroups(groups, activeGroup, groupIds)'
  BY DEF GoodGroups, Shows, Tabs, Groups
<1>5. GoodTabs(groups, files, fileIds, open)'
  BY <1>1 DEF GoodTabs, Tabs, Ids
<1> QED BY <1>1, <1>3, <1>4, <1>5 DEF WorkspaceInv

\* The same groups with other tabs.
Retabbed(hs, gs) ==
  hs \in Seq(Groups) /\ Len(hs) = Len(gs) /\ \A i \in 1 .. Len(gs) : hs[i].id = gs[i].id /\ Shows(hs[i])

\* Groups are sound as long as each shows one of its tabs.
LEMMA GroupsKept ==
  ASSUME NEW gs, NEW focus, NEW made, GoodGroups(gs, focus, made), NEW hs, Retabbed(hs, gs)
  PROVE  GoodGroups(hs, focus, made)
<1>1. hs \in Seq(Groups) /\ gs \in Seq(Groups) /\ DOMAIN hs = DOMAIN gs /\ DOMAIN gs = 1 .. Len(gs)
  BY DEF GoodGroups, Retabbed
<1> QED BY <1>1 DEF GoodGroups, Retabbed

\* A file that is opened gets one tab, which is shown.
LEMMA TabOpened ==
  ASSUME NEW g \in Groups, IsInjective(g.tabs), NEW id \in Nat, NEW h, h = OpenTab(g, id)
  PROVE  h \in Groups /\ h.id = g.id /\ h.active = id /\ Tabs(h) = Tabs(g) \cup {id} /\ Shows(h)
<1>1. PICK s \in Seq(Nat) : s = g.tabs
  BY DEF Groups
<1>2. PICK tabs : tabs = IF id \in Tabs(g) THEN s ELSE Append(s, id)
  OBVIOUS
<1>3. h = [g EXCEPT !.tabs = tabs, !.active = id]
  BY <1>1, <1>2 DEF OpenTab
<1>4. tabs \in Seq(Nat) /\ ToSet(tabs) = ToSet(s) \cup {id} /\ IsInjective(tabs)
  <2>1. CASE id \in ToSet(s)
    BY <1>1, <1>2, <2>1 DEF Tabs
  <2>2. CASE id \notin ToSet(s)
    <3>1. tabs = Append(s, id)
      BY <1>1, <1>2, <2>2 DEF Tabs
    <3>2. /\ tabs \in Seq(Nat) /\ DOMAIN tabs = DOMAIN s \cup {Len(s) + 1} /\ Len(s) + 1 \notin DOMAIN s
          /\ tabs[Len(s) + 1] = id /\ \A i \in DOMAIN s : tabs[i] = s[i]
      BY <3>1
    <3> QED BY <1>1, <2>2, <3>2 DEF ToSet, IsInjective
  <2> QED BY <2>1, <2>2
<1>5. h \in Groups /\ h.id = g.id /\ h.tabs = tabs /\ h.active = id
  BY <1>3, <1>4 DEF Groups
<1>6. tabs # <<>>
  BY <1>4 DEF ToSet
<1> QED BY <1>1, <1>4, <1>5, <1>6 DEF Tabs, Shows

\* Opening a file concerns the group that has the focus.
LEMMA FileOpened ==
  ASSUME NEW gs, NEW focus, NEW made, GoodGroups(gs, focus, made), NEW id \in Nat, NEW hs, hs = OpenFile(gs, id)
  PROVE  GoodGroups(hs, focus, made) /\ DOMAIN hs = DOMAIN gs /\ \A i \in DOMAIN gs : Tabs(hs[i]) \subseteq Tabs(gs[i]) \cup {id}
<1>1. gs \in Seq(Groups) /\ DOMAIN gs = 1 .. Len(gs) /\ \A i \in 1 .. Len(gs) : gs[i] \in Groups /\ Shows(gs[i])
  BY DEF GoodGroups
<1>2. hs = [i \in 1 .. Len(gs) |-> IF gs[i].id = activeGroup THEN OpenTab(gs[i], id) ELSE gs[i]]
  BY <1>1 DEF OpenFile, EachGroup
<1>3. ASSUME NEW i \in 1 .. Len(gs)
      PROVE  hs[i] \in Groups /\ hs[i].id = gs[i].id /\ Shows(hs[i]) /\ Tabs(hs[i]) \subseteq Tabs(gs[i]) \cup {id}
  <2>1. gs[i] \in Groups /\ Shows(gs[i]) /\ IsInjective(gs[i].tabs)
    BY <1>1 DEF Shows
  <2>2. CASE gs[i].id = activeGroup
    <3>1. hs[i] = OpenTab(gs[i], id)
      BY <1>2, <2>2
    <3> QED BY <2>1, <3>1, TabOpened
  <2>3. CASE gs[i].id # activeGroup
    BY <1>2, <2>1, <2>3
  <2> QED BY <2>2, <2>3
<1>4. hs \in Seq(Groups) /\ Len(hs) = Len(gs)
  BY <1>1, <1>2, <1>3
<1>5. Retabbed(hs, gs)
  BY <1>3, <1>4 DEF Retabbed
<1> QED BY <1>1, <1>3, <1>4, <1>5, GroupsKept

\* A list without one of its elements.
LEMMA Removed ==
  ASSUME NEW T, NEW fs \in Seq(T), NEW i \in 1 .. Len(fs), NEW gs, gs = RemoveAt(fs, i)
  PROVE  /\ gs \in Seq(T) /\ Len(gs) = Len(fs) - 1
         /\ \A j \in 1 .. Len(gs) : gs[j] = fs[IF j < i THEN j ELSE j + 1]
<1> DEFINE left == SubSeq(fs, 1, i - 1)
           right == SubSeq(fs, i + 1, Len(fs))
<1>1. gs = left \o right
  BY DEF RemoveAt
<1>2. left \in Seq(T) /\ Len(left) = i - 1 /\ \A j \in 1 .. i - 1 : left[j] = fs[j]
  OBVIOUS
<1>3. right \in Seq(T) /\ Len(right) = Len(fs) - i /\ \A j \in 1 .. Len(fs) - i : right[j] = fs[i + j]
  OBVIOUS
<1> HIDE DEF left, right
<1>4. gs \in Seq(T) /\ Len(gs) = Len(fs) - 1
  <2>1. left \in Seq(T) /\ right \in Seq(T)
    BY <1>2, <1>3
  <2>2. left \o right \in Seq(T) /\ Len(left \o right) = Len(left) + Len(right)
    BY <2>1, ConcatProperties, Zenon
  <2> QED BY <1>1, <1>2, <1>3, <2>2
<1>5. ASSUME NEW j \in 1 .. Len(gs) PROVE gs[j] = fs[IF j < i THEN j ELSE j + 1]
  <2>1. CASE j < i
    BY <1>1, <1>2, <1>3, <1>4, <2>1
  <2>2. CASE ~(j < i)
    <3>1. gs[j] = right[j - (i - 1)]
      BY <1>1, <1>2, <1>3, <1>4, <2>2
    <3>2. j - (i - 1) \in 1 .. Len(fs) - i
      BY <1>2, <1>4, <2>2
    <3> QED BY <1>3, <2>2, <3>1, <3>2
  <2> QED BY <2>1, <2>2
<1> QED BY <1>4, <1>5

\* One group with other tabs, the others as they are.
LEMMA GroupRetabbed ==
  ASSUME NEW gs, NEW focus, NEW made, GoodGroups(gs, focus, made), NEW k \in DOMAIN gs,
         NEW h \in Groups, h.id = gs[k].id, Shows(h), NEW hs, hs = [gs EXCEPT ![k] = h]
  PROVE  GoodGroups(hs, focus, made) /\ DOMAIN hs = DOMAIN gs /\ hs[k] = h
         /\ \A i \in DOMAIN gs \ {k} : hs[i] = gs[i]
<1>1. gs \in Seq(Groups) /\ DOMAIN gs = 1 .. Len(gs) /\ \A i \in 1 .. Len(gs) : Shows(gs[i])
  BY DEF GoodGroups
<1>2. hs \in Seq(Groups) /\ Len(hs) = Len(gs) /\ hs[k] = h /\ \A i \in DOMAIN gs \ {k} : hs[i] = gs[i]
  BY <1>1
<1>3. Retabbed(hs, gs)
  BY <1>1, <1>2 DEF Retabbed
<1> QED BY <1>1, <1>2, <1>3, GroupsKept

\* What RenamesLoseNothing says of a step.
NothingLost ==
  Ids(files) \subseteq Ids(files') \/ \A f \in ToSet(files) : f.id \in Ids(files') => f \in ToSet(files')

\* Operations on the groups keep the files, and the tabs name what they named.
LEMMA GroupsMoved ==
  ASSUME WorkspaceInv, UNCHANGED <<setup, open, files, fileIds>>, groupIds' \in 0 .. MaxGroups,
         GoodGroups(groups', activeGroup', groupIds'),
         \A i \in DOMAIN groups' :
           Tabs(groups'[i]) = {} \/ \E j \in DOMAIN groups : Tabs(groups'[i]) \subseteq Tabs(groups[j])
  PROVE  WorkspaceInv' /\ NothingLost
<1>1. GoodTabs(groups', files', fileIds', open')
  BY DEF WorkspaceInv, GoodTabs
<1> QED BY <1>1, WorkspaceStays DEF WorkspaceInv, NothingLost

\* The tab goes, the group shows another one.
LEMMA ClosesTab ==
  ASSUME WorkspaceInv, setup' = setup, NEW group \in 1 .. 3, NEW id \in 1 .. fileIds, CloseTab(group, id)
  PROVE  WorkspaceInv' /\ NothingLost
<1>1. groups \in Seq(Groups) /\ group \in DOMAIN groups /\ id \in Nat
  BY DEF CloseTab, WorkspaceInv, GoodGroups
<1>2. PICK g \in Groups : g = groups[group] /\ Shows(g)
  BY <1>1 DEF WorkspaceInv, GoodGroups
<1>3. PICK h : h = RemoveFileFromGroup(g, id)
  OBVIOUS
<1>4. h \in Groups /\ h.id = g.id /\ Tabs(h) = Tabs(g) \ {id} /\ Shows(h)
  BY <1>1, <1>2, <1>3, TabClosed
<1>5. groups' = [groups EXCEPT ![group] = h]
  BY <1>2, <1>3 DEF CloseTab
<1>6. /\ GoodGroups(groups', activeGroup, groupIds) /\ DOMAIN groups' = DOMAIN groups /\ groups'[group] = h
      /\ \A i \in DOMAIN groups \ {group} : groups'[i] = groups[i]
  BY <1>1, <1>2, <1>4, <1>5, GroupRetabbed DEF WorkspaceInv
<1>7. \A i \in DOMAIN groups' : Tabs(groups'[i]) \subseteq Tabs(groups[i])
  BY <1>2, <1>4, <1>6
<1>8. GoodGroups(groups', activeGroup', groupIds') /\ groupIds' \in 0 .. MaxGroups
      /\ UNCHANGED <<open, files, fileIds>>
  BY <1>6 DEF CloseTab, WorkspaceInv
<1> QED BY <1>6, <1>7, <1>8, GroupsMoved

\* The tab is shown, its group gets the focus.
LEMMA ActivatesFile ==
  ASSUME WorkspaceInv, setup' = setup, NEW group \in 1 .. 3, NEW id \in 1 .. fileIds, ActivateFile(group, id)
  PROVE  WorkspaceInv' /\ NothingLost
<1>1. groups \in Seq(Groups) /\ group \in DOMAIN groups /\ id \in Nat
  BY DEF ActivateFile, WorkspaceInv, GoodGroups
<1>2. PICK g \in Groups : g = groups[group] /\ Shows(g) /\ id \in Tabs(g)
  BY <1>1 DEF WorkspaceInv, GoodGroups, ActivateFile
<1>3. PICK h : h = [g EXCEPT !.active = id]
  OBVIOUS
<1>4. h \in Groups /\ h.id = g.id /\ h.tabs = g.tabs /\ h.active = id
  BY <1>1, <1>2, <1>3 DEF Groups
<1>5. Tabs(h) = Tabs(g) /\ Shows(h)
  BY <1>2, <1>4 DEF Tabs, Shows, ToSet
<1>6. groups' = [groups EXCEPT ![group] = h]
  BY <1>2, <1>3 DEF ActivateFile
<1>7. /\ GoodGroups(groups', activeGroup, groupIds) /\ DOMAIN groups' = DOMAIN groups /\ groups'[group] = h
      /\ \A i \in DOMAIN groups \ {group} : groups'[i] = groups[i]
  BY <1>1, <1>2, <1>4, <1>5, <1>6, GroupRetabbed DEF WorkspaceInv
<1>8. \A i \in DOMAIN groups' : Tabs(groups'[i]) \subseteq Tabs(groups[i])
  BY <1>2, <1>5, <1>7
<1>9. GoodGroups(groups', activeGroup', groupIds') /\ groupIds' \in 0 .. MaxGroups
      /\ UNCHANGED <<open, files, fileIds>>
  BY <1>1, <1>2, <1>4, <1>7 DEF ActivateFile, WorkspaceInv, GoodGroups
<1> QED BY <1>7, <1>8, <1>9, GroupsMoved

\* A group that exists gets the focus.
LEMMA ActivatesGroup ==
  ASSUME WorkspaceInv, setup' = setup, NEW group \in 1 .. 3, ActivateGroup(group)
  PROVE  WorkspaceInv' /\ NothingLost
<1>1. GoodGroups(groups', activeGroup', groupIds')
  BY DEF ActivateGroup, WorkspaceInv, GoodGroups
<1> QED BY <1>1, GroupsMoved DEF ActivateGroup, WorkspaceInv

\* The new group shows what the focused one shows, under an id of its own.
LEMMA Splits ==
  ASSUME WorkspaceInv, setup' = setup, SplitRight
  PROVE  WorkspaceInv' /\ NothingLost
<1>1. groups \in Seq(Groups) /\ DOMAIN groups = 1 .. Len(groups) /\ Len(groups) \in 1 .. 2
      /\ groupIds \in Nat /\ groupIds < MaxGroups /\ MaxGroups \in Nat /\ None \notin Nat
  BY WorkspaceConstants DEF SplitRight, WorkspaceInv, GoodGroups
<1>2. PICK k \in DOMAIN groups : Focused = groups[k]
  <2>1. \E g \in ToSet(groups) : g.id = activeGroup
    BY DEF WorkspaceInv, GoodGroups, ToSet
  <2>2. Focused \in ToSet(groups)
    BY <2>1 DEF Focused
  <2> QED BY <2>2 DEF ToSet
<1>3. PICK g \in Groups : g = groups[k] /\ Shows(g)
  BY <1>1, <1>2 DEF WorkspaceInv, GoodGroups
<1>4. PICK h : h = [id |-> groupIds + 1, active |-> g.active, tabs |-> IF g.active = None THEN <<>> ELSE <<g.active>>]
  OBVIOUS
<1>5. /\ groups' = Append(groups, h) /\ activeGroup' = groupIds + 1 /\ groupIds' = groupIds + 1
      /\ UNCHANGED <<open, files, fileIds>>
  BY <1>2, <1>3, <1>4 DEF SplitRight
<1>6. g.active \in Nat \cup {None}
  BY DEF Groups
<1>7. h \in Groups /\ h.id = groupIds + 1 /\ h.active = g.active
      /\ h.tabs = IF g.active = None THEN <<>> ELSE <<g.active>>
  BY <1>1, <1>4, <1>6 DEF Groups
<1>8. Shows(h) /\ Tabs(h) \subseteq Tabs(g)
  <2>1. CASE g.active = None
    BY <1>7, <2>1 DEF Shows, Tabs, ToSet, IsInjective
  <2>2. CASE g.active # None
    <3>1. h.tabs = <<g.active>> /\ g.active \in Tabs(g)
      <4>1. g.tabs # <<>>
        BY <1>3, <2>2 DEF Shows
      <4> QED BY <1>3, <1>7, <2>2, <4>1 DEF Shows
    <3> QED BY <1>7, <3>1 DEF Shows, Tabs, ToSet, IsInjective
  <2> QED BY <2>1, <2>2
<1>9. /\ groups' \in Seq(Groups) /\ Len(groups') = Len(groups) + 1 /\ DOMAIN groups' = DOMAIN groups \cup {Len(groups) + 1}
      /\ Len(groups) + 1 \notin DOMAIN groups
      /\ groups'[Len(groups) + 1] = h /\ \A i \in DOMAIN groups : groups'[i] = groups[i]
  BY <1>1, <1>5, <1>7
<1>10. GoodGroups(groups', activeGroup', groupIds')
  <2>1. \A i \in DOMAIN groups : groups[i].id \in 0 .. groupIds /\ Shows(groups[i])
    BY DEF WorkspaceInv, GoodGroups
  <2>2. \A i, j \in DOMAIN groups : groups[i].id = groups[j].id => i = j
    BY DEF WorkspaceInv, GoodGroups
  <2>3. groupIds + 1 \notin 0 .. groupIds /\ 0 .. groupIds \subseteq 0 .. groupIds + 1 /\ groupIds + 1 \in 0 .. groupIds + 1
    BY <1>1
  <2>4. \A i, j \in DOMAIN groups' : groups'[i].id = groups'[j].id => i = j
    BY <1>7, <1>9, <2>1, <2>2, <2>3
  <2>5. \A i \in DOMAIN groups' : groups'[i].id \in 0 .. groupIds + 1 /\ Shows(groups'[i])
    BY <1>7, <1>8, <1>9, <2>1, <2>3
  <2> QED BY <1>1, <1>5, <1>7, <1>9, <2>4, <2>5, SMTT(40) DEF GoodGroups
<1>11. \A i \in DOMAIN groups' : \E j \in DOMAIN groups : Tabs(groups'[i]) \subseteq Tabs(groups[j])
  BY <1>2, <1>3, <1>8, <1>9
<1>12. groupIds' \in 0 .. MaxGroups
  BY <1>1, <1>5
<1> QED BY <1>5, <1>10, <1>11, <1>12, GroupsMoved

\* The first of the groups that are left gets the focus.
LEMMA ClosesGroup ==
  ASSUME WorkspaceInv, setup' = setup, NEW group \in 1 .. 3, CloseGroup(group)
  PROVE  WorkspaceInv' /\ NothingLost
<1>1. /\ groups \in Seq(Groups) /\ group \in 1 .. Len(groups) /\ DOMAIN groups = 1 .. Len(groups)
      /\ Len(groups) \in 2 .. 3 /\ groups' = RemoveAt(groups, group)
      /\ activeGroup' = groups'[1].id /\ UNCHANGED <<open, files, fileIds, groupIds>>
  BY DEF CloseGroup, WorkspaceInv, GoodGroups
<1>2. PICK gs : gs = RemoveAt(groups, group)
  OBVIOUS
<1>3. /\ gs \in Seq(Groups) /\ Len(gs) = Len(groups) - 1
      /\ \A j \in 1 .. Len(gs) : gs[j] = groups[IF j < group THEN j ELSE j + 1]
  BY <1>1, <1>2, Removed, ZenonT(40)
<1>4. DOMAIN gs = 1 .. Len(gs) /\ Len(gs) \in 1 .. 2 /\ 1 \in DOMAIN gs
  BY <1>1, <1>3
<1>5. \A j \in DOMAIN gs : \E k \in DOMAIN groups : gs[j] = groups[k]
  BY <1>1, <1>3, <1>4
<1>6. \A i, j \in DOMAIN gs : gs[i].id = gs[j].id => i = j
  <2> SUFFICES ASSUME NEW i \in DOMAIN gs, NEW j \in DOMAIN gs, gs[i].id = gs[j].id PROVE i = j
    OBVIOUS
  <2> DEFINE was(n) == IF n < group THEN n ELSE n + 1
  <2>1. was(i) \in DOMAIN groups /\ was(j) \in DOMAIN groups /\ gs[i] = groups[was(i)] /\ gs[j] = groups[was(j)]
    BY <1>1, <1>3, <1>4
  <2>2. was(i) = was(j)
    BY <2>1 DEF WorkspaceInv, GoodGroups
  <2> QED BY <1>1, <1>4, <2>2
<1>7. GoodGroups(gs, gs[1].id, groupIds)
  <2>1. \A i \in DOMAIN gs : gs[i].id \in 0 .. groupIds /\ Shows(gs[i])
    BY <1>5 DEF WorkspaceInv, GoodGroups
  <2> QED BY <1>3, <1>4, <1>6, <2>1 DEF GoodGroups
<1>8. GoodGroups(groups', activeGroup', groupIds') /\ groupIds' \in 0 .. MaxGroups
  BY <1>1, <1>2, <1>7 DEF WorkspaceInv
<1>9. \A i \in DOMAIN groups' : \E j \in DOMAIN groups : Tabs(groups'[i]) \subseteq Tabs(groups[j])
  BY <1>1, <1>2, <1>5
<1> QED BY <1>1, <1>8, <1>9, GroupsMoved

-----------------------------------------------------------------------------
(***************************************************************************)
(* The files                                                               *)
(***************************************************************************)
\* Files are added, none goes, and a file is opened in the group with the focus.
LEMMA FilesGained ==
  ASSUME WorkspaceInv, UNCHANGED <<setup, open, activeGroup, groupIds>>,
         fileIds' \in Nat, fileIds <= fileIds', fileIds' <= MaxIds,
         GoodFiles(files', fileIds'), Ids(files) \subseteq Ids(files'),
         NEW id \in 1 .. fileIds', ReImports \/ ~open \/ id \in Ids(files'), groups' = OpenFile(groups, id)
  PROVE  WorkspaceInv' /\ NothingLost
<1>1. GoodGroups(groups, activeGroup, groupIds) /\ id \in Nat /\ fileIds \in Nat /\ MaxIds \in Nat
      /\ ReImports \in BOOLEAN /\ open \in BOOLEAN
  BY WorkspaceConstants DEF WorkspaceInv
<1>2. PICK gs : gs = OpenFile(groups, id)
  OBVIOUS
<1>3. /\ GoodGroups(gs, activeGroup, groupIds) /\ DOMAIN gs = DOMAIN groups
      /\ \A i \in DOMAIN groups : Tabs(gs[i]) \subseteq Tabs(groups[i]) \cup {id}
  BY <1>1, <1>2, FileOpened
<1>4. GoodTabs(groups', files', fileIds', open')
  <2>1. 1 .. fileIds \subseteq 1 .. fileIds'
    BY <1>1
  <2> QED BY <1>2, <1>3, <2>1 DEF WorkspaceInv, GoodTabs
<1>5. fileIds' \in 0 .. MaxIds
  BY <1>1
<1>6. GoodGroups(groups', activeGroup', groupIds')
  BY <1>2, <1>3
<1> QED BY <1>4, <1>5, <1>6, WorkspaceStays DEF WorkspaceInv, NothingLost

\* One file is added at a path that is free.
LEMMA FileGained ==
  ASSUME WorkspaceInv, UNCHANGED <<setup, open, activeGroup, groupIds>>, fileIds < MaxIds, NEW path \in Paths,
         path \notin PathsOf(files), fileIds' = fileIds + 1, files' = AddFile(files, File(fileIds + 1, path)),
         groups' = OpenFile(groups, fileIds + 1)
  PROVE  WorkspaceInv' /\ NothingLost
<1>1. fileIds \in Nat /\ MaxIds \in Nat /\ files \in Seq(Records(Paths)) /\ Distinct(files) /\ Ids(files) \subseteq 1 .. fileIds
  BY WorkspaceConstants DEF WorkspaceInv, GoodFiles
<1>2. PICK f \in Records(Paths) : f = File(fileIds + 1, path)
  BY <1>1 DEF File, Records
<1>3. f.id = fileIds + 1 /\ f.path = path
  BY <1>2 DEF File
<1>4. files' \in Seq(Records(Paths)) /\ Gains(files', files, f.id, f.path)
  BY <1>1, <1>2, FileAdded
<1>5. f.id \notin Ids(files)
  BY <1>1, <1>3
<1>6. Distinct(files') /\ Ids(files) \subseteq Ids(files') /\ Ids(files') \subseteq Ids(files) \cup {f.id} /\ f.id \in Ids(files')
  BY <1>1, <1>3, <1>4, <1>5 DEF Gains
<1>7. Ids(files') \subseteq 1 .. fileIds' /\ fileIds + 1 \in 1 .. fileIds'
  BY <1>1, <1>3, <1>6
<1>8. GoodFiles(files', fileIds')
  BY <1>4, <1>6, <1>7 DEF GoodFiles
<1>9. fileIds + 1 \in Ids(files')
  BY <1>3, <1>6
<1>10. fileIds' \in Nat /\ fileIds <= fileIds' /\ fileIds' <= MaxIds
  BY <1>1
<1> QED BY <1>6, <1>7, <1>8, <1>9, <1>10, FilesGained

\* A file that is there is opened, by its id.
LEMMA FileShown ==
  ASSUME WorkspaceInv, UNCHANGED <<setup, open, files, fileIds, activeGroup, groupIds>>,
         NEW id \in Ids(files), groups' = OpenFile(groups, id)
  PROVE  WorkspaceInv' /\ NothingLost
<1>1. fileIds \in Nat /\ MaxIds \in Nat /\ fileIds <= MaxIds /\ GoodFiles(files, fileIds) /\ id \in 1 .. fileIds
  BY WorkspaceConstants DEF WorkspaceInv, GoodFiles
<1>2. GoodFiles(files', fileIds')
  BY <1>1
<1> QED BY <1>1, <1>2, FilesGained

\* A file at the path is opened: the one that is there or a new one.
LEMMA Creates ==
  ASSUME WorkspaceInv, setup' = setup, NEW path \in Paths, CreateFile(path)
  PROVE  WorkspaceInv' /\ NothingLost
<1>1. CASE path \in PathsOf(files)
  <2> DEFINE found == CHOOSE f \in ToSet(files) : f.path = path
  <2>1. \E f \in ToSet(files) : f.path = path
    BY <1>1 DEF PathsOf, ToSet
  <2>2. found \in ToSet(files)
    BY <2>1
  <2>3. found.id \in Ids(files)
    BY <2>2 DEF ToSet, Ids
  <2>4. groups' = OpenFile(groups, found.id) /\ UNCHANGED <<open, files, fileIds, activeGroup, groupIds>>
    BY <1>1 DEF CreateFile
  <2> QED BY <2>3, <2>4, FileShown
<1>2. CASE path \notin PathsOf(files)
  BY <1>2, FileGained DEF CreateFile
<1> QED BY <1>1, <1>2

\* The copy is a new file at a free path.
LEMMA Duplicates ==
  ASSUME WorkspaceInv, setup' = setup, NEW id \in Ids(files), NEW path \in Paths, DuplicateFile(id, path)
  PROVE  WorkspaceInv' /\ NothingLost
  BY FileGained DEF DuplicateFile

\* Opening a file of the project.
LEMMA OpensFile ==
  ASSUME WorkspaceInv, setup' = setup, NEW id \in Ids(files), OpenFromExplorer(id)
  PROVE  WorkspaceInv' /\ NothingLost
  BY FileShown DEF OpenFromExplorer

\* However many files are imported, whether their paths are taken or not, into the
\* project that is open.
LEMMA ImportsFiles ==
  ASSUME WorkspaceInv, setup' = setup, NEW paths \in Seq(Paths), paths # <<>>, FinishImport(paths), open
  PROVE  WorkspaceInv' /\ NothingLost
<1> DEFINE imported == [i \in DOMAIN paths |-> File(fileIds + i, paths[i])]
<1>1. /\ fileIds \in Nat /\ MaxIds \in Nat /\ files \in Seq(Records(Paths)) /\ Distinct(files)
      /\ Ids(files) \subseteq 1 .. fileIds
  BY WorkspaceConstants DEF WorkspaceInv, GoodFiles
<1>2. DOMAIN paths = 1 .. Len(paths) /\ Len(paths) \in Nat /\ Len(paths) >= 1 /\ 1 \in DOMAIN paths
  OBVIOUS
<1>3. PICK new : new = imported
  OBVIOUS
<1>4. ASSUME NEW i \in 1 .. Len(paths)
      PROVE  new[i] \in Records(Paths) /\ new[i].id = fileIds + i /\ new[i].path = paths[i]
  BY <1>1, <1>2, <1>3 DEF File, Records
<1>5. new \in Seq(Records(Paths)) /\ Len(new) = Len(paths)
  BY <1>2, <1>3, <1>4
<1>6. \A k \in 1 .. Len(new) : new[k].id \notin Ids(files)
  BY <1>1, <1>2, <1>4, <1>5
<1>7. \A k, m \in 1 .. Len(new) : new[k].id = new[m].id => k = m
  BY <1>1, <1>2, <1>4, <1>5
<1>8. /\ files' = AddFiles(files, new) /\ fileIds' = fileIds + Len(paths) /\ fileIds' <= MaxIds
      /\ groups' = OpenFile(groups, fileIds + 1) /\ UNCHANGED <<open, activeGroup, groupIds>>
      /\ ReImports \/ \A i \in DOMAIN paths : paths[i] \notin PathsOf(files)
  BY <1>3 DEF FinishImport
<1> HIDE DEF imported
<1>9. files' \in Seq(Records(Paths)) /\ Grown(files', files, new, Len(new))
  BY <1>1, <1>5, <1>6, <1>7, <1>8, FilesAdded
<1>10. Distinct(files') /\ Ids(files) \subseteq Ids(files')
  BY <1>9 DEF Grown
<1>11. Ids(files') \subseteq 1 .. fileIds'
  <2>1. \A k \in 1 .. Len(new) : new[k].id \in 1 .. fileIds'
    BY <1>1, <1>2, <1>4, <1>5, <1>8
  <2>2. 1 .. fileIds \subseteq 1 .. fileIds'
    BY <1>1, <1>2, <1>8
  <2> QED BY <1>1, <1>9, <2>1, <2>2 DEF Grown
<1>12. GoodFiles(files', fileIds')
  BY <1>9, <1>10, <1>11 DEF GoodFiles
<1>13. ReImports \/ fileIds + 1 \in Ids(files')
  BY <1>2, <1>4, <1>5, <1>8, <1>9 DEF Grown
<1>14. fileIds' \in Nat /\ fileIds <= fileIds' /\ fileIds + 1 \in 1 .. fileIds'
  BY <1>1, <1>2, <1>8
<1> QED BY <1>8, <1>10, <1>12, <1>13, <1>14, FilesGained

\* The project was closed: the files are lost, and a tab names one of them.
LEMMA ImportsTooLate ==
  ASSUME WorkspaceInv, setup' = setup, NEW paths \in Seq(Paths), paths # <<>>, FinishImport(paths), ~open
  PROVE  WorkspaceInv' /\ NothingLost
<1>1. fileIds \in Nat /\ MaxIds \in Nat /\ Len(paths) \in Nat /\ Len(paths) >= 1 /\ GoodFiles(files, fileIds)
  BY WorkspaceConstants DEF WorkspaceInv
<1>2. /\ files' = files /\ fileIds' = fileIds + Len(paths) /\ fileIds' <= MaxIds
      /\ groups' = OpenFile(groups, fileIds + 1) /\ UNCHANGED <<open, activeGroup, groupIds>>
  BY DEF FinishImport
<1>3. fileIds' \in Nat /\ fileIds <= fileIds' /\ fileIds + 1 \in 1 .. fileIds' /\ 1 .. fileIds \subseteq 1 .. fileIds'
  BY <1>1, <1>2
<1>4. GoodFiles(files', fileIds')
  BY <1>1, <1>2, <1>3 DEF GoodFiles
<1> QED BY <1>2, <1>3, <1>4, FilesGained

-----------------------------------------------------------------------------
\* Files get other paths and keep their ids and places.
LEMMA FilesMoved ==
  ASSUME WorkspaceInv, UNCHANGED <<setup, open, groups, activeGroup, fileIds, groupIds>>,
         files' \in Seq(Records(Paths)), Len(files') = Len(files),
         \A i \in 1 .. Len(files) : files'[i].id = files[i].id,
         \A i, j \in 1 .. Len(files) : files'[i].path = files'[j].path => i = j
  PROVE  WorkspaceInv' /\ NothingLost
<1>1. files \in Seq(Records(Paths)) /\ DOMAIN files = 1 .. Len(files) /\ DOMAIN files' = DOMAIN files
      /\ GoodGroups(groups, activeGroup, groupIds)
  BY DEF WorkspaceInv, GoodFiles
<1>2. Ids(files') = Ids(files)
  BY <1>1 DEF Ids
<1>3. Distinct(files')
  BY <1>1 DEF WorkspaceInv, GoodFiles, Distinct
<1>4. GoodFiles(files', fileIds')
  BY <1>2, <1>3 DEF WorkspaceInv, GoodFiles
<1>5. GoodTabs(groups', files', fileIds', open')
  BY <1>2 DEF WorkspaceInv, GoodTabs
<1>6. GoodGroups(groups', activeGroup', groupIds')
  BY <1>1
<1> QED BY <1>2, <1>4, <1>5, <1>6, WorkspaceStays DEF WorkspaceInv, NothingLost

\* PathOf finds the path of a file.
LEMMA PathFound ==
  ASSUME WorkspaceInv, NEW i \in DOMAIN files
  PROVE  PathOf(files[i].id) = files[i].path
<1> DEFINE id == files[i].id
           found == CHOOSE f \in ToSet(files) : f.id = id
<1>1. \E f \in ToSet(files) : f.id = id
  BY DEF ToSet
<1>2. found \in ToSet(files) /\ found.id = id
  BY <1>1
<1>3. PathOf(files[i].id) = found.path
  BY DEF PathOf
<1> HIDE DEF found
<1>4. PICK j \in DOMAIN files : found = files[j]
  BY <1>2 DEF ToSet
<1>5. i = j
  BY <1>2, <1>4 DEF WorkspaceInv, GoodFiles, Distinct
<1> QED BY <1>3, <1>4, <1>5

\* App's handler looks whether the path is taken.
LEMMA RenamesFile ==
  ASSUME WorkspaceInv, setup' = setup, NEW id \in Ids(files), NEW path \in Paths, RenameFile(id, path)
  PROVE  WorkspaceInv' /\ NothingLost
<1>1. /\ files \in Seq(Records(Paths)) /\ DOMAIN files = 1 .. Len(files) /\ Distinct(files) /\ Len(files) \in Nat
      /\ files' = SetPath(id, path) /\ UNCHANGED <<open, groups, activeGroup, fileIds, groupIds>>
  BY DEF WorkspaceInv, GoodFiles, RenameFile
<1>2. PICK k \in DOMAIN files : files[k].id = id
  BY DEF Ids
<1>3. PICK f \in Records(Paths) : f = File(id, path) /\ f.id = id /\ f.path = path
  <2>1. files[k] \in Records(Paths)
    BY <1>1, <1>2
  <2>2. File(id, path) \in Records(Paths)
    BY <1>2, <2>1 DEF File, Records
  <2> QED BY <2>2 DEF File
<1>4. PICK fs : fs = [i \in 1 .. Len(files) |-> IF files[i].id = id THEN f ELSE files[i]]
  OBVIOUS
<1>5. files' = fs
  BY <1>1, <1>3, <1>4 DEF SetPath
<1>6. \A i \in 1 .. Len(files) : fs[i] \in Records(Paths) /\ fs[i].id = files[i].id
  BY <1>1, <1>3, <1>4
<1>7. fs \in Seq(Records(Paths)) /\ Len(fs) = Len(files)
  BY <1>1, <1>4, <1>6
<1>8. fs[k] = f /\ \A i \in 1 .. Len(files) : i # k => fs[i] = files[i]
  BY <1>1, <1>2, <1>4 DEF Distinct
<1>9. ASSUME NEW i \in 1 .. Len(files), i # k PROVE files[i].path # path
  <2>1. files[i].id \in Ids(files) \ {id}
    BY <1>1, <1>2, <1>9 DEF Ids, Distinct
  <2>2. PathOf(files[i].id) # path
    BY <2>1 DEF RenameFile
  <2> QED BY <1>1, <2>2, PathFound
<1>10. \A i, j \in 1 .. Len(files) : fs[i].path = fs[j].path => i = j
  BY <1>1, <1>3, <1>8, <1>9 DEF Distinct
<1> QED BY <1>1, <1>5, <1>6, <1>7, <1>10, FilesMoved

\* A path is a sequence of segments, of a length within the bound.
LEMMA PathIsASequence ==
  ASSUME setup \in Setups, NEW p
  PROVE  p \in Paths <=> p \in Seq(Segments) /\ Len(p) \in 1 .. MaxDepth
<1>1. MaxDepth \in Nat
  BY WorkspaceConstants
<1>2. ASSUME p \in Paths PROVE p \in Seq(Segments) /\ Len(p) \in 1 .. MaxDepth
  <2>1. PICK n \in 1 .. MaxDepth : p \in [1 .. n -> Segments]
    BY <1>2 DEF Paths
  <2> QED BY <1>1, <2>1
<1>3. ASSUME p \in Seq(Segments), Len(p) \in 1 .. MaxDepth PROVE p \in Paths
  <2>1. p \in [1 .. Len(p) -> Segments]
    BY <1>3
  <2> QED BY <1>3, <2>1 DEF Paths
<1> QED BY <1>2, <1>3

\* The file keeps its name and goes to another directory.
LEMMA MovesFile ==
  ASSUME WorkspaceInv, setup' = setup, NEW id \in Ids(files), NEW target \in Paths, MoveFile(id, Front(target))
  PROVE  WorkspaceInv' /\ NothingLost
<1>1. setup \in Setups /\ files \in Seq(Records(Paths)) /\ MaxDepth \in Nat
  BY WorkspaceConstants DEF WorkspaceInv, GoodFiles
<1>2. PICK k \in DOMAIN files : files[k].id = id
  BY DEF Ids
<1>3. PICK old \in Paths : old = PathOf(id)
  <2>1. files[k] \in Records(Paths)
    BY <1>1, <1>2
  <2>2. PathOf(id) = files[k].path
    BY <1>2, PathFound
  <2> QED BY <2>1, <2>2 DEF Records
<1>4. old \in Seq(Segments) /\ Len(old) \in 1 .. MaxDepth /\ target \in Seq(Segments) /\ Len(target) \in 1 .. MaxDepth
  BY <1>1, PathIsASequence
<1>5. PICK new : new = Append(Front(target), Last(old))
  OBVIOUS
<1>6. Front(target) \in Seq(Segments) /\ Len(Front(target)) = Len(target) - 1 /\ Last(old) \in Segments
  <2>1. SubSeq(target, 1, Len(target) - 1) \in Seq(Segments) /\ Len(SubSeq(target, 1, Len(target) - 1)) = Len(target) - 1
    <3>1. PICK n \in Nat : n = Len(target) - 1
      BY <1>1, <1>4
    <3>2. PICK s \in Seq(Segments) : s = target
      BY <1>4
    <3>3. n <= Len(s)
      BY <1>1, <1>4, <3>1, <3>2
    <3>4. SubSeq(s, 1, n) \in Seq(Segments) /\ Len(SubSeq(s, 1, n)) = n
      BY <3>3
    <3> QED BY <3>1, <3>2, <3>4
  <2>2. old[Len(old)] \in Segments
    BY <1>1, <1>4
  <2> QED BY <2>1, <2>2, Zenon DEF Front, Last
<1>7. new \in Seq(Segments) /\ Len(new) = Len(target)
  BY <1>1, <1>4, <1>5, <1>6
<1>8. new \in Paths
  BY <1>1, <1>4, <1>7, PathIsASequence
<1>9. RenameFile(id, new)
  BY <1>3, <1>5 DEF MoveFile
<1> QED BY <1>8, <1>9, RenamesFile

\* A folder moves with everything in it, or not at all.
LEMMA RenamesFolder ==
  ASSUME WorkspaceInv, setup' = setup, NEW from \in Paths, NEW to \in Paths, RenameFolder(from, to)
  PROVE  WorkspaceInv' /\ NothingLost
<1> DEFINE affected == {f \in ToSet(files) : IsPrefix(from, f.path)}
           moved(f) == to \o SubSeq(f.path, Len(from) + 1, Len(f.path))
           occupied == {f.path : f \in ToSet(files) \ affected}
<1>1. /\ setup \in Setups /\ files \in Seq(Records(Paths)) /\ DOMAIN files = 1 .. Len(files) /\ Distinct(files)
      /\ MaxDepth \in Nat /\ Len(files) \in Nat
  BY WorkspaceConstants DEF WorkspaceInv, GoodFiles
<1>2. /\ \A f \in affected : Len(moved(f)) <= MaxDepth /\ moved(f) \notin occupied
      /\ \A f, g \in affected : moved(f) = moved(g) => f = g
      /\ files' = [i \in DOMAIN files |->
                     IF files[i] \in affected THEN File(files[i].id, moved(files[i])) ELSE files[i]]
      /\ UNCHANGED <<open, groups, activeGroup, fileIds, groupIds>>
  BY Zenon DEF RenameFolder
<1>3. \A i \in DOMAIN files : files[i] \in ToSet(files) /\ files[i] \in Records(Paths)
  BY <1>1 DEF ToSet
<1>4. ASSUME NEW f \in Records(Paths), f \in affected PROVE moved(f) \in Paths
  <2>1. PICK p \in Paths : p = f.path
    BY DEF Records
  <2>2. /\ p \in Seq(Segments) /\ Len(p) \in Nat /\ from \in Seq(Segments) /\ Len(from) \in Nat
        /\ to \in Seq(Segments) /\ Len(to) \in Nat /\ Len(to) >= 1
    BY <1>1, PathIsASequence
  <2>3. Len(from) <= Len(p)
    BY <1>4, <2>1 DEF IsPrefix
  <2>4. PICK rest : rest = SubSeq(p, Len(from) + 1, Len(p))
    OBVIOUS
  <2>5. rest \in Seq(Segments) /\ Len(rest) \in Nat
    BY <2>2, <2>3, <2>4
  <2>6. moved(f) = to \o rest
    BY <2>1, <2>4
  <2>7. to \o rest \in Seq(Segments) /\ Len(to \o rest) = Len(to) + Len(rest)
    BY <2>2, <2>5, ConcatProperties, Zenon
  <2>8. Len(to \o rest) <= MaxDepth
    BY <1>2, <1>4, <2>6
  <2>9. Len(to \o rest) \in 1 .. MaxDepth
    BY <1>1, <2>2, <2>5, <2>7, <2>8
  <2> QED BY <1>1, <2>6, <2>7, <2>9, PathIsASequence
<1> HIDE DEF moved, affected, occupied
<1>5. ASSUME NEW i \in 1 .. Len(files)
      PROVE  /\ files'[i] \in Records(Paths) /\ files'[i].id = files[i].id
             /\ files'[i].path = IF files[i] \in affected THEN moved(files[i]) ELSE files[i].path
  <2>1. PICK f \in Records(Paths) : f = files[i]
    BY <1>1, <1>3
  <2>2. files'[i] = IF f \in affected THEN File(f.id, moved(f)) ELSE f
    BY <1>1, <1>2, <2>1, Zenon
  <2>3. CASE f \in affected
    <3>1. moved(f) \in Paths
      BY <1>4, <2>3
    <3> QED BY <2>1, <2>2, <2>3, <3>1 DEF File, Records
  <2>4. CASE f \notin affected
    BY <2>1, <2>2, <2>4
  <2> QED BY <2>3, <2>4
<1>6. files' \in Seq(Records(Paths)) /\ Len(files') = Len(files)
  BY <1>1, <1>2, <1>5
<1>7. ASSUME NEW i \in 1 .. Len(files), NEW j \in 1 .. Len(files), files'[i].path = files'[j].path PROVE i = j
  <2>1. \A k \in 1 .. Len(files) : files[k] \notin affected => files[k].path \in occupied
    BY <1>1, <1>3 DEF occupied
  <2>a. \A k \in 1 .. Len(files) : files[k] \in affected => files'[k].path = moved(files[k]) /\ files'[k].path \notin occupied
    BY <1>2, <1>5, ZenonT(40)
  <2>b. \A k \in 1 .. Len(files) : files[k] \notin affected => files'[k].path = files[k].path
    BY <1>5, Zenon
  <2>2. CASE files[i] \in affected /\ files[j] \in affected
    <3>1. files[i] = files[j]
      <4>1. moved(files[i]) = moved(files[j])
        BY <1>7, <2>2, <2>a
      <4> QED BY <1>2, <2>2, <4>1, Zenon
    <3> QED BY <1>1, <3>1 DEF Distinct
  <2>3. CASE files[i] \notin affected /\ files[j] \notin affected
    BY <1>1, <1>7, <2>3, <2>b DEF Distinct
  <2>4. CASE files[i] \in affected /\ files[j] \notin affected
    BY <1>7, <2>1, <2>4, <2>a, <2>b
  <2>5. CASE files[i] \notin affected /\ files[j] \in affected
    BY <1>7, <2>1, <2>5, <2>a, <2>b
  <2> QED BY <2>2, <2>3, <2>4, <2>5
<1> QED BY <1>2, <1>5, <1>6, <1>7, FilesMoved

-----------------------------------------------------------------------------
\* Files are deleted, and their tabs in every group.
LEMMA FilesDeleted ==
  ASSUME WorkspaceInv, UNCHANGED <<setup, open, activeGroup, fileIds, groupIds>>,
         NEW kept, files' = Filter(files, kept), NEW ids \in Seq(Nat), groups' = RemoveFiles(groups, ids),
         \A f \in ToSet(files) : f \notin kept => \E k \in 1 .. Len(ids) : ids[k] = f.id
  PROVE  WorkspaceInv' /\ NothingLost
<1>1. /\ files \in Seq(Records(Paths)) /\ DOMAIN files = 1 .. Len(files) /\ Distinct(files) /\ Ids(files) \subseteq 1 .. fileIds
      /\ groups \in Seq(Groups) /\ DOMAIN groups = 1 .. Len(groups) /\ \A i \in 1 .. Len(groups) : Shows(groups[i])
  BY DEF WorkspaceInv, GoodFiles, GoodGroups
<1>2. PICK fs : fs = Filter(files, kept)
  OBVIOUS
<1>3. fs \in Seq(Records(Paths)) /\ Picks(fs, files, Len(files), kept)
  BY <1>1, <1>2, FilterPicks
<1>4. PICK at \in [1 .. Len(fs) -> 1 .. Len(files)] :
        /\ \A i \in 1 .. Len(fs) : fs[i] = files[at[i]] /\ fs[i] \in kept
        /\ \A i, j \in 1 .. Len(fs) : at[i] = at[j] => i = j
        /\ \A k \in 1 .. Len(files) : files[k] \in kept => \E i \in 1 .. Len(fs) : at[i] = k
  BY <1>3 DEF Picks
<1>5. DOMAIN fs = 1 .. Len(fs)
  BY <1>3
<1>6. Distinct(fs)
  <2> SUFFICES ASSUME NEW i \in 1 .. Len(fs), NEW j \in 1 .. Len(fs), fs[i].path = fs[j].path \/ fs[i].id = fs[j].id
               PROVE  i = j
    BY <1>5 DEF Distinct
  <2>1. at[i] \in DOMAIN files /\ at[j] \in DOMAIN files /\ fs[i] = files[at[i]] /\ fs[j] = files[at[j]]
    BY <1>1, <1>4
  <2>2. at[i] = at[j]
    BY <1>1, <2>1 DEF Distinct
  <2> QED BY <1>4, <2>2
<1>7. Ids(fs) \subseteq Ids(files)
  BY <1>1, <1>4, <1>5 DEF Ids
<1>8. GoodFiles(files', fileIds')
  BY <1>1, <1>2, <1>3, <1>6, <1>7 DEF GoodFiles
<1>9. PICK hs : hs = RemoveFiles(groups, ids)
  OBVIOUS
<1>10. hs \in Seq(Groups) /\ Without(hs, groups, ids, Len(ids))
  BY <1>1, <1>9, FilesClosed
<1>11. Retabbed(hs, groups) /\ DOMAIN hs = DOMAIN groups
  BY <1>1, <1>10 DEF Retabbed, Without
<1>12. GoodGroups(groups', activeGroup', groupIds')
  BY <1>9, <1>11, GroupsKept DEF WorkspaceInv
<1>13. ASSUME NEW id \in Ids(files), \A k \in 1 .. Len(ids) : ids[k] # id PROVE id \in Ids(fs)
  <2>1. PICK k \in DOMAIN files : files[k].id = id
    BY DEF Ids
  <2>2. files[k] \in kept
    BY <1>13, <2>1 DEF ToSet
  <2>3. PICK i \in 1 .. Len(fs) : at[i] = k
    BY <1>1, <1>4, <2>1, <2>2
  <2> QED BY <1>4, <1>5, <2>1, <2>3 DEF Ids
<1>14. GoodTabs(groups', files', fileIds', open')
  <2> SUFFICES ASSUME NEW i \in DOMAIN hs
               PROVE  Tabs(hs[i]) \subseteq 1 .. fileIds /\ (ReImports \/ ~open \/ Tabs(hs[i]) \subseteq Ids(fs))
    BY <1>2, <1>9 DEF GoodTabs
  <2>1. Tabs(hs[i]) = Tabs(groups[i]) \ {ids[k] : k \in 1 .. Len(ids)}
    BY <1>1, <1>10, <1>11 DEF Without
  <2>2. Tabs(groups[i]) \subseteq 1 .. fileIds /\ (ReImports \/ ~open \/ Tabs(groups[i]) \subseteq Ids(files))
    BY <1>11 DEF WorkspaceInv, GoodTabs
  <2> QED BY <1>13, <2>1, <2>2
<1>15. NothingLost
  <2>1. ASSUME NEW f \in ToSet(files), f.id \in Ids(fs) PROVE f \in ToSet(fs)
    <3>1. PICK k \in DOMAIN files : f = files[k]
      BY DEF ToSet
    <3>2. PICK i \in DOMAIN fs : fs[i].id = f.id
      BY <2>1 DEF Ids
    <3>3. at[i] = k
      BY <1>1, <1>4, <1>5, <3>1, <3>2 DEF Distinct
    <3> QED BY <1>4, <1>5, <3>1, <3>2, <3>3 DEF ToSet
  <2> QED BY <1>2, <2>1 DEF NothingLost
<1> QED BY <1>8, <1>12, <1>14, <1>15, WorkspaceStays DEF WorkspaceInv

\* A file is deleted with its tabs.
LEMMA Deletes ==
  ASSUME WorkspaceInv, setup' = setup, NEW id \in Ids(files), DeleteFile(id)
  PROVE  WorkspaceInv' /\ NothingLost
<1>1. id \in Nat
  BY DEF WorkspaceInv, GoodFiles
<1>2. PICK ids : ids = <<id>>
  OBVIOUS
<1>3. ids \in Seq(Nat) /\ Len(ids) = 1 /\ ids[1] = id
  BY <1>1, <1>2
<1>4. PICK kept : kept = {f \in ToSet(files) : f.id # id}
  OBVIOUS
<1>5. files' = Filter(files, kept) /\ groups' = RemoveFiles(groups, ids)
      /\ UNCHANGED <<open, activeGroup, fileIds, groupIds>>
  BY <1>2, <1>4 DEF DeleteFile
<1>6. \A f \in ToSet(files) : f \notin kept => \E k \in 1 .. Len(ids) : ids[k] = f.id
  BY <1>3, <1>4
<1> QED BY <1>3, <1>5, <1>6, FilesDeleted

\* What is under a folder is deleted with its tabs.
LEMMA DeletesFolder ==
  ASSUME WorkspaceInv, setup' = setup, NEW folder \in Paths, DeleteFolder(folder)
  PROVE  WorkspaceInv' /\ NothingLost
<1>1. PICK inside : inside = {f \in ToSet(files) : Under(folder, f.path)}
  OBVIOUS
<1>2. PICK removed : removed = Filter(files, inside)
  OBVIOUS
<1>3. PICK ids : ids = [i \in DOMAIN removed |-> removed[i].id]
  OBVIOUS
<1>4. PICK kept : kept = ToSet(files) \ inside
  OBVIOUS
<1>5. files' = Filter(files, kept) /\ groups' = RemoveFiles(groups, ids)
      /\ UNCHANGED <<open, activeGroup, fileIds, groupIds>>
  BY <1>1, <1>2, <1>3, <1>4 DEF DeleteFolder
<1>6. files \in Seq(Records(Paths))
  BY DEF WorkspaceInv, GoodFiles
<1>7. removed \in Seq(Records(Paths)) /\ ToSet(removed) = ToSet(files) \cap inside
  BY <1>2, <1>6, FilterIsASelection
<1>8. DOMAIN removed = 1 .. Len(removed) /\ Len(removed) \in Nat /\ \A i \in 1 .. Len(removed) : removed[i].id \in Nat
  <2>1. \A i \in 1 .. Len(removed) : removed[i] \in Records(Paths)
    BY <1>7
  <2> QED BY <1>7, <2>1 DEF Records
<1>9. ids \in Seq(Nat) /\ Len(ids) = Len(removed) /\ \A i \in 1 .. Len(removed) : ids[i] = removed[i].id
  BY <1>3, <1>8
<1>10. ASSUME NEW f \in ToSet(files), f \notin kept PROVE \E k \in 1 .. Len(ids) : ids[k] = f.id
  <2>1. f \in ToSet(removed)
    BY <1>4, <1>7, <1>10
  <2> QED BY <1>8, <1>9, <2>1 DEF ToSet
<1> QED BY <1>5, <1>9, <1>10, FilesDeleted

-----------------------------------------------------------------------------
\* A change of project leaves one group, with nothing in it.
LEMMA GroupsReset ==
  /\ GoodGroups(ResetGroups, 0, 0) /\ Len(ResetGroups) = 1
  /\ ResetGroups[1] \in Groups /\ ResetGroups[1].id = 0 /\ Shows(ResetGroups[1]) /\ Tabs(ResetGroups[1]) = {}
<1>1. PICK g : g = [id |-> 0, tabs |-> <<>>, active |-> None]
  OBVIOUS
<1>2. g \in Groups /\ g.id = 0 /\ g.tabs = <<>> /\ g.active = None
  BY <1>1 DEF Groups
<1>3. Shows(g) /\ Tabs(g) = {}
  BY <1>2 DEF Shows, Tabs, ToSet, IsInjective
<1>4. ResetGroups = <<g>>
  BY <1>1 DEF ResetGroups
<1> QED BY <1>2, <1>3, <1>4 DEF GoodGroups

\* Groups that exist already may have more ids.
LEMMA MoreIds ==
  ASSUME NEW gs, NEW focus, GoodGroups(gs, focus, 0), NEW made \in Nat
  PROVE  GoodGroups(gs, focus, made)
  BY DEF GoodGroups

\* The groups of a project that is closed are gone.
LEMMA ClosesProject ==
  ASSUME WorkspaceInv, setup' = setup, CloseProject
  PROVE  WorkspaceInv' /\ NothingLost
<1>1. GoodGroups(groups', activeGroup', groupIds')
  BY GroupsReset, MoreIds DEF CloseProject, WorkspaceInv
<1>2. GoodTabs(groups', files', fileIds', open')
  BY GroupsReset DEF CloseProject, GoodTabs, GoodGroups
<1> QED BY <1>1, <1>2, WorkspaceStays DEF CloseProject, WorkspaceInv, NothingLost

\* A project is opened with its first file.
LEMMA Opens ==
  ASSUME WorkspaceInv, setup' = setup, OpenProject
  PROVE  WorkspaceInv' /\ NothingLost
<1>1. groupIds \in Nat /\ files \in Seq(Records(Paths)) /\ Ids(files) \subseteq 1 .. fileIds /\ groupIds \in 0 .. MaxGroups
  BY WorkspaceConstants DEF WorkspaceInv, GoodFiles
<1>2. UNCHANGED <<files, fileIds, groupIds>> /\ activeGroup' = 0 /\ open' = TRUE
  BY DEF OpenProject
<1>3. CASE files = <<>>
  <2>1. groups' = ResetGroups
    BY <1>3 DEF OpenProject
  <2>2. GoodGroups(groups', activeGroup', groupIds')
    BY <1>1, <1>2, <2>1, GroupsReset, MoreIds
  <2>3. GoodTabs(groups', files', fileIds', open')
    BY <2>1, GroupsReset DEF GoodTabs, GoodGroups
  <2> QED BY <1>2, <2>2, <2>3, WorkspaceStays DEF WorkspaceInv, NothingLost
<1>4. CASE files # <<>>
  <2>1. PICK id \in Nat : id = files[1].id /\ id \in Ids(files)
    <3>1. 1 \in DOMAIN files
      BY <1>1, <1>4
    <3>2. files[1].id \in Ids(files)
      BY <3>1 DEF Ids
    <3>3. fileIds \in Nat
      BY WorkspaceConstants DEF WorkspaceInv
    <3> QED BY <1>1, <3>2, <3>3
  <2>2. ResetGroups \in Seq(Groups) /\ ResetGroups[1] \in Groups /\ ResetGroups[1].id = 0
        /\ IsInjective(ResetGroups[1].tabs)
    BY GroupsReset DEF GoodGroups, Shows
  <2>3. PICK h : h = OpenTab(ResetGroups[1], id)
    OBVIOUS
  <2>4. h \in Groups /\ h.id = 0 /\ Tabs(h) = {id} /\ Shows(h)
    BY <2>2, <2>3, TabOpened, GroupsReset
  <2>5. groups' = <<h>>
    BY <1>4, <2>1, <2>3 DEF OpenProject
  <2>6. GoodGroups(groups', activeGroup', groupIds')
    BY <1>1, <1>2, <2>4, <2>5 DEF GoodGroups
  <2>7. GoodTabs(groups', files', fileIds', open')
    BY <1>1, <1>2, <2>1, <2>4, <2>5 DEF GoodTabs
  <2> QED BY <1>2, <2>6, <2>7, WorkspaceStays DEF WorkspaceInv, NothingLost
<1> QED BY <1>3, <1>4

\* A project starts without files, in one empty group.
LEMMA WorkspaceStarts == ASSUME Init PROVE WorkspaceInv
<1>1. MaxIds \in Nat /\ MaxGroups \in Nat
  BY WorkspaceConstants DEF Init
<1>2. GoodFiles(files, fileIds)
  BY DEF Init, GoodFiles, Distinct, Ids
<1>3. GoodGroups(groups, activeGroup, groupIds)
  BY GroupsReset DEF Init
<1>4. GoodTabs(groups, files, fileIds, open)
  BY GroupsReset DEF Init, GoodTabs, GoodGroups
<1>5. setup \in Setups /\ open \in BOOLEAN /\ fileIds \in 0 .. MaxIds /\ groupIds \in 0 .. MaxGroups
  BY <1>1 DEF Init
<1> QED BY <1>2, <1>3, <1>4, <1>5, Zenon DEF WorkspaceInv

\* Whatever the explorer and the editor are told to do.
LEMMA WorkspaceMoves == ASSUME WorkspaceInv, Next PROVE WorkspaceInv' /\ NothingLost
<1>1. setup' = setup
  BY DEF Next
<1>2. CASE \E path \in Paths : CreateFile(path)
  BY <1>1, <1>2, Creates
<1>3. ASSUME NEW paths \in Seq(Paths), paths # <<>>, FinishImport(paths) PROVE WorkspaceInv' /\ NothingLost
  BY <1>1, <1>3, ImportsFiles, ImportsTooLate
<1>4. CASE Import
  <2>1. CASE StartImport
    <3>1. UNCHANGED <<setup, open, files, groups, activeGroup, fileIds, groupIds>>
      BY <1>1, <2>1 DEF StartImport
    <3>2. WorkspaceInv'
      BY <3>1, WorkspaceStays DEF WorkspaceInv
    <3> QED BY <3>1, <3>2 DEF NothingLost
  <2>2. ASSUME NEW p \in Paths, FinishImport(<<p>>) PROVE WorkspaceInv' /\ NothingLost
    <3>1. PICK paths : paths = <<p>>
      OBVIOUS
    <3>2. paths \in Seq(Paths) /\ paths # <<>>
      BY <3>1
    <3> QED BY <1>3, <2>2, <3>1, <3>2
  <2>3. ASSUME NEW p \in Paths, NEW q \in Paths, FinishImport(<<p, q>>) PROVE WorkspaceInv' /\ NothingLost
    <3>1. PICK paths : paths = <<p, q>>
      OBVIOUS
    <3>2. paths \in Seq(Paths) /\ paths # <<>>
      BY <3>1
    <3> QED BY <1>3, <2>3, <3>1, <3>2
  <2> QED BY <1>4, <2>1, <2>2, <2>3 DEF Import
<1>5. ASSUME NEW id \in Ids(files),
             \/ OpenFromExplorer(id)
             \/ DeleteFile(id)
             \/ \E path \in Paths : DuplicateFile(id, path) \/ RenameFile(id, path)
             \/ \E path \in Paths : MoveFile(id, Front(path))
      PROVE  WorkspaceInv' /\ NothingLost
  BY <1>1, <1>5, OpensFile, Deletes, Duplicates, RenamesFile, MovesFile
<1>6. CASE \E from, to \in Paths : RenameFolder(from, to)
  BY <1>1, <1>6, RenamesFolder
<1>7. CASE \E folder \in Paths : DeleteFolder(folder)
  BY <1>1, <1>7, DeletesFolder
<1>8. ASSUME NEW group \in 1 .. 3,
             \/ ActivateGroup(group)
             \/ CloseGroup(group)
             \/ \E id \in 1 .. fileIds : CloseTab(group, id) \/ ActivateFile(group, id)
      PROVE  WorkspaceInv' /\ NothingLost
  BY <1>1, <1>8, ActivatesGroup, ClosesGroup, ClosesTab, ActivatesFile
<1>9. CASE SplitRight \/ CloseProject \/ OpenProject
  BY <1>1, <1>9, Splits, ClosesProject, Opens
<1> QED BY <1>2, <1>4, <1>5, <1>6, <1>7, <1>8, <1>9 DEF Next, Command

\* What moves another part leaves the workspace alone.
LEMMA WorkspaceRests == ASSUME WorkspaceInv, UNCHANGED vars PROVE WorkspaceInv'
<1>1. UNCHANGED <<setup, open, files, groups, activeGroup, fileIds, groupIds>>
  BY DEF vars
<1> QED BY <1>1, WorkspaceStays DEF WorkspaceInv

\* No import is under way at first.
LEMMA ImportsStartCounted == ASSUME Init PROVE ImportsCounted
  BY WorkspaceConstants DEF Init, ImportsCounted

\* Only imports start and finish imports.
LEMMA ImportsStayCounted ==
  ASSUME setup \in Setups, ImportsCounted, [Next]_vars
  PROVE  ImportsCounted'
<1>1. MaxImports \in Nat
  BY WorkspaceConstants
<1>2. MaxImports' = MaxImports
  BY DEF Next, vars, MaxImports
<1>3. CASE Import
  <2>1. importing \in 0 .. MaxImports
    BY DEF ImportsCounted
  <2>2. CASE StartImport
    BY <1>1, <1>2, <2>1, <2>2 DEF StartImport, ImportsCounted
  <2>3. CASE importing > 0 /\ importing' = importing - 1
    BY <1>1, <1>2, <2>1, <2>3 DEF ImportsCounted
  <2>4. ASSUME NEW paths, FinishImport(paths) PROVE importing > 0 /\ importing' = importing - 1
    BY <2>4 DEF FinishImport
  <2>5. StartImport \/ (importing > 0 /\ importing' = importing - 1)
    <3>1. ASSUME NEW p \in Paths, FinishImport(<<p>>) PROVE importing > 0 /\ importing' = importing - 1
      BY <2>4, <3>1
    <3>2. ASSUME NEW p \in Paths, NEW q \in Paths, FinishImport(<<p, q>>)
          PROVE  importing > 0 /\ importing' = importing - 1
      BY <2>4, <3>2
    <3> QED BY <1>3, <3>1, <3>2 DEF Import
  <2> QED BY <2>2, <2>3, <2>5
<1>4. CASE UNCHANGED importing
  BY <1>2, <1>4 DEF ImportsCounted
<1> QED BY <1>3, <1>4 DEF Next, vars

\* The parts of the invariant say what the runs check.
LEMMA WorkspaceMeans ==
  ASSUME WorkspaceInv, ImportsCounted
  PROVE  TypeOK /\ FilesDistinct /\ TabsNameFiles /\ GroupShowsATab /\ FocusExists
<1>1. TypeOK
  <2>1. ASSUME NEW i \in DOMAIN files PROVE files[i].id \in 1 .. fileIds /\ files[i].path \in Paths
    <3>1. files[i] \in Records(Paths)
      BY DEF WorkspaceInv, GoodFiles
    <3> QED BY <3>1 DEF WorkspaceInv, GoodFiles, Ids, Records
  <2> QED BY <2>1 DEF WorkspaceInv, GoodGroups, GoodTabs, ImportsCounted, TypeOK
<1>2. FilesDistinct
  BY DEF WorkspaceInv, GoodFiles, Distinct, FilesDistinct
<1>3. TabsNameFiles
  BY DEF WorkspaceInv, GoodTabs, TabsNameFiles
<1>4. GroupShowsATab
  BY DEF WorkspaceInv, GoodGroups, Shows, GroupShowsATab
<1>5. FocusExists
  BY DEF WorkspaceInv, GoodGroups, FocusExists
<1> QED BY <1>1, <1>2, <1>3, <1>4, <1>5

\* Files, tabs, groups and focus fit together, whatever is created, imported,
\* renamed, moved and deleted (useProjectController, workspaceReducer).
THEOREM WorkspaceInvariance == Spec => [](WorkspaceInv /\ ImportsCounted)
<1>1. Init => WorkspaceInv /\ ImportsCounted
  BY WorkspaceStarts, ImportsStartCounted
<1>2. WorkspaceInv /\ ImportsCounted /\ [Next]_vars => WorkspaceInv' /\ ImportsCounted'
  BY WorkspaceMoves, WorkspaceRests, ImportsStayCounted DEF WorkspaceInv
<1> QED BY <1>1, <1>2, PTL DEF Spec

-----------------------------------------------------------------------------
(***************************************************************************)
(* The builds                                                              *)
(***************************************************************************)
Revisions == [text : Texts, stamp : 0 .. MaxStamp]
Artifacts ==
  [id : (Build!Projects \X {Output[s] : s \in Build!Sources}) \cup Build!Sources,
   path : {Output[s] : s \in Build!Sources} \cup {None},
   build : [source : Build!Sources, text : Texts, stamp : 0 .. MaxStamp] \cup {None}]
Waits == {"backend", "nasm", "ld", "add", "analyze", "execute"}
TaskRecords ==
  [kind : Build!Kinds, source : Build!Sources, project : Build!Projects, rev : Revisions,
   files : Seq(Artifacts), pc : Waits, file : Artifacts \cup {None}]

\* The file a task makes.
Made(t) == [id |-> Build!GeneratedId(t.project, Output[t.source]), path |-> Output[t.source],
            build |-> Build!Build(t.source, t.rev)]

\* What a task works on is what it captured; what it will add was built from that,
\* and what it will execute as well.
TaskFollowsItsRequest ==
  task # None =>
    /\ task \in TaskRecords
    /\ task.project = Build!Owner[task.source]
    /\ task.pc = "add" => task.file = Made(task)
    /\ task.pc \in {"analyze", "execute"} =>
         /\ task.file \in Artifacts /\ task.file.build # None
         /\ task.file.build.source = task.source /\ task.file.build.text = task.rev.text

\* Without switches the project of the task is the open one; if nothing is
\* rearranged either, the files it captured are still there.
TaskKeepsItsProject ==
  task # None /\ ~Build!Switches =>
    /\ project = task.project
    /\ ~Build!Rearranged => \A i \in DOMAIN task.files : task.files[i].id \in Build!IdsOf(project)

\* An artifact that nobody renamed has an id made of its path, and of the project
\* it was built for.
IdsAreGenerated ==
  ~Build!Rearranged =>
    \A p \in Build!Projects : \A i \in DOMAIN projectFiles[p] :
      \E q \in Build!Projects :
        /\ projectFiles[p][i].id = <<q, projectFiles[p][i].path>>
        /\ ~Build!Switches => q = p

\* No two files of a project share a path.
PathsDiffer ==
  ~Build!Rearranged =>
    \A p \in Build!Projects : \A i, j \in DOMAIN projectFiles[p] :
      projectFiles[p][i].path = projectFiles[p][j].path => i = j

BuildInv ==
  /\ handlers \in Tasks
  /\ Build!TypeOK
  /\ projectFiles \in [Build!Projects -> Seq(Artifacts)]
  /\ TaskFollowsItsRequest
  /\ TaskKeepsItsProject
  /\ IdsAreGenerated
  /\ PathsDiffer
  /\ Build!FocusInProject
  /\ Build!ArtifactsAtHome

\* The setups are instances, None is none of their projects and no build.
LEMMA BuildConstants ==
  ASSUME handlers \in Tasks
  PROVE  /\ MaxStamp \in Nat /\ MaxFiles \in Nat
         /\ Build!Rearranged \in BOOLEAN /\ Build!Switches \in BOOLEAN
         /\ None \notin Build!Projects
         /\ \A s \in Build!Sources : s \in DOMAIN Output /\ Build!Owner[s] \in Build!Projects
         /\ None \notin [source : Build!Sources, text : Texts, stamp : 0 .. MaxStamp]
<1>1. /\ MaxStamp \in Nat /\ MaxFiles \in Nat
      /\ handlers.rearranged \in BOOLEAN /\ handlers.switches \in BOOLEAN
      /\ None \notin handlers.projects /\ DOMAIN handlers.owner \subseteq DOMAIN Output
      /\ \A x \in DOMAIN handlers.owner : handlers.owner[x] \in handlers.projects
  BY WorkbenchAssumption, Zenon DEF WorkbenchAssumption, Build!BuildAssumption
<1> USE DEF Build!Rearranged, Build!Switches, Build!Projects, Build!Sources, Build!Owner
<1>2. [source : Build!Sources, text : Texts, stamp : 0 .. MaxStamp]
        \subseteq [source : DOMAIN Output, text : Texts, stamp : 0 .. MaxStamp]
  BY <1>1
<1>3. None \notin [source : DOMAIN Output, text : Texts, stamp : 0 .. MaxStamp]
  BY WorkbenchAssumption DEF WorkbenchAssumption, Build!BuildAssumption
<1> QED BY <1>1, <1>2, <1>3

\* The index SelectInSeq finds for a path.
LEMMA FirstWithPath ==
  ASSUME NEW fs \in Seq(Artifacts), NEW path, NEW at, at = Build!IndexOf(fs, path)
  PROVE  /\ at = 0 => \A i \in 1 .. Len(fs) : fs[i].path # path
         /\ at # 0 => at \in 1 .. Len(fs) /\ fs[at].path = path
<1> DEFINE matches == {i \in 1 .. Len(fs) : fs[i].path = path}
<1>1. at = IF matches # {} THEN Build!Min(matches) ELSE 0
  BY DEF Build!IndexOf, Build!SelectInSeq
<1>2. CASE matches # {}
  <2>1. matches \subseteq Nat
    OBVIOUS
  <2> HIDE DEF matches
  <2>2. at \in matches
    BY <1>1, <1>2, <2>1, LeastNumber DEF Build!Min
  <2> QED BY <2>2 DEF matches
<1>3. CASE matches = {}
  BY <1>1, <1>3
<1> QED BY <1>2, <1>3

\* The index SelectInSeq finds for a fresh artifact.
LEMMA FirstFresh ==
  ASSUME NEW fs \in Seq(Artifacts), NEW s, NEW rev, NEW at,
         at = Build!IndexOfFresh(fs, s, rev), at # 0
  PROVE  at \in 1 .. Len(fs) /\ Build!Fresh(fs[at], s, rev)
<1> DEFINE matches == {i \in 1 .. Len(fs) : Build!Fresh(fs[i], s, rev)}
<1>1. at = Build!Min(matches) /\ matches # {}
  BY DEF Build!IndexOfFresh, Build!SelectInSeq
<1>2. matches \subseteq Nat
  OBVIOUS
<1> HIDE DEF matches
<1>3. at \in matches
  BY <1>1, <1>2, LeastNumber DEF Build!Min
<1> QED BY <1>3 DEF matches

\* addFiles changes one place of the list: the file with the path, or the end.
Put(fs, gs, pos, file) ==
  /\ pos \in 1 .. Len(fs) + 1
  /\ gs \in Seq(Artifacts) /\ Len(gs) <= MaxFiles
  /\ Len(gs) = IF pos > Len(fs) THEN pos ELSE Len(fs)
  /\ \A i \in 1 .. Len(fs) : i # pos => gs[i] = fs[i]
  /\ gs[pos].path = file.path /\ gs[pos].build = file.build
  /\ IF pos > Len(fs)
     THEN gs[pos].id = file.id /\ \A i \in 1 .. Len(fs) : fs[i].path # file.path
     ELSE gs[pos].id = fs[pos].id /\ fs[pos].path = file.path

\* addFiles finds the place by the path.
LEMMA AddPuts ==
  ASSUME BuildInv, project \in Build!Projects, NEW file \in Artifacts, Build!AddFile(file),
         NEW fs, fs = projectFiles[project]
  PROVE  \E gs \in Seq(Artifacts), pos \in Nat :
           /\ projectFiles' = [projectFiles EXCEPT ![project] = gs]
           /\ Put(fs, gs, pos, file)
<1>1. fs \in Seq(Artifacts) /\ Len(fs) \in Nat /\ Len(fs) <= MaxFiles /\ MaxFiles \in Nat /\ project # None
  BY BuildConstants DEF BuildInv, Build!TypeOK
<1>2. PICK k : k = Build!IndexOf(fs, file.path)
  OBVIOUS
<1>3. /\ k # 0 \/ Len(fs) < MaxFiles
      /\ projectFiles' = [projectFiles EXCEPT ![project] =
                            IF k = 0 THEN Append(fs, file) ELSE [fs EXCEPT ![k] = Build!WithId(file, fs[k].id)]]
  BY <1>1, <1>2, Zenon DEF Build!AddFile
<1>4. /\ k = 0 => \A i \in 1 .. Len(fs) : fs[i].path # file.path
      /\ k # 0 => k \in 1 .. Len(fs) /\ fs[k].path = file.path
  BY <1>1, <1>2, FirstWithPath
<1>5. SUFFICES ASSUME NEW gs, gs = IF k = 0 THEN Append(fs, file) ELSE [fs EXCEPT ![k] = Build!WithId(file, fs[k].id)]
               PROVE  gs \in Seq(Artifacts) /\ \E pos \in Nat : Put(fs, gs, pos, file)
  BY <1>3, Zenon
<1>6. CASE k = 0
  <2>1. gs \in Seq(Artifacts) /\ Len(gs) = Len(fs) + 1 /\ gs[Len(fs) + 1] = file
        /\ \A i \in 1 .. Len(fs) : gs[i] = fs[i]
    BY <1>1, <1>5, <1>6
  <2>2. Len(fs) + 1 \in Nat /\ Put(fs, gs, Len(fs) + 1, file)
    BY <1>1, <1>3, <1>4, <1>6, <2>1 DEF Put
  <2> QED BY <2>1, <2>2
<1>7. CASE k # 0
  <2> DEFINE new == Build!WithId(file, fs[k].id)
  <2>1. new \in Artifacts /\ new.id = fs[k].id /\ new.path = file.path /\ new.build = file.build
    <3>1. fs[k] \in Artifacts
      BY <1>1, <1>4, <1>7
    <3> QED BY <3>1 DEF Build!WithId, Artifacts
  <2>2. gs = [fs EXCEPT ![k] = new]
    BY <1>5, <1>7
  <2> HIDE DEF new
  <2>3. gs \in Seq(Artifacts) /\ Len(gs) = Len(fs) /\ gs[k] = new
        /\ \A i \in 1 .. Len(fs) : i # k => gs[i] = fs[i]
    BY <1>1, <1>4, <1>7, <2>1, <2>2
  <2>4. k \in Nat /\ Put(fs, gs, k, file)
    BY <1>1, <1>4, <1>7, <2>1, <2>3 DEF Put
  <2> QED BY <2>3, <2>4
<1> QED BY <1>6, <1>7

-----------------------------------------------------------------------------
\* The instance never changes, and nothing that is defined from it.
LEMMA InstanceStays ==
  ASSUME handlers' = handlers
  PROVE  /\ Build!Projects' = Build!Projects /\ Build!Owner' = Build!Owner /\ Build!Sources' = Build!Sources
         /\ Build!Rearranged' = Build!Rearranged /\ Build!Switches' = Build!Switches
         /\ Artifacts' = Artifacts /\ TaskRecords' = TaskRecords
  BY DEF Build!Projects, Build!Owner, Build!Sources, Build!Rearranged, Build!Switches, Artifacts, TaskRecords

\* A task that goes on to its next wait is otherwise the same task.
LEMMA NextWait ==
  ASSUME NEW t \in TaskRecords, NEW pc \in Waits, NEW u, u = [t EXCEPT !.pc = pc]
  PROVE  /\ u \in TaskRecords /\ u.pc = pc /\ u.kind = t.kind /\ u.source = t.source /\ u.project = t.project
         /\ u.rev = t.rev /\ u.files = t.files /\ u.file = t.file
  BY DEF TaskRecords

\* What a task makes is an artifact, built from what the task captured.
LEMMA MadeIsAnArtifact ==
  ASSUME handlers \in Tasks, NEW t \in TaskRecords
  PROVE  /\ Made(t) \in Artifacts /\ Made(t).build # None
         /\ Made(t).build.source = t.source /\ Made(t).build.text = t.rev.text
         /\ Made(t).path = Output[t.source] /\ Made(t).id = <<t.project, Output[t.source]>>
<1>1. t.source \in Build!Sources /\ t.project \in Build!Projects /\ t.rev \in Revisions
  BY DEF TaskRecords
<1>2. Build!Build(t.source, t.rev) \in [source : Build!Sources, text : Texts, stamp : 0 .. MaxStamp]
      /\ Build!Build(t.source, t.rev).source = t.source /\ Build!Build(t.source, t.rev).text = t.rev.text
  BY <1>1 DEF Build!Build, Revisions
<1>3. Build!Build(t.source, t.rev) # None
  BY <1>2, BuildConstants
<1> QED BY <1>1, <1>2, <1>3 DEF Made, Artifacts, Build!GeneratedId

\* What is known of the files holds as long as they stay.
LEMMA FilesStay ==
  ASSUME BuildInv, handlers' = handlers, projectFiles' = projectFiles
  PROVE  /\ projectFiles' \in [Build!Projects' -> Seq(Artifacts')]
         /\ \A p \in Build!Projects' : Len(projectFiles'[p]) <= MaxFiles
         /\ IdsAreGenerated' /\ PathsDiffer' /\ Build!ArtifactsAtHome'
  BY InstanceStays DEF BuildInv, Build!TypeOK, IdsAreGenerated, PathsDiffer, Build!ArtifactsAtHome

\* A task that ends leaves everything else as it was.
LEMMA TaskEnded ==
  ASSUME BuildInv, UNCHANGED <<handlers, project, source, projectFiles, focused>>, task' = None,
         backend' \in {None, "loading", "ready"}
  PROVE  BuildInv'
<1>1. Build!FocusInProject'
  BY InstanceStays DEF BuildInv, Build!FocusInProject, Build!IdsOf
<1> QED BY <1>1, InstanceStays, FilesStay
        DEF BuildInv, Build!TypeOK, TaskFollowsItsRequest, TaskKeepsItsProject

\* A task that waits for something else.
LEMMA TaskMoved ==
  ASSUME BuildInv, UNCHANGED <<handlers, project, source, projectFiles>>, task # None, task' \in TaskRecords,
         task'.project = task.project /\ task'.source = task.source /\ task'.files = task.files /\ task'.rev = task.rev,
         task'.pc = "add" => task'.file = Made(task),
         task'.pc \in {"analyze", "execute"} =>
           /\ task'.file \in Artifacts /\ task'.file.build # None
           /\ task'.file.build.source = task.source /\ task'.file.build.text = task.rev.text,
         focused' = focused \/ (\E i \in DOMAIN task.files : focused' = task.files[i].id),
         backend' = backend
  PROVE  BuildInv'
<1> USE InstanceStays
<1>1. TaskFollowsItsRequest'
  <2>1. task'.pc = "add" => task'.file = Made(task)'
    BY DEF Made, Build!GeneratedId, Build!Build
  <2>2. task'.project = Build!Owner[task'.source]
    BY DEF BuildInv, TaskFollowsItsRequest
  <2> QED BY <2>1, <2>2 DEF TaskFollowsItsRequest
<1>2. TaskKeepsItsProject'
  BY DEF BuildInv, TaskKeepsItsProject, Build!IdsOf
<1>3. Build!FocusInProject'
  BY DEF BuildInv, Build!FocusInProject, TaskKeepsItsProject, Build!IdsOf
<1>4. Build!TypeOK'
  <2>1. task'.pc \in Waits
    BY DEF TaskRecords
  <2> QED BY <2>1, FilesStay DEF BuildInv, Build!TypeOK, Waits
<1> QED BY <1>1, <1>2, <1>3, <1>4, FilesStay DEF BuildInv

\* A task that is asked for captures the open project.
LEMMA Requests ==
  ASSUME BuildInv, handlers' = handlers, NEW s \in Build!Sources, NEW kind \in Build!Kinds, Build!Request(s, kind)
  PROVE  BuildInv'
<1> USE InstanceStays DEF Build!Request
<1>1. project \in Build!Projects /\ project = Build!Owner[s]
  BY BuildConstants DEF BuildInv
<1>2. source[s] \in Revisions /\ projectFiles[project] \in Seq(Artifacts)
  BY <1>1 DEF BuildInv, Build!TypeOK, Revisions
<1>3. /\ task' \in TaskRecords /\ task'.pc = "backend" /\ task'.project = project /\ task'.source = s
      /\ task'.files = projectFiles[project]
  BY <1>1, <1>2 DEF TaskRecords, Waits
<1>4. TaskFollowsItsRequest'
  BY <1>1, <1>3 DEF TaskFollowsItsRequest
<1>5. TaskKeepsItsProject'
  BY <1>1, <1>3 DEF TaskKeepsItsProject, Build!IdsOf
<1>6. Build!FocusInProject'
  BY DEF BuildInv, Build!FocusInProject, Build!IdsOf
<1>7. Build!TypeOK'
  BY <1>3, FilesStay DEF BuildInv, Build!TypeOK
<1> QED BY <1>4, <1>5, <1>6, <1>7, FilesStay DEF BuildInv

\* The tools: they are loaded and run, and the file is made of what was captured.
LEMMA ToolSteps ==
  ASSUME BuildInv, handlers' = handlers, NEW ok \in BOOLEAN,
         Build!LoadBackend \/ Build!Loaded(ok) \/ Build!Nasm(ok) \/ Build!Link(ok)
  PROVE  BuildInv'
<1>1. task # None => task \in TaskRecords
  BY DEF BuildInv, TaskFollowsItsRequest
<1>2. ASSUME UNCHANGED <<project, source, projectFiles, task, focused>>, backend' \in {None, "loading", "ready"}
      PROVE  BuildInv'
  <2> USE <1>2, InstanceStays
  <2>1. TaskFollowsItsRequest'
    BY DEF BuildInv, TaskFollowsItsRequest, Made, Build!GeneratedId, Build!Build
  <2>2. TaskKeepsItsProject'
    BY DEF BuildInv, TaskKeepsItsProject, Build!IdsOf
  <2>3. Build!FocusInProject'
    BY DEF BuildInv, Build!FocusInProject, Build!IdsOf
  <2> QED BY <2>1, <2>2, <2>3, FilesStay DEF BuildInv, Build!TypeOK
<1>3. CASE Build!LoadBackend
  BY <1>2, <1>3 DEF Build!LoadBackend
<1>4. CASE Build!Loaded(ok)
  BY <1>2, <1>4, TaskEnded DEF Build!Loaded, Build!EndTask
<1>5. CASE Build!Nasm(ok)
  <2>1. CASE ok
    <3>1. "ld" \in Waits
      BY DEF Waits
    <3>2. task # None /\ task' = [task EXCEPT !.pc = "ld"]
      BY <1>5, <2>1 DEF Build!Nasm
    <3> QED BY <1>1, <1>5, <3>1, <3>2, NextWait, TaskMoved DEF Build!Nasm
  <2>2. CASE ~ok
    BY <1>5, <2>2, TaskEnded DEF Build!Nasm, Build!EndTask, BuildInv, Build!TypeOK
  <2> QED BY <2>1, <2>2
<1>6. CASE Build!Link(ok)
  <2>1. CASE ok
    <3>1. "add" \in Waits
      BY DEF Waits
    <3>2. task # None /\ task' = [task EXCEPT !.pc = "add", !.file = Made(task)]
      BY <1>6, <2>1 DEF Build!Link, Made
    <3>3. Made(task) \in Artifacts
      BY <1>1, <3>2, MadeIsAnArtifact DEF BuildInv
    <3>4. PICK f \in Artifacts : f = Made(task)
      BY <3>3
    <3>5. task' = [task EXCEPT !.pc = "add", !.file = f]
      BY <3>2, <3>4
    <3>6. /\ task' \in TaskRecords /\ task'.pc = "add" /\ task'.file = f
          /\ task'.source = task.source /\ task'.project = task.project /\ task'.rev = task.rev
          /\ task'.files = task.files
      BY <1>1, <3>1, <3>2, <3>5 DEF TaskRecords
    <3>7. UNCHANGED <<project, source, projectFiles, backend, focused>>
      BY <1>6 DEF Build!Link
    <3> QED BY <3>2, <3>4, <3>6, <3>7, TaskMoved
  <2>2. CASE ~ok
    BY <1>6, <2>2, TaskEnded DEF Build!Link, Build!EndTask, BuildInv, Build!TypeOK
  <2> QED BY <2>1, <2>2
<1> QED BY <1>3, <1>4, <1>5, <1>6

\* A fresh artifact is reused: it was built from the text that was captured.
LEMMA Begins ==
  ASSUME BuildInv, handlers' = handlers, Build!Begin
  PROVE  BuildInv'
<1> DEFINE fresh == Build!IndexOfFresh(task.files, task.source, task.rev)
<1>1. task # None /\ task \in TaskRecords /\ task.pc = "backend" /\ task.files \in Seq(Artifacts)
  BY DEF BuildInv, TaskFollowsItsRequest, Build!Begin, TaskRecords
<1>2. UNCHANGED <<project, source, projectFiles, backend>>
  BY DEF Build!Begin
<1>3. \/ /\ fresh # 0 /\ task' = [task EXCEPT !.pc = "analyze", !.file = task.files[fresh]]
         /\ focused' = task.files[fresh].id
      \/ task' = [task EXCEPT !.pc = "nasm"] /\ focused' = focused
  BY DEF Build!Begin
<1>4. CASE fresh # 0 /\ task' = [task EXCEPT !.pc = "analyze", !.file = task.files[fresh]]
           /\ focused' = task.files[fresh].id
  <2>1. fresh \in 1 .. Len(task.files) /\ Build!Fresh(task.files[fresh], task.source, task.rev)
    BY <1>1, <1>4, FirstFresh
  <2> HIDE DEF fresh
  <2>2. task.files[fresh] \in Artifacts /\ fresh \in DOMAIN task.files
    BY <1>1, <2>1
  <2>3. /\ task.files[fresh].build # None
        /\ task.files[fresh].build.source = task.source /\ task.files[fresh].build.text = task.rev.text
    BY <2>1 DEF Build!Fresh, Build!Build
  <2>4. "analyze" \in Waits
    BY DEF Waits
  <2>5. /\ task' \in TaskRecords /\ task'.pc = "analyze" /\ task'.file = task.files[fresh]
        /\ task'.source = task.source /\ task'.project = task.project /\ task'.rev = task.rev /\ task'.files = task.files
    <3>1. PICK f \in Artifacts : f = task.files[fresh]
      BY <2>2
    <3>2. task' = [task EXCEPT !.pc = "analyze", !.file = f]
      BY <1>4, <3>1
    <3> QED BY <1>1, <2>4, <3>1, <3>2 DEF TaskRecords
  <2>6. \E i \in DOMAIN task.files : focused' = task.files[i].id
    BY <1>4, <2>2
  <2> QED BY <1>1, <1>2, <2>2, <2>3, <2>5, <2>6, TaskMoved
<1>5. CASE task' = [task EXCEPT !.pc = "nasm"] /\ focused' = focused
  <2>1. "nasm" \in Waits
    BY DEF Waits
  <2>2. /\ task' \in TaskRecords /\ task'.pc = "nasm"
        /\ task'.source = task.source /\ task'.project = task.project /\ task'.rev = task.rev /\ task'.files = task.files
    BY <1>1, <1>5, <2>1, NextWait
  <2> QED BY <1>1, <1>2, <1>5, <2>2, TaskMoved
<1> QED BY <1>3, <1>4, <1>5

\* The analysis and the run keep the file that was built or reused.
LEMMA Finishes ==
  ASSUME BuildInv, handlers' = handlers, NEW ok \in BOOLEAN, Build!Analyze(ok) \/ Build!Execute
  PROVE  BuildInv'
<1>1. /\ task # None /\ task \in TaskRecords
      /\ task.pc \in {"analyze", "execute"} =>
           /\ task.file \in Artifacts /\ task.file.build # None
           /\ task.file.build.source = task.source /\ task.file.build.text = task.rev.text
  BY DEF BuildInv, TaskFollowsItsRequest, Build!Analyze, Build!Execute
<1>2. CASE Build!EndTask
  BY <1>2, TaskEnded DEF Build!EndTask, Build!Analyze, Build!Execute, BuildInv, Build!TypeOK
<1>3. CASE ~Build!EndTask
  <2>1. "execute" \in Waits
    BY DEF Waits
  <2>2. task.pc = "analyze" /\ task' = [task EXCEPT !.pc = "execute"]
        /\ UNCHANGED <<project, source, projectFiles, backend, focused>>
    BY <1>3 DEF Build!Analyze, Build!Execute
  <2> QED BY <1>1, <2>1, <2>2, NextWait, TaskMoved
<1> QED BY <1>2, <1>3


-----------------------------------------------------------------------------
\* What Put leaves: the paths that differed still do, and what is said of every
\* file holds if it holds of the one that was put.
LEMMA PutKeepsPathsApart ==
  ASSUME NEW fs \in Seq(Artifacts), NEW gs \in Seq(Artifacts), NEW pos \in Nat, NEW file, Put(fs, gs, pos, file),
         \A i, j \in DOMAIN fs : fs[i].path = fs[j].path => i = j
  PROVE  \A i, j \in DOMAIN gs : gs[i].path = gs[j].path => i = j
<1>1. DOMAIN fs = 1 .. Len(fs) /\ DOMAIN gs = 1 .. Len(gs) /\ Len(fs) \in Nat
  OBVIOUS
<1>2. ASSUME NEW i \in DOMAIN gs, NEW j \in DOMAIN gs, gs[i].path = gs[j].path, i # pos PROVE i = j
  <2>1. i \in 1 .. Len(fs) /\ gs[i] = fs[i]
    BY <1>1, <1>2 DEF Put
  <2>2. CASE j = pos
    BY <1>1, <1>2, <2>1, <2>2 DEF Put
  <2>3. CASE j # pos
    <3>1. j \in 1 .. Len(fs) /\ gs[j] = fs[j]
      BY <1>1, <1>2, <2>3 DEF Put
    <3> QED BY <1>1, <1>2, <2>1, <3>1
  <2> QED BY <2>2, <2>3
<1> QED BY <1>2

\* A file that is added keeps what is known of the files of every project.
LEMMA ArtifactsAdded ==
  ASSUME BuildInv, handlers' = handlers, project \in Build!Projects, NEW file \in Artifacts, Build!AddFile(file),
         ~Build!Rearranged => \E q \in Build!Projects : file.id = <<q, file.path>> /\ (~Build!Switches => q = project),
         ~Build!Switches /\ file.build # None => Build!Owner[file.build.source] = project
  PROVE  /\ projectFiles' \in [Build!Projects' -> Seq(Artifacts')]
         /\ \A p \in Build!Projects' : Len(projectFiles'[p]) <= MaxFiles
         /\ IdsAreGenerated' /\ PathsDiffer' /\ Build!ArtifactsAtHome'
         /\ \A i \in DOMAIN projectFiles[project] :
              \E j \in DOMAIN projectFiles'[project] : projectFiles'[project][j].id = projectFiles[project][i].id
         /\ ~Build!Rearranged /\ ~Build!Switches =>
              \E j \in DOMAIN projectFiles'[project] : projectFiles'[project][j].id = file.id
<1> USE InstanceStays
<1>0. PICK fs \in Seq(Artifacts) : fs = projectFiles[project]
  BY DEF BuildInv
<1>1. PICK gs \in Seq(Artifacts), pos \in Nat :
        projectFiles' = [projectFiles EXCEPT ![project] = gs] /\ Put(fs, gs, pos, file)
  BY <1>0, AddPuts
<1>2. /\ projectFiles' \in [Build!Projects -> Seq(Artifacts)] /\ projectFiles'[project] = gs
      /\ \A p \in Build!Projects \ {project} : projectFiles'[p] = projectFiles[p]
  BY <1>1 DEF BuildInv
<1>3. Len(gs) <= MaxFiles /\ DOMAIN gs = 1 .. Len(gs) /\ DOMAIN fs = 1 .. Len(fs) /\ Len(fs) \in Nat
  BY <1>1 DEF Put
<1>4. \A p \in Build!Projects' : Len(projectFiles'[p]) <= MaxFiles
  BY <1>2, <1>3 DEF BuildInv, Build!TypeOK
<1>5. PathsDiffer'
  <2> SUFFICES ASSUME ~Build!Rearranged, NEW p \in Build!Projects
               PROVE  \A i, j \in DOMAIN projectFiles'[p] : projectFiles'[p][i].path = projectFiles'[p][j].path => i = j
    BY DEF PathsDiffer
  <2>1. \A i, j \in DOMAIN projectFiles[p] : projectFiles[p][i].path = projectFiles[p][j].path => i = j
    BY DEF BuildInv, PathsDiffer
  <2>2. CASE p = project
    BY <1>0, <1>1, <1>2, <2>1, <2>2, PutKeepsPathsApart
  <2> QED BY <1>2, <2>1, <2>2
<1>6. IdsAreGenerated'
  <2> SUFFICES ASSUME ~Build!Rearranged, NEW p \in Build!Projects, NEW i \in DOMAIN projectFiles'[p]
               PROVE  \E q \in Build!Projects :
                        projectFiles'[p][i].id = <<q, projectFiles'[p][i].path>> /\ (~Build!Switches => q = p)
    BY DEF IdsAreGenerated
  <2>1. \A k \in DOMAIN projectFiles[p] :
          \E q \in Build!Projects : projectFiles[p][k].id = <<q, projectFiles[p][k].path>> /\ (~Build!Switches => q = p)
    BY DEF BuildInv, IdsAreGenerated
  <2>2. CASE p = project
    <3>1. CASE i = pos /\ pos > Len(fs)
      <4>1. gs[i].id = file.id /\ gs[i].path = file.path
        BY <1>1, <3>1 DEF Put
      <4> QED BY <1>2, <2>2, <4>1
    <3>2. CASE i = pos /\ ~(pos > Len(fs))
      <4>1. pos \in DOMAIN fs /\ gs[i].id = fs[pos].id /\ gs[i].path = fs[pos].path
        BY <1>1, <1>3, <3>2 DEF Put
      <4> QED BY <1>0, <1>2, <2>1, <2>2, <4>1
    <3>3. CASE i # pos
      <4>1. i \in DOMAIN fs /\ gs[i] = fs[i]
        BY <1>1, <1>2, <1>3, <2>2, <3>3 DEF Put
      <4> QED BY <1>0, <1>2, <2>1, <2>2, <4>1
    <3> QED BY <3>1, <3>2, <3>3
  <2> QED BY <1>2, <2>1, <2>2
<1>7. Build!ArtifactsAtHome'
  <2> SUFFICES ASSUME ~Build!Switches, NEW p \in Build!Projects, NEW i \in DOMAIN projectFiles'[p],
                      projectFiles'[p][i].build # None
               PROVE  Build!Owner[projectFiles'[p][i].build.source] = p
    BY DEF Build!ArtifactsAtHome
  <2>1. \A k \in DOMAIN projectFiles[p] :
          projectFiles[p][k].build # None => Build!Owner[projectFiles[p][k].build.source] = p
    BY DEF BuildInv, Build!ArtifactsAtHome
  <2>2. CASE p = project /\ i = pos
    <3>1. projectFiles'[p][i].build = file.build
      BY <1>1, <1>2, <2>2 DEF Put
    <3> QED BY <2>2, <3>1
  <2>3. CASE p = project /\ i # pos
    <3>1. i \in DOMAIN fs /\ gs[i] = fs[i]
      BY <1>1, <1>2, <1>3, <2>3 DEF Put
    <3> QED BY <1>0, <1>2, <2>1, <2>3, <3>1
  <2> QED BY <1>2, <2>1, <2>2, <2>3
<1>8. \A i \in DOMAIN fs : i \in DOMAIN gs /\ gs[i].id = fs[i].id
  BY <1>1, <1>3 DEF Put
<1>9. ~Build!Rearranged /\ ~Build!Switches => pos \in DOMAIN gs /\ gs[pos].id = file.id
  <2> SUFFICES ASSUME ~Build!Rearranged, ~Build!Switches PROVE pos \in DOMAIN gs /\ gs[pos].id = file.id
    OBVIOUS
  <2>1. pos \in DOMAIN gs /\ file.id = <<project, file.path>>
    BY <1>1, <1>3 DEF Put
  <2>2. CASE pos > Len(fs)
    BY <1>1, <2>1, <2>2 DEF Put
  <2>3. CASE ~(pos > Len(fs))
    <3>1. pos \in DOMAIN fs /\ gs[pos].id = fs[pos].id /\ fs[pos].path = file.path
      BY <1>1, <1>3, <2>3 DEF Put
    <3>2. fs[pos].id = <<project, fs[pos].path>>
      BY <1>0, <3>1 DEF BuildInv, IdsAreGenerated
    <3> QED BY <2>1, <3>1, <3>2
  <2> QED BY <2>2, <2>3
<1> QED BY <1>0, <1>2, <1>4, <1>5, <1>6, <1>7, <1>8, <1>9

\* The artifact is added to the project that is open, if there is one.
LEMMA Adds ==
  ASSUME BuildInv, handlers' = handlers, Build!Add
  PROVE  BuildInv'
<1> USE InstanceStays
<1>1. /\ task # None /\ task \in TaskRecords /\ task.file = Made(task) /\ task.project = Build!Owner[task.source]
      /\ UNCHANGED <<project, source, backend>> /\ focused' = task.file.id /\ Build!AddFile(task.file)
  BY DEF BuildInv, TaskFollowsItsRequest, Build!Add
<1>2. /\ task.file \in Artifacts /\ task.file.build # None /\ task.file.build.source = task.source
      /\ task.file.build.text = task.rev.text /\ task.file.id = <<task.project, task.file.path>>
      /\ task.project \in Build!Projects
  BY <1>1, MadeIsAnArtifact DEF BuildInv, TaskRecords
<1>3. "analyze" \in Waits
  BY DEF Waits
<1>4. /\ task' \in TaskRecords /\ task'.pc = "analyze" /\ task'.file = task.file /\ task'.source = task.source
      /\ task'.project = task.project /\ task'.rev = task.rev /\ task'.files = task.files
  BY <1>1, <1>3, NextWait DEF Build!Add
<1>5. TaskFollowsItsRequest'
  BY <1>1, <1>2, <1>4 DEF TaskFollowsItsRequest
<1>6. ~Build!Switches => project = task.project
  BY <1>1 DEF BuildInv, TaskKeepsItsProject
<1>7. CASE project = None
  <2>1. projectFiles' = projectFiles /\ Build!Switches
    BY <1>1, <1>2, <1>6, <1>7, BuildConstants DEF Build!AddFile, BuildInv
  <2> QED BY <1>1, <1>4, <1>5, <2>1, FilesStay
          DEF BuildInv, Build!TypeOK, TaskKeepsItsProject, Build!FocusInProject, TaskRecords, Waits
<1>8. CASE project # None
  <2>1. project \in Build!Projects
    BY <1>8 DEF BuildInv, Build!TypeOK
  <2>2. /\ projectFiles' \in [Build!Projects' -> Seq(Artifacts')]
        /\ \A p \in Build!Projects' : Len(projectFiles'[p]) <= MaxFiles
        /\ IdsAreGenerated' /\ PathsDiffer' /\ Build!ArtifactsAtHome'
        /\ \A i \in DOMAIN projectFiles[project] :
             \E j \in DOMAIN projectFiles'[project] : projectFiles'[project][j].id = projectFiles[project][i].id
        /\ ~Build!Rearranged /\ ~Build!Switches =>
             \E j \in DOMAIN projectFiles'[project] : projectFiles'[project][j].id = task.file.id
    BY <1>1, <1>2, <1>6, <2>1, ArtifactsAdded
  <2>3. TaskKeepsItsProject'
    <3>1. \A i \in DOMAIN projectFiles[project] : projectFiles[project][i].id \in Build!IdsOf(project)'
      BY <1>1, <2>2 DEF Build!IdsOf
    <3>2. Build!IdsOf(project) \subseteq Build!IdsOf(project)'
      BY <3>1 DEF Build!IdsOf
    <3> QED BY <1>1, <1>4, <1>6, <3>2 DEF BuildInv, TaskKeepsItsProject
  <2>4. Build!FocusInProject'
    BY <1>1, <2>2 DEF Build!FocusInProject, Build!IdsOf
  <2>5. Build!TypeOK'
    BY <1>1, <1>4, <2>2 DEF BuildInv, Build!TypeOK, TaskRecords, Waits
  <2> QED BY <1>5, <2>2, <2>3, <2>4, <2>5 DEF BuildInv
<1> QED BY <1>7, <1>8

-----------------------------------------------------------------------------
(***************************************************************************)
(* What the user does meanwhile                                            *)
(***************************************************************************)
\* A task does not notice that files and sources change.
LEMMA TaskUnaware ==
  ASSUME BuildInv, handlers' = handlers, task' = task
  PROVE  TaskFollowsItsRequest' /\ (task' # None => task'.pc \in Waits)
  BY InstanceStays
  DEF BuildInv, TaskFollowsItsRequest, TaskRecords, Made, Build!GeneratedId, Build!Build, Build!TypeOK, Waits

\* An edit changes the source, and nothing a task has captured.
LEMMA SourceIsEdited ==
  ASSUME BuildInv, handlers' = handlers, NEW s \in Build!Sources, NEW text \in Texts, NEW stamp \in 0 .. MaxStamp,
         Build!Edit(s, text, stamp)
  PROVE  BuildInv'
<1> USE InstanceStays DEF Build!Edit
<1>1. Build!TypeOK'
  <2>1. [text |-> text, stamp |-> stamp] \in [text : Texts, stamp : 0 .. MaxStamp]
    OBVIOUS
  <2> QED BY <2>1, FilesStay, TaskUnaware DEF BuildInv, Build!TypeOK, Waits
<1>2. TaskKeepsItsProject' /\ Build!FocusInProject'
  BY DEF BuildInv, TaskKeepsItsProject, Build!FocusInProject, Build!IdsOf
<1> QED BY <1>1, <1>2, FilesStay, TaskUnaware DEF BuildInv

\* A deleted file is gone, and is not shown.
LEMMA FileIsDeleted ==
  ASSUME BuildInv, handlers' = handlers, NEW i \in 1 .. MaxFiles, Build!Delete(i)
  PROVE  BuildInv'
<1> USE InstanceStays
<1>1. /\ project \in Build!Projects /\ i \in DOMAIN projectFiles[project] /\ (Build!Rearranged \/ task = None)
      /\ UNCHANGED <<project, source, backend, task>>
      /\ focused' = IF focused = projectFiles[project][i].id THEN None ELSE focused
  BY DEF BuildInv, Build!TypeOK, Build!Delete
<1>2. PICK fs \in Seq(Artifacts) : fs = projectFiles[project]
  BY <1>1 DEF BuildInv
<1>3. PICK gs : gs = Build!RemoveAt(fs, i)
  OBVIOUS
<1>4. i \in 1 .. Len(fs) /\ DOMAIN fs = 1 .. Len(fs) /\ Len(fs) \in Nat /\ Len(fs) <= MaxFiles /\ MaxFiles \in Nat
  BY <1>1, <1>2, BuildConstants DEF BuildInv, Build!TypeOK
<1>5. /\ gs \in Seq(Artifacts) /\ Len(gs) = Len(fs) - 1 /\ DOMAIN gs = 1 .. Len(gs)
      /\ \A j \in 1 .. Len(gs) : gs[j] = fs[IF j < i THEN j ELSE j + 1]
  <2>1. gs \in Seq(Artifacts) /\ Len(gs) = Len(fs) - 1 /\ \A j \in 1 .. Len(gs) : gs[j] = fs[IF j < i THEN j ELSE j + 1]
    <3>1. gs = RemoveAt(fs, i)
      BY <1>3 DEF RemoveAt, Build!RemoveAt
    <3>2. i \in 1 .. Len(fs)
      BY <1>4
    <3> QED BY <3>1, <3>2, Removed, ZenonT(40)
  <2> QED BY <2>1
<1>6. /\ projectFiles' \in [Build!Projects -> Seq(Artifacts)] /\ projectFiles'[project] = gs
      /\ \A p \in Build!Projects \ {project} : projectFiles'[p] = projectFiles[p]
  <2>1. projectFiles' = [projectFiles EXCEPT ![project] = gs]
    BY <1>2, <1>3 DEF Build!Delete
  <2> QED BY <1>1, <1>5, <2>1 DEF BuildInv
<1>7. \A j \in DOMAIN gs : \E k \in DOMAIN fs : gs[j] = fs[k]
  BY <1>4, <1>5, SMTT(40)
<1>8. Build!TypeOK'
  BY <1>1, <1>4, <1>5, <1>6, TaskUnaware DEF BuildInv, Build!TypeOK, Waits
<1>9. IdsAreGenerated'
  <2> SUFFICES ASSUME ~Build!Rearranged, NEW p \in Build!Projects, NEW j \in DOMAIN projectFiles'[p]
               PROVE  \E q \in Build!Projects :
                        projectFiles'[p][j].id = <<q, projectFiles'[p][j].path>> /\ (~Build!Switches => q = p)
    BY DEF IdsAreGenerated
  <2>1. \A k \in DOMAIN projectFiles[p] :
          \E q \in Build!Projects : projectFiles[p][k].id = <<q, projectFiles[p][k].path>> /\ (~Build!Switches => q = p)
    BY DEF BuildInv, IdsAreGenerated
  <2>2. \E k \in DOMAIN projectFiles[p] : projectFiles'[p][j] = projectFiles[p][k]
    BY <1>2, <1>6, <1>7
  <2> QED BY <2>1, <2>2
<1>10. PathsDiffer'
  <2> SUFFICES ASSUME ~Build!Rearranged, NEW p \in Build!Projects, NEW j \in DOMAIN projectFiles'[p],
                      NEW k \in DOMAIN projectFiles'[p], projectFiles'[p][j].path = projectFiles'[p][k].path
               PROVE  j = k
    BY DEF PathsDiffer
  <2>1. \A m, n \in DOMAIN projectFiles[p] : projectFiles[p][m].path = projectFiles[p][n].path => m = n
    BY DEF BuildInv, PathsDiffer
  <2>2. CASE p = project
    <3> DEFINE was(n) == IF n < i THEN n ELSE n + 1
    <3>1. was(j) \in DOMAIN fs /\ was(k) \in DOMAIN fs /\ gs[j] = fs[was(j)] /\ gs[k] = fs[was(k)]
      BY <1>4, <1>5, <1>6, <2>2
    <3>2. was(j) = was(k)
      BY <1>2, <1>6, <2>1, <2>2, <3>1
    <3> QED BY <1>4, <1>5, <1>6, <2>2, <3>2
  <2> QED BY <1>6, <2>1, <2>2
<1>11. Build!ArtifactsAtHome'
  <2> SUFFICES ASSUME ~Build!Switches, NEW p \in Build!Projects, NEW j \in DOMAIN projectFiles'[p],
                      projectFiles'[p][j].build # None
               PROVE  Build!Owner[projectFiles'[p][j].build.source] = p
    BY DEF Build!ArtifactsAtHome
  <2>1. \E k \in DOMAIN projectFiles[p] : projectFiles'[p][j] = projectFiles[p][k]
    BY <1>2, <1>6, <1>7
  <2> QED BY <2>1 DEF BuildInv, Build!ArtifactsAtHome
<1>12. TaskKeepsItsProject'
  BY <1>1 DEF BuildInv, TaskKeepsItsProject
<1>13. Build!FocusInProject'
  <2> SUFFICES ASSUME ~Build!Rearranged, ~Build!Switches, focused' # None PROVE focused' \in Build!IdsOf(project)'
    BY DEF Build!FocusInProject
  <2>1. focused' = focused /\ focused # fs[i].id
    BY <1>1, <1>2
  <2>2. PICK k \in DOMAIN fs : focused = fs[k].id
    BY <1>1, <1>2, <2>1, BuildConstants DEF BuildInv, Build!FocusInProject, Build!IdsOf
  <2>3. \E j \in DOMAIN gs : gs[j] = fs[k]
    <3>1. k # i
      BY <2>1, <2>2
    <3>2. CASE k < i
      <4>1. k \in DOMAIN gs /\ gs[k] = fs[k]
        BY <1>4, <1>5, <2>2, <3>2
      <4> QED BY <4>1
    <3>3. CASE k > i
      <4>1. k - 1 \in DOMAIN gs /\ gs[k - 1] = fs[k]
        BY <1>4, <1>5, <2>2, <3>3
      <4> QED BY <4>1
    <3> QED BY <1>4, <2>2, <3>1, <3>2, <3>3
  <2> QED BY <1>1, <1>6, <2>1, <2>2, <2>3 DEF Build!IdsOf
<1> QED BY <1>1, <1>6, <1>8, <1>9, <1>10, <1>11, <1>12, <1>13, TaskUnaware DEF BuildInv

\* A renamed artifact keeps its id; only setups that rearrange do that.
LEMMA FileIsRenamed ==
  ASSUME BuildInv, handlers' = handlers, NEW i \in 1 .. MaxFiles, Build!Rename(i)
  PROVE  BuildInv'
<1> USE InstanceStays
<1>1. /\ project \in Build!Projects /\ i \in DOMAIN projectFiles[project] /\ Build!Rearranged
      /\ UNCHANGED <<project, source, backend, task, focused>>
  BY DEF BuildInv, Build!TypeOK, Build!Rename
<1>2. PICK fs \in Seq(Artifacts) : fs = projectFiles[project]
  BY <1>1 DEF BuildInv
<1>3. PICK new : new = [fs[i] EXCEPT !.path = None]
  OBVIOUS
<1>4. new \in Artifacts /\ new.build = fs[i].build
  <2>1. fs[i] \in Artifacts
    BY <1>1, <1>2
  <2> QED BY <1>3, <2>1 DEF Artifacts
<1>5. PICK gs : gs = [fs EXCEPT ![i] = new]
  OBVIOUS
<1>6. gs \in Seq(Artifacts) /\ Len(gs) = Len(fs) /\ gs[i] = new /\ \A j \in DOMAIN gs \ {i} : gs[j] = fs[j]
  BY <1>1, <1>2, <1>4, <1>5
<1>7. projectFiles' = [projectFiles EXCEPT ![project] = gs]
  BY <1>1, <1>2, <1>3, <1>5, Zenon DEF Build!Rename
<1>8. /\ projectFiles' \in [Build!Projects -> Seq(Artifacts)] /\ projectFiles'[project] = gs
      /\ \A p \in Build!Projects \ {project} : projectFiles'[p] = projectFiles[p]
  BY <1>1, <1>6, <1>7 DEF BuildInv
<1>9. Build!TypeOK'
  BY <1>1, <1>2, <1>6, <1>8, TaskUnaware DEF BuildInv, Build!TypeOK, Waits
<1>10. IdsAreGenerated' /\ PathsDiffer' /\ Build!FocusInProject'
  BY <1>1 DEF IdsAreGenerated, PathsDiffer, Build!FocusInProject
<1>11. TaskKeepsItsProject'
  BY <1>1 DEF BuildInv, TaskKeepsItsProject
<1>12. Build!ArtifactsAtHome'
  <2> SUFFICES ASSUME ~Build!Switches, NEW p \in Build!Projects, NEW j \in DOMAIN projectFiles'[p],
                      projectFiles'[p][j].build # None
               PROVE  Build!Owner[projectFiles'[p][j].build.source] = p
    BY DEF Build!ArtifactsAtHome
  <2>1. j \in DOMAIN projectFiles[p] /\ projectFiles'[p][j].build = projectFiles[p][j].build
    BY <1>2, <1>4, <1>6, <1>8
  <2> QED BY <2>1 DEF BuildInv, Build!ArtifactsAtHome
<1> QED BY <1>1, <1>8, <1>9, <1>10, <1>11, <1>12, TaskUnaware DEF BuildInv

\* A file from outside takes the path, or the contents of the file there.
LEMMA FileIsImported ==
  ASSUME BuildInv, handlers' = handlers, NEW s \in Build!Sources, Build!Import(s)
  PROVE  BuildInv'
<1> USE InstanceStays
<1> DEFINE file == [id |-> s, path |-> Output[s], build |-> None]
<1>1. project = Build!Owner[s] /\ project \in Build!Projects /\ Build!Rearranged /\ Build!AddFile(file)
      /\ UNCHANGED <<project, source, backend, task, focused>>
  BY BuildConstants DEF BuildInv, Build!Import
<1>2. file \in Artifacts /\ file.build = None
  BY DEF Artifacts
<1> HIDE DEF file
<1>3. /\ projectFiles' \in [Build!Projects' -> Seq(Artifacts')]
      /\ \A p \in Build!Projects' : Len(projectFiles'[p]) <= MaxFiles
      /\ IdsAreGenerated' /\ PathsDiffer' /\ Build!ArtifactsAtHome'
  BY <1>1, <1>2, ArtifactsAdded
<1>4. TaskKeepsItsProject' /\ Build!FocusInProject'
  BY <1>1 DEF BuildInv, TaskKeepsItsProject, Build!FocusInProject
<1>5. Build!TypeOK'
  BY <1>1, <1>3, TaskUnaware DEF BuildInv, Build!TypeOK, Waits
<1> QED BY <1>1, <1>3, <1>4, <1>5, TaskUnaware DEF BuildInv

\* Another project, or none, is opened while a task waits.
LEMMA ProjectIsSwitched ==
  ASSUME BuildInv, handlers' = handlers, NEW p \in Build!Projects \cup {None}, Build!SwitchProject(p)
  PROVE  BuildInv'
<1> USE InstanceStays DEF Build!SwitchProject
<1>1. TaskKeepsItsProject' /\ Build!FocusInProject'
  BY DEF BuildInv, TaskKeepsItsProject, Build!FocusInProject
<1>2. Build!TypeOK'
  BY FilesStay, TaskUnaware DEF BuildInv, Build!TypeOK, Waits
<1> QED BY <1>1, <1>2, FilesStay, TaskUnaware DEF BuildInv

\* Nothing is built and no task is under way.
LEMMA BuildStarts == ASSUME Build!Init PROVE BuildInv
<1> USE DEF Build!Init
<1>1. MaxStamp \in Nat /\ MaxFiles \in Nat
  BY BuildConstants
<1>2. Build!TypeOK
  BY <1>1 DEF Build!TypeOK
<1>3. projectFiles \in [Build!Projects -> Seq(Artifacts)]
  OBVIOUS
<1>4. TaskFollowsItsRequest /\ TaskKeepsItsProject
  BY DEF TaskFollowsItsRequest, TaskKeepsItsProject
<1>5. IdsAreGenerated /\ PathsDiffer /\ Build!ArtifactsAtHome /\ Build!FocusInProject
  BY DEF IdsAreGenerated, PathsDiffer, Build!ArtifactsAtHome, Build!FocusInProject
<1> QED BY <1>2, <1>3, <1>4, <1>5 DEF BuildInv

\* Whatever the task, the tools and the user do.
LEMMA BuildMoves == ASSUME BuildInv, Build!Next PROVE BuildInv'
<1>1. handlers' = handlers
  BY DEF Build!Next
<1>2. CASE Build!Step
  BY <1>1, <1>2, ToolSteps, Begins, Adds, Finishes DEF Build!Step
<1>3. CASE \E s \in Build!Sources, kind \in Build!Kinds : Build!Request(s, kind)
  BY <1>1, <1>3, Requests
<1>4. CASE \E s \in Build!Sources, text \in Texts, stamp \in 0 .. MaxStamp : Build!Edit(s, text, stamp)
  BY <1>1, <1>4, SourceIsEdited
<1>5. CASE \E i \in 1 .. MaxFiles : Build!Delete(i) \/ Build!Rename(i)
  BY <1>1, <1>5, FileIsDeleted, FileIsRenamed
<1>6. CASE \E s \in Build!Sources : Build!Import(s)
  BY <1>1, <1>6, FileIsImported
<1>7. CASE \E p \in Build!Projects \cup {None} : Build!SwitchProject(p)
  BY <1>1, <1>7, ProjectIsSwitched
<1> QED BY <1>2, <1>3, <1>4, <1>5, <1>6, <1>7 DEF Build!Next

\* What moves another part leaves the builds alone.
LEMMA BuildRests == ASSUME BuildInv, UNCHANGED buildVars PROVE BuildInv'
<1> USE InstanceStays DEF buildVars
<1>1. TaskKeepsItsProject' /\ Build!FocusInProject'
  BY DEF BuildInv, TaskKeepsItsProject, Build!FocusInProject, Build!IdsOf
<1>2. Build!TypeOK'
  BY FilesStay, TaskUnaware DEF BuildInv, Build!TypeOK, Waits
<1> QED BY <1>1, <1>2, FilesStay, TaskUnaware DEF BuildInv

\* A task works on what it captured, whatever happens to the project meanwhile.
THEOREM BuildInvariance == Together => []BuildInv
<1>1. OnePart => BuildInv
  BY BuildStarts DEF OnePart
<1>2. BuildInv /\ [Works]_all => BuildInv'
  BY BuildMoves, BuildRests DEF Works, all
<1> QED BY <1>1, <1>2, PTL DEF Together

\* What is executed was assembled from the text there was when the user asked, in
\* the project of its source (assemblyExecutionArtifact, App).
THEOREM BuildsExecuteWhatWasThere == Workbench => []BuildsAreSound
<1>1. BuildInv => BuildsAreSound
  <2> SUFFICES ASSUME BuildInv PROVE BuildsAreSound
    OBVIOUS
  <2>1. Build!ExecutesWhatWasThere
    BY DEF BuildInv, TaskFollowsItsRequest, Build!ExecutesWhatWasThere
  <2>2. Build!ArtifactsDistinct
    <3> SUFFICES ASSUME ~Build!Rearranged, NEW p \in Build!Projects, NEW i \in DOMAIN projectFiles[p],
                        NEW j \in DOMAIN projectFiles[p],
                        projectFiles[p][i].id = projectFiles[p][j].id
                 PROVE  projectFiles[p][i].path = projectFiles[p][j].path
      BY DEF BuildInv, PathsDiffer, Build!ArtifactsDistinct
    <3>1. PICK q : projectFiles[p][i].id = <<q, projectFiles[p][i].path>>
      BY DEF BuildInv, IdsAreGenerated
    <3>2. PICK r : projectFiles[p][j].id = <<r, projectFiles[p][j].path>>
      BY DEF BuildInv, IdsAreGenerated
    <3>3. <<q, projectFiles[p][i].path>> = <<r, projectFiles[p][j].path>>
      BY <3>1, <3>2
    <3> QED BY <3>3
  <2> QED BY <2>1, <2>2 DEF BuildInv, BuildsAreSound
<1> QED BY <1>1, BuildInvariance, PTL DEF Workbench

\* Of a task under way the request is never another one's.
THEOREM TasksAreOneAtATime == Workbench => Build!OneTask
<1>1. BuildInv /\ [Works]_all => [task # None /\ task' # None => task'.rev = task.rev /\ task'.kind = task.kind]_(Build!vars)
  <2> SUFFICES ASSUME BuildInv, Build!Next, task # None, task' # None
               PROVE  task'.rev = task.rev /\ task'.kind = task.kind
    BY DEF Works, all, buildVars, Build!vars
  <2>1. task \in TaskRecords
    BY DEF BuildInv, TaskFollowsItsRequest
  <2>2. CASE task' = task
    BY <2>2
  <2>3. CASE \E pc \in Waits : task' = [task EXCEPT !.pc = pc]
    BY <2>1, <2>3, NextWait
  <2>4. CASE \E pc \in Waits : \E f : task' = [task EXCEPT !.pc = pc, !.file = f]
    BY <2>1, <2>4 DEF TaskRecords
  <2> QED BY <2>2, <2>3, <2>4
          DEF Build!Next, Build!Step, Build!LoadBackend, Build!Begin, Build!Add, Build!Execute, Build!Loaded,
              Build!Nasm, Build!Link, Build!Analyze, Build!Request, Build!Edit, Build!Delete, Build!Rename,
              Build!Import, Build!SwitchProject, Build!EndTask, Waits
<1> QED BY <1>1, BuildInvariance, PTL DEF Workbench, Together, Build!OneTask

-----------------------------------------------------------------------------
(***************************************************************************)
(* The tool: what it wrote, what was kept of it and what was delivered     *)
(***************************************************************************)
\* What the promise can be settled with.
Results ==
  {None, Tool!Rejected}
    \cup [ok : {TRUE}, exitCode : Tool!Codes, files : Sizes \cup {None}, output : Nat]

\* The promise is pending until the process is stopped, and until then the guest
\* was preempted within the policy.
PendingWhileAlive ==
  phase # "stopped" => result = None /\ preemptions <= MaxPreemptions

\* Nothing is kept that was not written, and what was dropped is remembered.
NothingDroppedUnseen == output <= written /\ (~overflowed => output = written)

\* What is delivered is what there was when the guest ended, within the policy.
DeliversWhatThereIs ==
  result # None /\ result.ok =>
    /\ result.output = output /\ result.files = captured
    /\ ~overflowed /\ clock <= MaxRuntime /\ preemptions <= MaxPreemptions
    /\ captured = None \/ captured <= MaxCaptured

ToolInv ==
  /\ Tool!TypeOK
  /\ result \in Results
  /\ PendingWhileAlive
  /\ NothingDroppedUnseen
  /\ DeliversWhatThereIs

\* The policy is made of numbers.
LEMMA ToolConstants ==
  /\ MaxRuntime \in Nat /\ MaxOutput \in Nat /\ MaxPreemptions \in Nat /\ MaxCaptured \in Nat
  /\ MaxClock \in Nat /\ MaxWrites \in Nat /\ Sizes \subseteq Nat
  BY WorkbenchAssumption DEF WorkbenchAssumption, Tool!ToolAssumption

\* A tool starts with nothing written and nothing settled.
LEMMA ToolStarts == ASSUME Tool!Init PROVE ToolInv
<1> USE DEF Tool!Init
<1>1. Tool!TypeOK
  <2>1. overflowed \in BOOLEAN
    OBVIOUS
  <2>2. output \in 0 .. MaxOutput /\ written \in 0 .. MaxWrites /\ preemptions \in 0 .. MaxPreemptions + 1 /\ clock \in 0 .. MaxClock
    BY ToolConstants
  <2> QED BY <2>1, <2>2 DEF Tool!TypeOK, Tool!settled
<1>2. PendingWhileAlive /\ NothingDroppedUnseen /\ DeliversWhatThereIs
  BY ToolConstants DEF PendingWhileAlive, NothingDroppedUnseen, DeliversWhatThereIs
<1> QED BY <1>1, <1>2 DEF ToolInv, Results

\* A promise that is settled stays as it is.
LEMMA SettledOnce ==
  ASSUME result # None, NEW code, Tool!Finish(code) \/ Tool!Fail
  PROVE  result' = result
  BY DEF Tool!Finish, Tool!Fail, Tool!settled

\* A process that is given up is rejected.
LEMMA GivingUp ==
  ASSUME ToolInv, phase # "stopped", phase' = "stopped", Tool!Fail,
         UNCHANGED <<output, written, overflowed, clock, captured>>,
         preemptions' \in 0 .. MaxPreemptions + 1
  PROVE  ToolInv'
  BY DEF ToolInv, Tool!TypeOK, Tool!settled, Results, PendingWhileAlive, NothingDroppedUnseen, DeliversWhatThereIs,
         Tool!Fail, Tool!Rejected

\* A process that goes on keeps its promise pending.
LEMMA GoingOn ==
  ASSUME ToolInv, phase # "stopped", phase' \in {"loading", "mounting", "running", "preempted"},
         UNCHANGED <<output, written, overflowed, clock, captured, result>>,
         preemptions' \in 0 .. MaxPreemptions
  PROVE  ToolInv'
  BY ToolConstants
  DEF ToolInv, Tool!TypeOK, Tool!settled, Results, PendingWhileAlive,
      NothingDroppedUnseen, DeliversWhatThereIs

\* A guest that exits is answered with what it left, if that kept to the policy.
LEMMA Exiting ==
  ASSUME ToolInv, NEW code \in Tool!Codes, Tool!Exit(code)
  PROVE  ToolInv'
<1> USE DEF Tool!Exit
<1>1. result = None /\ preemptions <= MaxPreemptions
  BY DEF ToolInv, PendingWhileAlive
<1>2. CASE Tool!Violates(preemptions) \/ (captured # None /\ captured > MaxCaptured)
  <2>1. Tool!Fail
    BY <1>1, <1>2 DEF Tool!Finish, Tool!settled
  <2> QED BY <2>1, GivingUp DEF ToolInv, Tool!TypeOK
<1>3. CASE ~(Tool!Violates(preemptions) \/ (captured # None /\ captured > MaxCaptured))
  <2>1. result' = [ok |-> TRUE, exitCode |-> code, files |-> captured, output |-> output]
    BY <1>1, <1>3 DEF Tool!Finish, Tool!settled, Tool!Completed
  <2>2. ~overflowed /\ clock <= MaxRuntime /\ (captured = None \/ captured <= MaxCaptured)
    BY <1>3, ToolConstants
    DEF Tool!Violates, ToolInv, Tool!TypeOK
  <2>3. result' \in Results /\ result'.ok = TRUE /\ result'.output = output /\ result'.files = captured
    BY <2>1, ToolConstants DEF Results, ToolInv, Tool!TypeOK
  <2>4. DeliversWhatThereIs'
    BY <1>1, <2>2, <2>3 DEF DeliversWhatThereIs
  <2> QED BY <2>3, <2>4 DEF ToolInv, Tool!TypeOK, Tool!settled, PendingWhileAlive, NothingDroppedUnseen
<1> QED BY <1>2, <1>3

\* Whatever the runtime, the guest and its late callbacks do.
LEMMA ToolMoves == ASSUME ToolInv, Tool!Next PROVE ToolInv'
<1>1. ASSUME NEW valid \in BOOLEAN, NEW mounted \in Sizes, Tool!Run(valid, mounted) PROVE ToolInv'
  BY <1>1, GivingUp, GoingOn DEF Tool!Run, ToolInv, Tool!TypeOK, PendingWhileAlive
<1>2. ASSUME NEW ok \in BOOLEAN, Tool!LoadRuntime(ok) \/ Tool!Mount(ok) \/ Tool!Resume(ok) PROVE ToolInv'
  BY <1>2, GivingUp, GoingOn DEF Tool!LoadRuntime, Tool!Mount, Tool!Resume, ToolInv, Tool!TypeOK, PendingWhileAlive
<1>3. CASE Tool!Write
  <2>1. result = None /\ result' = None /\ PendingWhileAlive'
    BY <1>3 DEF Tool!Write, ToolInv, PendingWhileAlive
  <2>2. Tool!TypeOK'
    <3>1. overflowed' \in BOOLEAN
      BY <1>3 DEF Tool!Write, ToolInv, Tool!TypeOK
    <3>2. output' \in 0 .. MaxOutput /\ written' \in 0 .. MaxWrites
      BY <1>3, ToolConstants DEF Tool!Write, ToolInv, Tool!TypeOK
    <3> QED BY <1>3, <2>1, <3>1, <3>2 DEF Tool!Write, ToolInv, Tool!TypeOK, Tool!settled
  <2>3. NothingDroppedUnseen'
    BY <1>3, ToolConstants DEF Tool!Write, ToolInv, Tool!TypeOK, NothingDroppedUnseen
  <2> QED BY <2>1, <2>2, <2>3 DEF ToolInv, Results, DeliversWhatThereIs
<1>4. CASE Tool!Preempt
  <2>1. preemptions + 1 \in 0 .. MaxPreemptions + 1
    BY <1>4, ToolConstants
    DEF Tool!Preempt, ToolInv, Tool!TypeOK, PendingWhileAlive
  <2>2. CASE Tool!Violates(preemptions + 1)
    BY <1>4, <2>1, <2>2, GivingUp DEF Tool!Preempt
  <2>3. CASE ~Tool!Violates(preemptions + 1)
    BY <1>4, <2>1, <2>3, GoingOn, ToolConstants
    DEF Tool!Preempt, Tool!Violates
  <2> QED BY <2>2, <2>3
<1>5. CASE Tool!Trap
  BY <1>5, GivingUp DEF Tool!Trap, ToolInv, Tool!TypeOK
<1>6. CASE Tool!Tick
  <2>1. result = None /\ result' = None /\ PendingWhileAlive'
    BY <1>6 DEF Tool!Tick, ToolInv, PendingWhileAlive
  <2>2. Tool!TypeOK'
    BY <1>6, <2>1, ToolConstants DEF Tool!Tick, ToolInv, Tool!TypeOK, Tool!settled
  <2> QED BY <1>6, <2>1, <2>2 DEF Tool!Tick, ToolInv, Results, NothingDroppedUnseen, DeliversWhatThereIs
<1>7. ASSUME NEW size \in Sizes, Tool!Produce(size) PROVE ToolInv'
  BY <1>7
  DEF Tool!Produce, ToolInv, Tool!TypeOK, Tool!settled, Results,
      PendingWhileAlive, NothingDroppedUnseen, DeliversWhatThereIs
<1>8. ASSUME NEW code \in Tool!Codes, Tool!LateCallback(code) PROVE ToolInv'
  BY <1>8, SettledOnce
  DEF Tool!LateCallback, ToolInv, Tool!TypeOK, Tool!settled, Results,
      PendingWhileAlive, NothingDroppedUnseen, DeliversWhatThereIs
<1> QED BY <1>1, <1>2, <1>3, <1>4, <1>5, <1>6, <1>7, <1>8, Exiting DEF Tool!Next

\* What moves another part leaves the tool alone.
LEMMA ToolRests == ASSUME ToolInv, UNCHANGED toolVars PROVE ToolInv'
  BY DEF toolVars, ToolInv, Tool!TypeOK, Tool!settled, Results, PendingWhileAlive, NothingDroppedUnseen,
         DeliversWhatThereIs

\* A tool's results hold what it wrote and keep to the policy, whatever calls
\* back and whenever.
THEOREM ToolInvariance == Together => []ToolInv
<1>1. OnePart => ToolInv
  BY ToolStarts DEF OnePart
<1>2. ToolInv /\ [Works]_all => ToolInv'
  BY ToolMoves, ToolRests DEF Works, all
<1> QED BY <1>1, <1>2, PTL DEF Together

\* No result that is delivered lacks a byte the tool wrote, or was made outside
\* the policy (blinkToolProcessRunner).
THEOREM ToolsDeliverWhole == Workbench => []ResultsAreWhole
<1>1. ToolInv => ResultsAreWhole
  <2> SUFFICES ASSUME ToolInv PROVE ResultsAreWhole
    OBVIOUS
  <2>1. Tool!ResultIsComplete
    BY DEF ToolInv, NothingDroppedUnseen, DeliversWhatThereIs, Tool!ResultIsComplete, Tool!settled
  <2>2. Tool!ResultWithinPolicy
    BY DEF ToolInv, Tool!TypeOK, DeliversWhatThereIs, Tool!ResultWithinPolicy, Tool!settled
  <2> QED BY <2>1, <2>2 DEF ToolInv, ResultsAreWhole
<1> QED BY <1>1, ToolInvariance, PTL DEF Workbench

\* A promise that is settled stays settled with the same answer, and nothing
\* resumes the guest.
THEOREM ToolsAreAnsweredOnce == Workbench => Tool!SettledForGood
<1>1. ToolInv /\ [Works]_all => [Tool!settled => UNCHANGED <<result, phase, output>>]_(Tool!vars)
  <2> SUFFICES ASSUME ToolInv, Tool!Next, result # None
               PROVE  UNCHANGED <<result, phase, output>>
    BY DEF Works, all, toolVars, Tool!vars, Tool!settled
  <2>1. phase = "stopped"
    BY DEF ToolInv, PendingWhileAlive
  <2>2. PICK code \in Tool!Codes : Tool!LateCallback(code)
    BY <2>1 DEF Tool!Next, Tool!Run, Tool!LoadRuntime, Tool!Mount, Tool!Resume, Tool!Write, Tool!Preempt, Tool!Trap,
                Tool!Tick, Tool!Produce, Tool!Exit
  <2> QED BY <2>2, SettledOnce DEF Tool!LateCallback
<1> QED BY <1>1, ToolInvariance, PTL DEF Workbench, Together, Tool!SettledForGood

-----------------------------------------------------------------------------
(***************************************************************************)
(* The workspace, in the workbench, and the commands of all three          *)
(***************************************************************************)
\* The invariant of the workspace holds whichever part moves.
THEOREM WorkspaceHolds == Together => [](WorkspaceInv /\ ImportsCounted)
<1>1. OnePart => WorkspaceInv /\ ImportsCounted
  BY WorkspaceStarts, ImportsStartCounted DEF OnePart
<1>2. WorkspaceInv /\ ImportsCounted /\ [Works]_all => WorkspaceInv' /\ ImportsCounted'
  <2> SUFFICES ASSUME WorkspaceInv, ImportsCounted, [Works]_all PROVE WorkspaceInv' /\ ImportsCounted'
    OBVIOUS
  <2>1. [Next]_vars
    BY DEF Works, all
  <2>2. setup \in Setups
    BY DEF WorkspaceInv
  <2> QED BY <2>1, <2>2, WorkspaceMoves, WorkspaceRests, ImportsStayCounted
<1> QED BY <1>1, <1>2, PTL DEF Together

\* Files, tabs, groups and focus fit together after any command of the explorer
\* and the editor (useProjectController, workspaceReducer).
THEOREM WorkspaceStaysSound == Workbench => []WorkspaceIsSound
<1>1. WorkspaceInv /\ ImportsCounted => WorkspaceIsSound
  BY WorkspaceMeans DEF WorkspaceIsSound
<1> QED BY <1>1, WorkspaceHolds, PTL DEF Workbench

\* A rename loses no file, a task is not replaced by another one, and a tool that
\* has answered stays silent.
THEOREM CommandsStayWhole == Workbench => CommandsAreWhole
<1>1. WorkspaceInv /\ [Works]_all =>
        [Ids(files) \subseteq Ids(files') \/
         \A f \in ToSet(files) : f.id \in Ids(files') => f \in ToSet(files')]_vars
  BY WorkspaceMoves DEF Works, all, NothingLost
<1>2. Workbench => RenamesLoseNothing
  BY <1>1, WorkspaceHolds, PTL DEF Workbench, Together, RenamesLoseNothing
<1> QED BY <1>2, TasksAreOneAtATime, ToolsAreAnsweredOnce, PTL DEF CommandsAreWhole
=============================================================================
