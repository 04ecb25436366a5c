----------------------------- MODULE RuntimeProofs -----------------------------
(***************************************************************************)
(* Proofs about what is decided before a Blink run, for every set of       *)
(* libraries, registries, images and limits.                               *)
(*                                                                         *)
(* The closure: a name that is requested is in the program, or needed by a *)
(* module that was found before; with that order the preview, which walks  *)
(* by itself, is shown to have asked for whatever the launch asks for.     *)
(*                                                                         *)
(* The sweeps: a scan stands at an address the sweep without chunks comes  *)
(* to, and has found and counted exactly what lies before it.              *)
(*                                                                         *)
(* The places: what lines show and what a crash reads in an image are its  *)
(* bytes; as images share no memory and biases are true, an answer that is *)
(* the only one is the image.                                              *)
(***************************************************************************)
EXTENDS RuntimeClosure, IsaAudit, RuntimeImages, FiniteSetTheorems, SequenceTheorems, WellFoundedInduction, TLAPS

Kinds == {"module", "permission", "unreadable", "absent"}
Modules == [requested : Names, name : Names, image : ElfImages]
Answers == [requested : Names, kind : Kinds, image : ElfImages \cup {None}]

\* What a launch takes for trouble.
Troubles == {"permission", "unreadable"}

Types ==
  /\ store \in Worlds \cup Changing /\ program \in Programs
  /\ pending \in Seq(Names) /\ modules \in Seq(Modules)
  /\ DOMAIN identity \subseteq Names /\ identity = [n \in DOMAIN identity |-> identity[n]]
  /\ totalBytes \in Nat /\ changes \in Nat
  /\ preview.entries \in Worlds /\ preview.pending \in Seq(Names) /\ preview.results \in Seq(Answers)
  /\ preview = [entries |-> preview.entries, pending |-> preview.pending, results |-> preview.results,
                over |-> preview.over]

\* Whatever is needed was looked up or will be.
Complete ==
  /\ DOMAIN identity \cup ToSet(pending) = ToSet(Requested(program)) \cup Needed
  /\ Prepared => pending = <<>>

\* Each module was requested by the program or by a module before it.
Ordered ==
  \A i \in DOMAIN modules :
    \/ modules[i].requested \in ToSet(Requested(program))
    \/ \E j \in 1 .. i - 1 : modules[i].requested \in ToSet(modules[j].image.needed)

\* While nobody changes the registry each module is what it answers.
Answered ==
  changes = 0 =>
    /\ store = preview.entries
    /\ \A i \in DOMAIN modules :
         LET m == Resolve(store, modules[i].requested, Troubles)
         IN m.kind = "module" /\ m.image = modules[i].image

\* A launch fails for one of three reasons.
FailsForAReason ==
  phase = "failed" =>
    /\ pending # <<>>
    /\ \/ Len(modules) >= MaxModules
       \/ Resolve(store, Head(pending), Troubles).kind # "module"
       \/ TooBig(Resolve(store, Head(pending), Troubles))

\* The names the preview asked for or will.
Seen == {preview.results[i].requested : i \in DOMAIN preview.results}
Asked == Seen \cup ToSet(preview.pending)

\* The preview shows what its registry answers and leaves out nothing that is needed.
Previewed ==
  /\ ToSet(Requested(program)) \subseteq Asked
  /\ \A k \in DOMAIN preview.results :
       LET r == preview.results[k]
           m == Resolve(preview.entries, r.requested, {"permission"})
       IN /\ r.kind = m.kind /\ r.image = m.image
          /\ r.kind = "module" => ToSet(r.image.needed) \subseteq Asked

\* A module is a file of a registry the launch may read, asked for by one of its names.
FileOf(m) == [name |-> m.name, image |-> m.image]
FromRegistry ==
  \A i \in DOMAIN modules :
    /\ \E w \in ReadFrom : FileOf(modules[i]) \in FilesHeld(w)
    /\ modules[i].requested \in FileNames(modules[i])

\* What was launched had its versions checked.
Checked == phase = "launched" => \A r \in Requirements : Satisfied(r)

ClosureInv ==
  /\ TypeOK /\ Types /\ Complete /\ Ordered /\ Answered /\ FailsForAReason /\ Previewed /\ FromRegistry /\ Checked

-----------------------------------------------------------------------------
(***************************************************************************)
(* The least number of a set, and the needed names that are added          *)
(***************************************************************************)
\* The pairs of numbers in their order.
Less == {p \in Nat \X Nat : p[1] < p[2]}

\* A set of numbers has a least one.
LEMMA LeastNumber ==
  ASSUME NEW S, S \subseteq Nat, S # {}
  PROVE  Lowest(S) \in S /\ \A n \in S : Lowest(S) <= n
<1>1. IsWellFoundedOn(Less, Nat)
  BY NatLessThanWellFounded, Zenon DEF OpToRel, Less
<1>2. PICK m \in S : \A n \in S : <<n, m>> \notin Less
  BY <1>1, WFMin
<1>3. ASSUME NEW n \in S PROVE m <= n
  <2>1. n < m => <<n, m>> \in Less
    BY DEF Less
  <2> QED BY <1>2, <2>1
<1> QED BY <1>3, Zenon DEF Lowest

\* r is q with e at its end.
Appended(r, q, e) ==
  /\ Len(r) = Len(q) + 1 /\ r[Len(q) + 1] = e /\ \A i \in 1 .. Len(q) : r[i] = q[i]
  /\ DOMAIN q = 1 .. Len(q) /\ DOMAIN r = (1 .. Len(q)) \cup {Len(q) + 1} /\ Len(q) \in Nat
  /\ ToSet(r) = ToSet(q) \cup {e}

\* Append, by its places and by its elements.
LEMMA AppendedTo ==
  ASSUME NEW T, NEW q \in Seq(T), NEW e \in T
  PROVE  Append(q, e) \in Seq(T) /\ Appended(Append(q, e), q, e)
<1>0. Append(q, e) \in Seq(T)
  OBVIOUS
<1>1. PICK r \in Seq(T) : r = Append(q, e)
  BY <1>0, Zenon
<1>2. Len(q) \in Nat /\ Len(r) = Len(q) + 1 /\ r[Len(q) + 1] = e /\ \A i \in 1 .. Len(q) : r[i] = q[i]
  BY <1>1
<1>3. DOMAIN r = DOMAIN q \cup {Len(q) + 1} /\ DOMAIN q = 1 .. Len(q)
  BY <1>1, <1>2
<1>4. ToSet(r) = ToSet(q) \cup {e}
  BY <1>2, <1>3 DEF ToSet
<1> QED BY <1>0, <1>1, <1>2, <1>3, <1>4 DEF Appended

\* A queue is its head and its tail.
LEMMA HeadAndTail ==
  ASSUME NEW T, NEW q \in Seq(T), q # <<>>
  PROVE  Head(q) \in T /\ Tail(q) \in Seq(T) /\ ToSet(q) = {Head(q)} \cup ToSet(Tail(q))
<1>1. Len(q) \in Nat /\ Len(q) >= 1 /\ DOMAIN q = 1 .. Len(q) /\ Head(q) = q[1]
  OBVIOUS
<1>0. Tail(q) \in Seq(T)
  OBVIOUS
<1>2. PICK t \in Seq(T) : t = Tail(q)
  BY <1>0, Zenon
<1>3. Len(t) = Len(q) - 1 /\ DOMAIN t = 1 .. Len(t) /\ \A i \in 1 .. Len(t) : t[i] = q[i + 1]
  BY <1>1, <1>2
<1>4. \A i \in 1 .. Len(q) : i = 1 \/ (i - 1 \in 1 .. Len(t) /\ q[i] = t[i - 1])
  BY <1>1, <1>3
<1>5. \A i \in 1 .. Len(t) : i + 1 \in 1 .. Len(q) /\ t[i] = q[i + 1]
  BY <1>1, <1>3
<1>6. ToSet(q) = {q[1]} \cup ToSet(t)
  <2>1. ToSet(q) = {q[i] : i \in 1 .. Len(q)} /\ ToSet(t) = {t[i] : i \in 1 .. Len(t)}
    BY <1>1, <1>3, Zenon DEF ToSet
  <2> QED BY <1>1, <1>4, <1>5, <2>1
<1> QED BY <1>1, <1>2, <1>6

\* Names put behind a queue.
LEMMA Queued ==
  ASSUME NEW T, NEW q \in Seq(T), NEW t \in Seq(T)
  PROVE  q \o t \in Seq(T) /\ ToSet(q \o t) = ToSet(q) \cup ToSet(t)
<1>0. q \o t \in Seq(T)
  OBVIOUS
<1>1. PICK r \in Seq(T) : r = q \o t
  BY <1>0, Zenon
<1>2. /\ Len(q) \in Nat /\ Len(t) \in Nat /\ Len(r) = Len(q) + Len(t)
      /\ DOMAIN q = 1 .. Len(q) /\ DOMAIN t = 1 .. Len(t) /\ DOMAIN r = 1 .. Len(r)
      /\ \A i \in 1 .. Len(r) : r[i] = IF i <= Len(q) THEN q[i] ELSE t[i - Len(q)]
  BY <1>1
<1>3. \A i \in 1 .. Len(q) : i \in 1 .. Len(r) /\ r[i] = q[i]
  BY <1>2
<1>4. ASSUME NEW i \in 1 .. Len(t) PROVE i + Len(q) \in 1 .. Len(r) /\ r[i + Len(q)] = t[i]
  <2>0. Len(q) \in Nat /\ Len(t) \in Nat /\ i \in 1 .. Len(t) /\ Len(r) = Len(q) + Len(t)
    BY <1>2
  <2>1. PICK k \in 1 .. Len(r) : k = i + Len(q) /\ ~(k <= Len(q)) /\ k - Len(q) = i
    BY <2>0
  <2> QED BY <1>2, <2>1
<1>5. \A i \in 1 .. Len(r) : (i \in 1 .. Len(q) /\ r[i] = q[i])
                             \/ (i - Len(q) \in 1 .. Len(t) /\ r[i] = t[i - Len(q)])
  BY <1>2
<1>6. /\ ToSet(q) = {q[i] : i \in 1 .. Len(q)} /\ ToSet(t) = {t[i] : i \in 1 .. Len(t)}
      /\ ToSet(r) = {r[i] : i \in 1 .. Len(r)}
  BY <1>2, Zenon DEF ToSet
<1>7. ToSet(r) = ToSet(q) \cup ToSet(t)
  BY <1>3, <1>4, <1>5, <1>6
<1> QED BY <1>1, <1>7

\* What the loop over the needed names adds for one of them.
NextChild(q, c, asked) == IF c \in asked THEN q ELSE Append(q, c)

\* Its values after the first n names.
Adds(f, needed, asked, n) == f[0] = <<>> /\ \A k \in 1 .. n : f[k] = NextChild(f[k - 1], needed[k], asked)

\* The loop can be carried on to the last name.
LEMMA LoopExists ==
  ASSUME NEW needed \in Seq(Names), NEW asked
  PROVE  \E f \in [0 .. Len(needed) -> Seq(Names)] : Adds(f, needed, asked, Len(needed))
<1> DEFINE missing == {n \in 0 .. Len(needed) : ~ \E f \in [0 .. n -> Seq(Names)] : Adds(f, needed, asked, n)}
<1>1. SUFFICES ASSUME missing # {} PROVE FALSE
  OBVIOUS
<1>2. PICK m \in missing : \A n \in missing : m <= n
  <2>1. missing \subseteq Nat
    OBVIOUS
  <2> HIDE DEF missing
  <2> QED BY <1>1, <2>1, LeastNumber
<1>0. Len(needed) \in Nat /\ m \in 0 .. Len(needed)
  OBVIOUS
<1>3. m # 0
  <2>1. [k \in 0 .. 0 |-> <<>>] \in [0 .. 0 -> Seq(Names)] /\ Adds([k \in 0 .. 0 |-> <<>>], needed, asked, 0)
    BY DEF Adds
  <2> QED BY <1>2, <2>1
<1>4. PICK f \in [0 .. m - 1 -> Seq(Names)] : Adds(f, needed, asked, m - 1)
  <2>2. m - 1 \in 0 .. Len(needed) /\ ~(m <= m - 1)
    BY <1>0, <1>3
  <2> QED BY <1>2, <2>2
<1>5. PICK q \in Seq(Names) : q = NextChild(f[m - 1], needed[m], asked)
  <2>1. m \in 1 .. Len(needed) /\ m - 1 \in 0 .. m - 1
    BY <1>0, <1>3
  <2>2. PICK c \in Names, v \in Seq(Names) : c = needed[m] /\ v = f[m - 1]
    BY <1>4, <2>1
  <2>3. Append(v, c) \in Seq(Names)
    OBVIOUS
  <2> QED BY <2>2, <2>3, Zenon DEF NextChild
<1> DEFINE g == [k \in 0 .. m |-> IF k = m THEN q ELSE f[k]]
<1>6. g \in [0 .. m -> Seq(Names)]
  BY <1>2, <1>3, <1>5
<1>7. Adds(g, needed, asked, m)
  <2>1. m \in Nat /\ m \in 0 .. m /\ 0 \in 0 .. m - 1 /\ \A k \in 0 .. m - 1 : k \in 0 .. m /\ k # m
    BY <1>2, <1>3
  <2>2. g[m] = q /\ \A k \in 0 .. m - 1 : g[k] = f[k]
    BY <2>1
  <2> HIDE DEF g
  <2>3. g[0] = <<>>
    BY <1>4, <2>1, <2>2 DEF Adds
  <2>4. ASSUME NEW k \in 1 .. m PROVE g[k] = NextChild(g[k - 1], needed[k], asked)
    <3>1. k - 1 \in 0 .. m - 1 /\ (k = m \/ (k \in 1 .. m - 1 /\ k \in 0 .. m - 1))
      BY <2>1
    <3>2. g[k - 1] = f[k - 1]
      BY <2>2, <3>1
    <3>3. k \in 1 .. m - 1 => f[k] = NextChild(f[k - 1], needed[k], asked)
      BY <1>4 DEF Adds
    <3> QED BY <1>5, <2>2, <3>1, <3>2, <3>3
  <2> QED BY <2>3, <2>4 DEF Adds
<1> QED BY <1>2, <1>6, <1>7

\* What the loop has added after the first n names.
Added(q, needed, asked, n) == q \in Seq(Names) /\ ToSet(q) = {needed[j] : j \in 1 .. n} \ asked

\* One name more.
LEMMA AddedNext ==
  ASSUME NEW needed \in Seq(Names), NEW asked, NEW n \in 1 .. Len(needed), NEW q, Added(q, needed, asked, n - 1)
  PROVE  Added(NextChild(q, needed[n], asked), needed, asked, n)
<1>1. PICK c \in Names : c = needed[n]
  OBVIOUS
<1>2. q \in Seq(Names)
  BY DEF Added
<1>3. Append(q, c) \in Seq(Names) /\ ToSet(Append(q, c)) = ToSet(q) \cup {c}
  BY <1>2, AppendedTo DEF Appended
<1>4. {needed[j] : j \in 1 .. n} = {needed[j] : j \in 1 .. n - 1} \cup {c}
  <2>1. 1 .. n = (1 .. n - 1) \cup {n}
    OBVIOUS
  <2> QED BY <1>1, <2>1
<1>5. CASE c \in asked
  BY <1>1, <1>4, <1>5 DEF Added, NextChild
<1>6. CASE c \notin asked
  BY <1>1, <1>3, <1>4, <1>6 DEF Added, NextChild
<1> QED BY <1>5, <1>6

\* The needed names that were not asked for, whichever and however many.
LEMMA ChildrenAdded ==
  ASSUME NEW needed \in Seq(Names), NEW asked
  PROVE  Children(needed, asked) \in Seq(Names) /\ ToSet(Children(needed, asked)) = ToSet(needed) \ asked
<1> DEFINE body(f) == [k \in 0 .. Len(needed) |->
                        IF k = 0 THEN <<>>
                        ELSE IF needed[k] \in asked THEN f[k - 1] ELSE Append(f[k - 1], needed[k])]
           upTo == CHOOSE f : f = body(f)
           bad == {n \in 0 .. Len(needed) : ~ Added(upTo[n], needed, asked, n)}
<1>1. \E f : f = body(f)
  <2>1. PICK f \in [0 .. Len(needed) -> Seq(Names)] : Adds(f, needed, asked, Len(needed))
    BY LoopExists
  <2>2. ASSUME NEW k \in 0 .. Len(needed)
        PROVE  f[k] = IF k = 0 THEN <<>>
                      ELSE IF needed[k] \in asked THEN f[k - 1] ELSE Append(f[k - 1], needed[k])
    <3>1. k # 0 => k \in 1 .. Len(needed)
      OBVIOUS
    <3> QED BY <2>1, <3>1 DEF Adds, NextChild
  <2>3. f = body(f)
    BY <2>2, Zenon
  <2> QED BY <2>3, Zenon
<1>2. upTo = body(upTo)
  BY <1>1, Zenon
<1>3. Children(needed, asked) = upTo[Len(needed)]
  BY Zenon DEF Children
<1> HIDE DEF upTo
<1>4. Added(upTo[0], needed, asked, 0)
  <2>1. upTo[0] = <<>>
    BY <1>2
  <2> QED BY <2>1 DEF Added, ToSet
<1>5. ASSUME NEW n \in 1 .. Len(needed) PROVE upTo[n] = NextChild(upTo[n - 1], needed[n], asked)
  <2>1. n \in 0 .. Len(needed) /\ n # 0
    OBVIOUS
  <2> QED BY <1>2, <2>1, Zenon DEF NextChild
<1>6. bad = {}
  <2>1. SUFFICES ASSUME bad # {} PROVE FALSE
    OBVIOUS
  <2>2. PICK m \in bad : \A n \in bad : m <= n
    <3>1. bad \subseteq Nat
      OBVIOUS
    <3> HIDE DEF bad
    <3> QED BY <2>1, <3>1, LeastNumber
  <2>3. m # 0
    BY <1>4, <2>2
  <2>4. m \in 1 .. Len(needed) /\ m - 1 \in 0 .. Len(needed) /\ m - 1 \notin bad
    BY <2>2, <2>3
  <2>5. Added(upTo[m - 1], needed, asked, m - 1)
    BY <2>4
  <2>6. Added(upTo[m], needed, asked, m)
    BY <1>5, <2>4, <2>5, AddedNext
  <2> QED BY <2>2, <2>6
<1>7. Len(needed) \in 0 .. Len(needed)
  OBVIOUS
<1>8. Added(upTo[Len(needed)], needed, asked, Len(needed))
  BY <1>6, <1>7
<1>9. ToSet(needed) = {needed[j] : j \in 1 .. Len(needed)}
  BY DEF ToSet
<1> HIDE DEF bad
<1> QED BY <1>3, <1>8, <1>9, Zenon DEF Added

-----------------------------------------------------------------------------
(***************************************************************************)
(* Resolution                                                              *)
(***************************************************************************)
Registries == Worlds \cup Changing

\* What the constants are, in the parts the proofs use.
LEMMA Constants ==
  /\ Names \subseteq Nat /\ None \notin Names /\ None \notin ElfImages /\ MaxModules \in Nat /\ MaxBytes \in Nat
  /\ \A m \in ElfImages : m.soname \in Names \cup {None} /\ m.needed \in Seq(Names) /\ m.size \in Nat
  /\ \A p \in Programs : Requested(p) \in Seq(Names)
<1>1. ASSUME NEW p \in Programs PROVE Requested(p) \in Seq(Names)
  BY ClosureAssumption DEF ClosureAssumption, Requested
<1> QED BY <1>1, ClosureAssumption DEF ClosureAssumption
\* What a registry may answer.
Answer(m, st, n) ==
  /\ m.kind \in Kinds
  /\ m.kind = "module" =>
       /\ m.name \in Names /\ m.image \in ElfImages
       /\ FileOf(m) \in FilesHeld(st) /\ n \in FileNames(m)
  /\ m.kind # "module" => m.image = None

\* An imported file that answers is one of the registry, and the name is one of its own.
LEMMA ImportAnswers ==
  ASSUME NEW st \in Registries, NEW n \in Names, NEW f \in Imported(st, n)
  PROVE  f \in [name : Names, image : ElfImages] /\ Answer(Found(f), st, n)
<1>1. st.files \subseteq [name : Names, image : ElfImages]
  BY ClosureAssumption DEF ClosureAssumption, Registries
<1>2. ASSUME NEW fs, fs \subseteq st.files, fs # {} PROVE FirstNamed(fs) \in fs
  <2>1. PICK names : names = {g.name : g \in fs}
    OBVIOUS
  <2>2. names \subseteq Nat /\ names # {}
    BY <1>1, <1>2, <2>1, Constants
  <2>3. Lowest(names) \in names /\ \A k \in names : Lowest(names) <= k
    BY <2>2, LeastNumber
  <2>4. PICK g \in fs : g.name = Lowest(names)
    BY <2>1, <2>3
  <2>5. \A h \in fs : g.name <= h.name
    BY <2>1, <2>3, <2>4
  <2> QED BY <2>5, Zenon DEF FirstNamed
<1> DEFINE advertised == {g \in st.files : g.image.soname = n}
           named == {g \in st.files : g.name = n}
<1>3. f \in advertised \/ f \in named
  <2>1. advertised # {} => FirstNamed(advertised) \in advertised
    BY <1>2
  <2>2. named # {} => FirstNamed(named) \in named
    BY <1>2
  <2>3. Imported(st, n) = IF advertised # {} THEN {FirstNamed(advertised)}
                          ELSE IF named # {} THEN {FirstNamed(named)} ELSE {}
    BY Zenon DEF Imported
  <2> HIDE DEF advertised, named
  <2> QED BY <2>1, <2>2, <2>3
<1>4. f \in st.files /\ f \in [name : Names, image : ElfImages]
  BY <1>1, <1>3
<1>5. FileOf(Found(f)) = f /\ f \in FilesHeld(st)
  BY <1>4 DEF FileOf, Found, FilesHeld
<1>6. n \in FileNames(Found(f))
  BY <1>3, <1>4, Constants DEF FileNames, Found
<1>7. Found(f).kind = "module" /\ Found(f).name \in Names /\ Found(f).image \in ElfImages
  BY <1>4 DEF Found
<1> QED BY <1>4, <1>5, <1>6, <1>7 DEF Answer, Kinds

\* A directory answers with the file of the name, or with a trouble.
LEMMA DirectoryAnswers ==
  ASSUME NEW st \in Registries, NEW n \in Names, NEW i \in DOMAIN st.dirs
  PROVE  Answer(InDirectory(st.dirs[i], n), st, n)
<1> DEFINE Folders == [granted : BOOLEAN, holds : [Names -> ElfImages \cup {None, Unreadable}]]
<1>1. PICK d : d = st.dirs[i]
  OBVIOUS
<1>2. d \in Folders /\ d \in ToSet(st.dirs)
  <2>1. st.dirs \in Seq(Folders)
    BY ClosureAssumption DEF ClosureAssumption, Registries
  <2> HIDE DEF Folders
  <2>2. PICK ds \in Seq(Folders) : ds = st.dirs
    BY <2>1
  <2>3. i \in DOMAIN ds
    BY <2>2
  <2>4. ds[i] \in Folders
    BY <2>3
  <2> QED BY <1>1, <2>2, <2>4 DEF ToSet
<1>3. d.holds[n] \in ElfImages \cup {None, Unreadable}
  BY <1>2
<1>4. CASE ~d.granted \/ d.holds[n] \in {None, Unreadable}
  BY <1>1, <1>4 DEF Answer, InDirectory, Missing, Kinds
<1>5. CASE d.granted /\ d.holds[n] \notin {None, Unreadable}
  <2>1. InDirectory(d, n) = [kind |-> "module", name |-> n, image |-> d.holds[n]]
    BY <1>5 DEF InDirectory, Found
  <2>2. PICK m : m = InDirectory(d, n)
    OBVIOUS
  <2>3. m.kind = "module" /\ m.name = n /\ m.image = d.holds[n] /\ m.image \in ElfImages
    BY <1>3, <1>5, <2>1, <2>2
  <2>4. FileOf(m) \in FilesHeld(st)
    <3>1. FileOf(m) \in {[name |-> k, image |-> d.holds[k]] : k \in {l \in Names : d.holds[l] \notin {None, Unreadable}}}
      BY <1>5, <2>3 DEF FileOf
    <3> QED BY <1>2, <3>1 DEF FilesHeld
  <2>5. n \in FileNames(m)
    BY <2>3, Constants DEF FileNames
  <2> QED BY <1>1, <2>2, <2>3, <2>4, <2>5 DEF Answer, Kinds
<1> QED BY <1>4, <1>5

\* So does the whole registry.  Which troubles count decides only between failures.
LEMMA RegistryAnswers ==
  ASSUME NEW st \in Registries, NEW n \in Names, NEW troubles, troubles \subseteq Troubles
  PROVE  /\ Answer(Resolve(st, n, troubles), st, n)
         /\ \A others \in SUBSET Troubles :
              Resolve(st, n, troubles).kind = "module" => Resolve(st, n, others) = Resolve(st, n, troubles)
<1> DEFINE In(i) == InDirectory(st.dirs[i], n)
           having == {i \in DOMAIN st.dirs : In(i).kind = "module"}
           troubled(ts) == {i \in DOMAIN st.dirs : In(i).kind \in ts}
           file == CHOOSE f \in Imported(st, n) : TRUE
<1>1. \A ts : Resolve(st, n, ts) = IF Imported(st, n) # {} THEN Found(file)
                                   ELSE IF having # {} THEN In(Lowest(having))
                                   ELSE IF troubled(ts) # {} THEN In(Lowest(troubled(ts)))
                                   ELSE Missing("absent")
  BY Zenon DEF Resolve
<1>2. Imported(st, n) # {} => file \in Imported(st, n)
  BY Zenon
<1>3. DOMAIN st.dirs \subseteq Nat
  BY ClosureAssumption DEF ClosureAssumption, Registries
<1>4. having # {} => Lowest(having) \in having
  BY <1>3, LeastNumber
<1>5. ASSUME NEW ts, troubled(ts) # {} PROVE Lowest(troubled(ts)) \in troubled(ts)
  <2>1. troubled(ts) \subseteq Nat
    BY <1>3
  <2> HIDE DEF troubled
  <2> QED BY <1>5, <2>1, LeastNumber
<1>6. Answer(Missing("absent"), st, n) /\ Missing("absent").kind = "absent"
  BY DEF Answer, Missing, Kinds
<1>7. Imported(st, n) # {} => Answer(Found(file), st, n)
  BY <1>2, ImportAnswers
<1>8. having # {} => Answer(In(Lowest(having)), st, n)
  BY <1>4, DirectoryAnswers
<1>9. troubled(troubles) # {} =>
        Answer(In(Lowest(troubled(troubles))), st, n) /\ In(Lowest(troubled(troubles))).kind \in troubles
  BY <1>5, DirectoryAnswers
<1> HIDE DEF file, having, troubled, In
<1>10. Answer(Resolve(st, n, troubles), st, n)
  BY <1>1, <1>6, <1>7, <1>8, <1>9, Zenon
<1>11. Resolve(st, n, troubles).kind = "module" => Imported(st, n) # {} \/ having # {}
  BY <1>1, <1>6, <1>9 DEF Troubles
<1>12. Imported(st, n) # {} \/ having # {} => \A others : Resolve(st, n, others) = Resolve(st, n, troubles)
  BY <1>1, Zenon
<1> QED BY <1>10, <1>11, <1>12
-----------------------------------------------------------------------------
(***************************************************************************)
(* The steps of the launch                                                 *)
(***************************************************************************)
\* A registry that is used is one of the constants.
LEMMA Answering ==
  ASSUME Types, NEW n \in Names
  PROVE  /\ Answer(Resolve(store, n, Troubles), store, n)
         /\ Answer(Resolve(preview.entries, n, {"permission"}), preview.entries, n)
         /\ \A others \in SUBSET Troubles :
              Resolve(store, n, Troubles).kind = "module" => Resolve(store, n, others) = Resolve(store, n, Troubles)
<1>1. store \in Registries /\ preview.entries \in Registries /\ {"permission"} \subseteq Troubles
  BY DEF Types, Registries, Troubles
<1> QED BY <1>1, RegistryAnswers

\* The modules and their bytes are left alone.
LEMMA CountedStays == ASSUME Counted, UNCHANGED <<modules, totalBytes>> PROVE Counted'
<1>1. modules' = modules /\ totalBytes' = totalBytes
  OBVIOUS
<1> QED BY <1>1 DEF Counted

\* A name that was requested before is dropped.
LEMMA Repeats == ASSUME ClosureInv, Repeated PROVE ClosureInv'
<1>1. /\ pending \in Seq(Names) /\ pending # <<>> /\ Head(pending) \in DOMAIN identity /\ phase = "walking"
      /\ pending' = Tail(pending)
      /\ UNCHANGED <<store, program, phase, identity, modules, totalBytes, preview, changes>>
  BY DEF ClosureInv, Types, Repeated
<1>2. Tail(pending) \in Seq(Names) /\ ToSet(pending) = {Head(pending)} \cup ToSet(Tail(pending))
  BY <1>1, HeadAndTail
<1>3. TypeOK'
  BY <1>1, CountedStays DEF ClosureInv, TypeOK, IdentityOf
<1>4. Types'
  BY <1>1, <1>2 DEF ClosureInv, Types
<1>5. Complete'
  BY <1>1, <1>2 DEF ClosureInv, Complete, Needed, Images, Prepared
<1>6. Ordered' /\ Answered' /\ FromRegistry'
  BY <1>1 DEF ClosureInv, Ordered, Answered, FromRegistry, ReadFrom
<1>7. FailsForAReason' /\ Checked'
  BY <1>1 DEF FailsForAReason, Checked
<1>8. Previewed'
  BY <1>1 DEF ClosureInv, Previewed, Asked, Seen
<1> QED BY <1>3, <1>4, <1>5, <1>6, <1>7, <1>8 DEF ClosureInv

\* Materialization stops with an error.
LEMMA FailsNow ==
  ASSUME ClosureInv, phase = "walking", pending # <<>>, Fails, UNCHANGED <<store, program, preview, changes>>,
         Len(modules) >= MaxModules \/ Resolve(store, Head(pending), Troubles).kind # "module"
           \/ TooBig(Resolve(store, Head(pending), Troubles))
  PROVE  ClosureInv'
<1>1. phase' = "failed" /\ UNCHANGED <<store, program, pending, identity, modules, totalBytes, preview, changes>>
  BY DEF Fails
<1>2. TypeOK'
  BY <1>1, CountedStays DEF ClosureInv, TypeOK, IdentityOf
<1>3. Types' /\ Ordered' /\ Answered' /\ FromRegistry'
  BY <1>1 DEF ClosureInv, Types, Ordered, Answered, FromRegistry, ReadFrom
<1>4. Complete'
  BY <1>1 DEF ClosureInv, Complete, Needed, Images, Prepared
<1>5. FailsForAReason' /\ Checked'
  BY <1>1 DEF FailsForAReason, Checked, TooBig
<1>6. Previewed'
  BY <1>1 DEF ClosureInv, Previewed, Asked, Seen
<1> QED BY <1>2, <1>3, <1>4, <1>5, <1>6 DEF ClosureInv
\* The name n is found to be the file m.
Finds(n, m) ==
  /\ phase = "walking" /\ pending # <<>> /\ n = Head(pending) /\ n \notin DOMAIN identity
  /\ m = Resolve(store, n, Troubles) /\ m.kind = "module"
  /\ identity' = With(identity, n, IdentityOf(m))
  /\ UNCHANGED <<store, program, phase, preview, changes>>

\* The names asked for, and one more.
NamesMove(n, m) ==
  /\ DOMAIN identity' = DOMAIN identity \cup {n} /\ identity'[n] = IdentityOf(m)
  /\ \A k \in DOMAIN identity : identity'[k] = identity[k]
  /\ identity' = [k \in DOMAIN identity' |-> identity'[k]]
  /\ Tail(pending) \in Seq(Names) /\ ToSet(pending) = {n} \cup ToSet(Tail(pending))

\* The name that was asked for moves from the queue to the names that have an answer.
LEMMA Identified ==
  ASSUME ClosureInv, NEW n \in Names, NEW m, Finds(n, m)
  PROVE  Answer(m, store, n) /\ NamesMove(n, m)
<1>1. Answer(m, store, n)
  BY Answering DEF Finds, ClosureInv
<1>2. Tail(pending) \in Seq(Names) /\ ToSet(pending) = {n} \cup ToSet(Tail(pending))
  BY HeadAndTail DEF Finds, ClosureInv, Types
<1> QED BY <1>1, <1>2 DEF Finds, With, NamesMove

\* A file that is in the closure under another name is not taken again.
LEMMA FindsAgain ==
  ASSUME ClosureInv, NEW n \in Names, NEW m, Finds(n, m),
         NEW i \in DOMAIN modules, IdentityOf(modules[i]) = IdentityOf(m),
         pending' = Tail(pending), UNCHANGED <<modules, totalBytes>>
  PROVE  ClosureInv'
<1>0. Answer(m, store, n) /\ NamesMove(n, m)
  BY Identified
<1>1. UNCHANGED <<store, program, phase, modules, totalBytes, preview, changes>> /\ phase = "walking"
  BY DEF Finds
<1>2. TypeOK'
  <2>1. Counted'
    BY <1>1, CountedStays DEF ClosureInv, TypeOK
  <2>2. \A k \in DOMAIN identity' : \E j \in DOMAIN modules : IdentityOf(modules[j]) = identity'[k]
    BY <1>0 DEF ClosureInv, TypeOK, NamesMove
  <2> QED BY <1>1, <2>1, <2>2 DEF ClosureInv, TypeOK, IdentityOf
<1>3. Types'
  BY <1>0, <1>1 DEF ClosureInv, Types, NamesMove
<1>4. Complete'
  BY <1>0, <1>1 DEF ClosureInv, Complete, Needed, Images, Prepared, NamesMove
<1>5. Ordered' /\ Answered' /\ FromRegistry'
  BY <1>1 DEF ClosureInv, Ordered, Answered, FromRegistry, ReadFrom
<1>6. FailsForAReason' /\ Checked'
  BY <1>1 DEF FailsForAReason, Checked
<1>7. Previewed'
  BY <1>1 DEF ClosureInv, Previewed, Asked, Seen
<1> QED BY <1>2, <1>3, <1>4, <1>5, <1>6, <1>7 DEF ClosureInv

\* A file that is new is taken, and what it needs is asked for.
LEMMA FindsNew ==
  ASSUME ClosureInv, NEW n \in Names, NEW m, Finds(n, m),
         ~ \E i \in DOMAIN modules : IdentityOf(modules[i]) = IdentityOf(m),
         Len(modules) < MaxModules, ~TooBig(m),
         modules' = Append(modules, [requested |-> n, name |-> m.name, image |-> m.image]),
         totalBytes' = totalBytes + m.image.size,
         pending' = Tail(pending) \o Children(m.image.needed, DOMAIN identity \cup {n})
  PROVE  ClosureInv'
<1>0. Answer(m, store, n) /\ NamesMove(n, m)
  BY Identified
<1>1. UNCHANGED <<store, program, phase, preview, changes>> /\ phase = "walking"
  BY DEF Finds
<1>2. m.name \in Names /\ m.image \in ElfImages /\ FileOf(m) \in FilesHeld(store) /\ n \in FileNames(m)
  BY <1>0 DEF Answer, Finds, NamesMove
<1>3. m.image.needed \in Seq(Names) /\ m.image.size \in Nat
  BY <1>2, Constants
<1>4. PICK new \in Modules : new = [requested |-> n, name |-> m.name, image |-> m.image]
  BY <1>2 DEF Modules
<1>5. modules' \in Seq(Modules) /\ Appended(modules', modules, new)
  <2>1. modules \in Seq(Modules)
    BY DEF ClosureInv, Types
  <2>2. modules' = Append(modules, new)
    BY <1>4
  <2> QED BY <2>1, <2>2, AppendedTo
<1>6. PICK last \in Nat : last = Len(modules) + 1
  BY <1>5 DEF Appended
<1>7. /\ Len(modules') = last /\ modules'[last] = new /\ last \notin DOMAIN modules /\ last \notin 1 .. last - 1
      /\ DOMAIN modules = 1 .. last - 1 /\ DOMAIN modules' = DOMAIN modules \cup {last}
      /\ \A i \in DOMAIN modules : modules'[i] = modules[i]
  BY <1>5, <1>6 DEF Appended
<1>8. IdentityOf(new) = IdentityOf(m)
  BY <1>4 DEF IdentityOf
<1>9. PICK children \in Seq(Names) :
        /\ children = Children(m.image.needed, DOMAIN identity \cup {n})
        /\ ToSet(children) = ToSet(m.image.needed) \ (DOMAIN identity \cup {n})
  BY <1>3, ChildrenAdded
<1>10. pending' \in Seq(Names) /\ ToSet(pending') = ToSet(Tail(pending)) \cup ToSet(children)
  <2>1. PICK rest \in Seq(Names) : rest = Tail(pending)
    BY <1>0, Zenon DEF NamesMove
  <2>2. pending' = rest \o children
    BY <1>9, <2>1, Zenon
  <2>3. rest \o children \in Seq(Names) /\ ToSet(rest \o children) = ToSet(rest) \cup ToSet(children)
    BY Queued
  <2> QED BY <2>1, <2>2, <2>3, Zenon
<1>11. TypeOK'
  <2>1. Counted'
    <3>1. PICK sum \in [0 .. Len(modules) -> 0 .. MaxBytes] :
            /\ sum[0] = 0 /\ sum[Len(modules)] = totalBytes
            /\ \A i \in DOMAIN modules : sum[i] = sum[i - 1] + modules[i].image.size
      <4>1. Counted
        BY DEF ClosureInv, TypeOK
      <4> QED BY <4>1, Zenon DEF Counted
    <3>2. totalBytes' \in 0 .. MaxBytes
      <4>1. totalBytes \in Nat /\ ~(totalBytes + m.image.size > MaxBytes)
        BY DEF ClosureInv, Types, TooBig
      <4> QED BY <1>3, <4>1, Constants
    <3> DEFINE more == [i \in 0 .. last |-> IF i = last THEN totalBytes' ELSE sum[i]]
    <3>3. 0 .. last = (0 .. last - 1) \cup {last} /\ 0 \in 0 .. last - 1 /\ last \notin 0 .. last - 1
          /\ last - 1 = Len(modules)
      BY <1>5, <1>6 DEF Appended
    <3>4. more \in [0 .. last -> 0 .. MaxBytes]
      BY <3>1, <3>2, <3>3
    <3>5. more[last] = totalBytes' /\ \A i \in 0 .. last - 1 : more[i] = sum[i]
      BY <3>3
    <3> HIDE DEF more
    <3>6. more[0] = 0 /\ more[last] = totalBytes' /\ more[last - 1] = totalBytes
      BY <3>1, <3>3, <3>5
    <3>7. ASSUME NEW i \in DOMAIN modules' PROVE more[i] = more[i - 1] + modules'[i].image.size
      <4>1. CASE i = last
        BY <1>4, <1>7, <3>6, <4>1
      <4>2. CASE i \in DOMAIN modules
        <5>1. i \in 0 .. last - 1 /\ i - 1 \in 0 .. last - 1
          BY <1>7, <4>2
        <5> QED BY <1>7, <3>1, <3>5, <4>2, <5>1
      <4> QED BY <1>7, <4>1, <4>2
    <3> QED BY <1>7, <3>4, <3>6, <3>7 DEF Counted
  <2>2. ASSUME NEW k \in DOMAIN identity' PROVE \E i \in DOMAIN modules' : IdentityOf(modules'[i]) = identity'[k]
    <3>1. CASE k = n
      BY <1>0, <1>7, <1>8, <3>1 DEF NamesMove
    <3>2. CASE k \in DOMAIN identity
      BY <1>0, <1>7, <3>2 DEF ClosureInv, TypeOK, NamesMove
    <3> QED BY <1>0, <3>1, <3>2 DEF NamesMove
  <2>3. \A i, j \in DOMAIN modules' : IdentityOf(modules'[i]) = IdentityOf(modules'[j]) => i = j
    BY <1>7, <1>8 DEF ClosureInv, TypeOK
  <2>4. Len(modules') <= MaxModules
    BY <1>5, Constants DEF Appended
  <2> QED BY <1>1, <2>1, <2>2, <2>3, <2>4 DEF TypeOK
<1>12. Types'
  <2>1. totalBytes' \in Nat
    BY <1>3 DEF ClosureInv, Types
  <2> QED BY <1>0, <1>1, <1>5, <1>10, <2>1 DEF ClosureInv, Types, NamesMove
<1>13. Complete'
  <2>1. Needed' = Needed \cup ToSet(m.image.needed)
    BY <1>4, <1>7 DEF Needed, Images
  <2> QED BY <1>0, <1>1, <1>9, <1>10, <2>1 DEF ClosureInv, Complete, Prepared, NamesMove
<1>14. Ordered'
  <2>1. n \in ToSet(Requested(program)) \/ \E j \in DOMAIN modules : n \in ToSet(modules[j].image.needed)
    <3>1. n \in ToSet(Requested(program)) \cup Needed
      BY <1>0 DEF ClosureInv, Complete, NamesMove
    <3> QED BY <3>1 DEF Needed, Images
  <2> QED BY <1>1, <1>4, <1>7, <2>1 DEF ClosureInv, Ordered
<1>15. Answered'
  BY <1>1, <1>4, <1>7 DEF ClosureInv, Answered, Finds
<1>16. FromRegistry'
  <2>1. ReadFrom' = ReadFrom /\ store \in ReadFrom
    BY <1>1 DEF ReadFrom
  <2>2. FileOf(new) = FileOf(m) /\ FileNames(new) = FileNames(m) /\ new.requested = n
    BY <1>4 DEF FileOf, FileNames
  <2> QED BY <1>2, <1>7, <2>1, <2>2 DEF ClosureInv, FromRegistry
<1>17. FailsForAReason' /\ Checked'
  BY <1>1 DEF FailsForAReason, Checked
<1>18. Previewed'
  BY <1>1 DEF ClosureInv, Previewed, Asked, Seen
<1> QED BY <1>11, <1>12, <1>13, <1>14, <1>15, <1>16, <1>17, <1>18 DEF ClosureInv

\* One name is materialized.
LEMMA Materializes == ASSUME ClosureInv, Materialize PROVE ClosureInv'
<1>1. PICK n \in Names : n = Head(pending)
  BY HeadAndTail DEF Materialize, ClosureInv, Types
<1>2. PICK m : m = Resolve(store, n, Troubles)
  OBVIOUS
<1>3. /\ phase = "walking" /\ pending # <<>> /\ n \notin DOMAIN identity
      /\ UNCHANGED <<store, program, preview, changes>>
      /\ IF Len(modules) >= MaxModules \/ m.kind # "module" THEN Fails
         ELSE IF \E i \in DOMAIN modules : IdentityOf(modules[i]) = IdentityOf(m)
              THEN /\ identity' = With(identity, n, IdentityOf(m)) /\ pending' = Tail(pending)
                   /\ UNCHANGED <<phase, modules, totalBytes>>
         ELSE IF TooBig(m) THEN Fails
         ELSE /\ identity' = With(identity, n, IdentityOf(m))
              /\ modules' = Append(modules, [requested |-> n, name |-> m.name, image |-> m.image])
              /\ totalBytes' = totalBytes + m.image.size
              /\ pending' = Tail(pending) \o Children(m.image.needed, DOMAIN identity \cup {n})
              /\ UNCHANGED phase
  BY <1>1, <1>2, Zenon DEF Materialize, Troubles
<1>4. CASE Fails
  <2>1. Len(modules) >= MaxModules \/ m.kind # "module" \/ TooBig(m)
    BY <1>3, <1>4 DEF Fails
  <2> QED BY <1>1, <1>2, <1>3, <1>4, <2>1, FailsNow
<1>5. CASE ~Fails
  <2>1. Len(modules) \in Nat
    BY DEF ClosureInv, Types
  <2>2. Len(modules) < MaxModules /\ m.kind = "module"
    BY <1>3, <1>5, <2>1, Constants
  <2>3. Finds(n, m)
    BY <1>1, <1>2, <1>3, <1>5, <2>2 DEF Finds
  <2>4. ASSUME NEW i \in DOMAIN modules, IdentityOf(modules[i]) = IdentityOf(m) PROVE ClosureInv'
    <3>1. pending' = Tail(pending) /\ UNCHANGED <<modules, totalBytes>>
      BY <1>3, <1>5, <2>4, Zenon
    <3> QED BY <2>3, <2>4, <3>1, FindsAgain
  <2>5. CASE ~ \E i \in DOMAIN modules : IdentityOf(modules[i]) = IdentityOf(m)
    BY <1>3, <1>5, <2>2, <2>3, <2>5, FindsNew
  <2> QED BY <2>4, <2>5
<1> QED BY <1>4, <1>5
\* The queue is empty.
LEMMA Ends == ASSUME ClosureInv, Materialized PROVE ClosureInv'
<1>1. /\ phase = "walking" /\ pending = <<>> /\ phase' = "done"
      /\ UNCHANGED <<store, program, pending, identity, modules, totalBytes, preview, changes>>
  BY DEF Materialized
<1>2. TypeOK'
  BY <1>1, CountedStays DEF ClosureInv, TypeOK, IdentityOf
<1>3. Types' /\ Ordered' /\ Answered' /\ FromRegistry'
  BY <1>1 DEF ClosureInv, Types, Ordered, Answered, FromRegistry, ReadFrom
<1>4. Complete'
  BY <1>1 DEF ClosureInv, Complete, Needed, Images, Prepared
<1>5. FailsForAReason' /\ Checked'
  BY <1>1 DEF FailsForAReason, Checked
<1>6. Previewed'
  BY <1>1 DEF ClosureInv, Previewed, Asked, Seen
<1> QED BY <1>2, <1>3, <1>4, <1>5, <1>6 DEF ClosureInv

\* The versions are checked.
LEMMA Validates == ASSUME ClosureInv, Validate PROVE ClosureInv'
<1>1. /\ phase = "done" /\ phase' \in {"launched", "refused"}
      /\ UNCHANGED <<store, program, pending, identity, modules, totalBytes, preview, changes>>
  BY DEF Validate
<1>2. TypeOK'
  BY <1>1, CountedStays DEF ClosureInv, TypeOK, IdentityOf
<1>3. Types' /\ Ordered' /\ Answered' /\ FromRegistry'
  BY <1>1 DEF ClosureInv, Types, Ordered, Answered, FromRegistry, ReadFrom
<1>4. Complete'
  BY <1>1 DEF ClosureInv, Complete, Needed, Images, Prepared
<1>5. FailsForAReason'
  BY <1>1 DEF FailsForAReason
<1>6. Previewed'
  BY <1>1 DEF ClosureInv, Previewed, Asked, Seen
<1>7. Checked'
  <2>1. phase' = "launched" => \A r \in Requirements : Satisfied(r)
    BY DEF Validate
  <2> QED BY <1>1, <2>1 DEF Checked, Requirements, Satisfied, Provider, Naming
<1> QED BY <1>2, <1>3, <1>4, <1>5, <1>6, <1>7 DEF ClosureInv

\* The user exchanges the registry.
LEMMA ChangesRegistry == ASSUME ClosureInv, Change PROVE ClosureInv'
<1>1. /\ phase = "walking" /\ store \in Changing /\ store' \in Changing /\ changes' = changes + 1 /\ changes' # 0 /\ changes' \in Nat
      /\ UNCHANGED <<program, phase, pending, identity, modules, totalBytes, preview>>
  BY DEF Change, ClosureInv, Types
<1>2. TypeOK'
  BY <1>1, CountedStays DEF ClosureInv, TypeOK, IdentityOf
<1>3. Types' /\ Ordered' /\ FromRegistry'
  BY <1>1 DEF ClosureInv, Types, Ordered, FromRegistry, ReadFrom
<1>4. Complete'
  BY <1>1 DEF ClosureInv, Complete, Needed, Images, Prepared
<1>5. FailsForAReason' /\ Checked' /\ Answered'
  BY <1>1 DEF FailsForAReason, Checked, Answered
<1>6. Previewed'
  BY <1>1 DEF ClosureInv, Previewed, Asked, Seen
<1> QED BY <1>2, <1>3, <1>4, <1>5, <1>6 DEF ClosureInv

\* The launch is left alone.
LEMMA LaunchRests ==
  ASSUME ClosureInv, UNCHANGED <<store, program, phase, pending, identity, modules, totalBytes, changes>>
  PROVE  TypeOK' /\ Complete' /\ Ordered' /\ FailsForAReason' /\ FromRegistry' /\ Checked'
<1>1. TypeOK'
  BY CountedStays DEF ClosureInv, TypeOK, IdentityOf
<1>2. Complete'
  BY DEF ClosureInv, Complete, Needed, Images, Prepared
<1>3. Ordered' /\ FromRegistry'
  BY DEF ClosureInv, Ordered, FromRegistry, ReadFrom
<1>4. FailsForAReason'
  BY DEF ClosureInv, FailsForAReason, TooBig
<1>5. Checked'
  BY DEF ClosureInv, Checked, Requirements, Satisfied, Provider, Naming
<1> QED BY <1>1, <1>2, <1>3, <1>4, <1>5

-----------------------------------------------------------------------------
(***************************************************************************)
(* The preview                                                             *)
(***************************************************************************)
\* The preview takes the next name, stops at its limit, or drops a name it knows.
LEMMA PreviewMoves == ASSUME ClosureInv, Preview PROVE ClosureInv'
<1>1. UNCHANGED <<store, program, phase, pending, identity, modules, totalBytes, changes>>
  BY DEF Preview
<1>2. PICK p, rs, q, over : preview = [entries |-> p, pending |-> q, results |-> rs, over |-> over]
  BY DEF ClosureInv, Types
<1>3. preview.entries = p /\ preview.pending = q /\ preview.results = rs
  BY <1>2
<1>4. /\ p \in Worlds /\ q \in Seq(Names) /\ rs \in Seq(Answers) /\ q # <<>>
  BY <1>3 DEF ClosureInv, Types, Preview
<1>5. PICK n \in Names : n = Head(q)
  BY <1>4, HeadAndTail
<1>6. PICK rest \in Seq(Names) : rest = Tail(q) /\ ToSet(q) = {n} \cup ToSet(rest)
  BY <1>4, <1>5, HeadAndTail
<1>7. PICK m : m = Resolve(p, n, {"permission"})
  OBVIOUS
<1>8. Answer(m, p, n)
  BY <1>3, <1>7, Answering DEF ClosureInv
<1>9. \/ preview' = [preview EXCEPT !.over = TRUE]
      \/ n \in Seen /\ preview' = [preview EXCEPT !.pending = rest]
      \/ n \notin Seen /\ preview' = [preview EXCEPT
           !.pending = rest \o (IF m.kind = "module" THEN Children(m.image.needed, Seen \cup {n}) ELSE <<>>),
           !.results = Append(rs, [requested |-> n, kind |-> m.kind, image |-> m.image])]
  BY <1>3, <1>5, <1>6, <1>7 DEF Preview, Seen
<1>10. preview'.entries = p => Answered'
  BY <1>1, <1>3 DEF ClosureInv, Answered
<1>11. ASSUME preview' = [preview EXCEPT !.over = TRUE] PROVE Types' /\ Previewed' /\ preview'.entries = p
  <2>1. preview' = [entries |-> p, pending |-> q, results |-> rs, over |-> TRUE]
    BY <1>2, <1>11
  <2>2. Types'
    BY <1>1, <1>4, <2>1 DEF ClosureInv, Types
  <2> QED BY <1>1, <1>3, <2>1, <2>2 DEF ClosureInv, Previewed, Asked, Seen
<1>12. ASSUME n \in Seen, preview' = [preview EXCEPT !.pending = rest] PROVE Types' /\ Previewed' /\ preview'.entries = p
  <2>1. preview' = [entries |-> p, pending |-> rest, results |-> rs, over |-> over]
    BY <1>2, <1>12
  <2>2. Types'
    BY <1>1, <1>4, <2>1 DEF ClosureInv, Types
  <2>3. Asked' = Asked
    BY <1>3, <1>6, <1>12, <2>1 DEF Asked, Seen
  <2> QED BY <1>1, <1>3, <2>1, <2>2, <2>3 DEF ClosureInv, Previewed
<1>13. ASSUME n \notin Seen,
              preview' = [preview EXCEPT
                !.pending = rest \o (IF m.kind = "module" THEN Children(m.image.needed, Seen \cup {n}) ELSE <<>>),
                !.results = Append(rs, [requested |-> n, kind |-> m.kind, image |-> m.image])]
       PROVE  Types' /\ Previewed' /\ preview'.entries = p
  <2>1. PICK r \in Answers : r = [requested |-> n, kind |-> m.kind, image |-> m.image]
    BY <1>8 DEF Answer, Answers
  <2>2. PICK children \in Seq(Names) :
          /\ children = IF m.kind = "module" THEN Children(m.image.needed, Seen \cup {n}) ELSE <<>>
          /\ m.kind = "module" => ToSet(children) = ToSet(m.image.needed) \ (Seen \cup {n})
    <3>1. CASE m.kind = "module"
      <4>1. PICK needed \in Seq(Names) : needed = m.image.needed
        BY <1>8, <3>1, Constants DEF Answer
      <4>2. PICK children \in Seq(Names) :
              /\ children = Children(needed, Seen \cup {n})
              /\ ToSet(children) = ToSet(needed) \ (Seen \cup {n})
        <5>1. Children(needed, Seen \cup {n}) \in Seq(Names)
              /\ ToSet(Children(needed, Seen \cup {n})) = ToSet(needed) \ (Seen \cup {n})
          BY ChildrenAdded
        <5> QED BY <5>1, Zenon
      <4> QED BY <3>1, <4>1, <4>2, Zenon
    <3>2. CASE m.kind # "module"
      <4>1. <<>> \in Seq(Names)
        OBVIOUS
      <4> QED BY <3>2, <4>1, Zenon
    <3> QED BY <3>1, <3>2
  <2>3. PICK rs2 \in Seq(Answers) : rs2 = Append(rs, r) /\ Appended(rs2, rs, r)
    BY <1>4, AppendedTo
  <2>4. PICK q2 \in Seq(Names) : q2 = rest \o children /\ ToSet(q2) = ToSet(rest) \cup ToSet(children)
    BY Queued
  <2>5. preview' = [entries |-> p, pending |-> q2, results |-> rs2, over |-> over]
    BY <1>2, <1>13, <2>1, <2>2, <2>3, <2>4
  <2>6. preview'.entries = p /\ preview'.pending = q2 /\ preview'.results = rs2
    BY <2>5
  <2>7. Types'
    BY <1>1, <1>4, <2>5 DEF ClosureInv, Types
  <2>8. Seen' = Seen \cup {n}
    BY <1>3, <2>1, <2>3, <2>6 DEF Seen, Appended
  <2>9. Asked \subseteq Asked' /\ (m.kind = "module" => ToSet(m.image.needed) \subseteq Asked')
    BY <1>3, <1>6, <2>2, <2>4, <2>6, <2>8 DEF Asked
  <2>10. ToSet(Requested(program))' \subseteq Asked'
    BY <1>1, <2>9 DEF ClosureInv, Previewed
  <2>11. ASSUME NEW k \in DOMAIN rs2
         PROVE  /\ rs2[k].kind = Resolve(p, rs2[k].requested, {"permission"}).kind
                /\ rs2[k].image = Resolve(p, rs2[k].requested, {"permission"}).image
                /\ rs2[k].kind = "module" => ToSet(rs2[k].image.needed) \subseteq Asked'
    <3>1. CASE k \in DOMAIN rs
      <4>1. rs2[k] = rs[k]
        BY <2>3, <3>1 DEF Appended
      <4> QED BY <1>3, <2>9, <3>1, <4>1 DEF ClosureInv, Previewed
    <3>2. CASE k \notin DOMAIN rs
      <4>1. rs2[k] = r
        BY <2>3, <3>2 DEF Appended
      <4> QED BY <1>7, <2>1, <2>9, <4>1
    <3> QED BY <3>1, <3>2
  <2> QED BY <2>6, <2>7, <2>10, <2>11 DEF Previewed
<1> QED BY <1>1, <1>9, <1>10, <1>11, <1>12, <1>13, LaunchRests DEF ClosureInv

-----------------------------------------------------------------------------
(***************************************************************************)
(* The invariant                                                           *)
(***************************************************************************)
\* A launch and its preview start from the program's own names.
LEMMA ClosureStarts == ASSUME Init PROVE ClosureInv
<1>1. /\ store \in Worlds /\ program \in Programs /\ phase = "walking" /\ pending = Requested(program)
      /\ identity = <<>> /\ modules = <<>> /\ totalBytes = 0 /\ changes = 0
      /\ preview = [entries |-> store, pending |-> Requested(program), results |-> <<>>, over |-> FALSE]
  BY DEF Init
<1>2. DOMAIN identity = {} /\ DOMAIN modules = {} /\ Len(modules) = 0 /\ modules \in Seq(Modules)
      /\ <<>> \in Seq(Answers) /\ DOMAIN <<>> = {}
  BY <1>1
<1>3. TypeOK
  <2>1. Counted
    <3>1. [i \in 0 .. 0 |-> 0] \in [0 .. 0 -> 0 .. MaxBytes] /\ [i \in 0 .. 0 |-> 0][0] = 0
      BY Constants
    <3> QED BY <1>1, <1>2, <3>1, Zenon DEF Counted
  <2> QED BY <1>1, <1>2, <2>1, Constants DEF TypeOK
<1>4. Types
  <2>1. identity = [n \in DOMAIN identity |-> identity[n]]
    BY <1>1
  <2> QED BY <1>1, <1>2, <2>1, Constants DEF Types
<1>5. Complete
  BY <1>1, <1>2 DEF Complete, Needed, Images, Prepared
<1>6. Ordered /\ Answered /\ FromRegistry
  BY <1>1, <1>2 DEF Ordered, Answered, FromRegistry
<1>7. FailsForAReason /\ Checked
  BY <1>1 DEF FailsForAReason, Checked
<1>8. Previewed
  BY <1>1, <1>2 DEF Previewed, Asked, Seen
<1> QED BY <1>3, <1>4, <1>5, <1>6, <1>7, <1>8 DEF ClosureInv

\* Nothing moves.
LEMMA ClosureRests == ASSUME ClosureInv, UNCHANGED vars PROVE ClosureInv'
<1>1. UNCHANGED <<store, program, phase, pending, identity, modules, totalBytes, preview, changes>>
  BY DEF vars
<1>2. Types' /\ Answered' /\ Previewed'
  BY <1>1 DEF ClosureInv, Types, Answered, Previewed, Asked, Seen
<1> QED BY <1>1, <1>2, LaunchRests DEF ClosureInv

\* The walks of the launch and of the preview, however they interleave with each
\* other and with the user (materializeRuntimeDependencyClosure,
\* resolveGlobalDependencyClosure).
THEOREM ClosureInvariance == Spec => []ClosureInv
<1>1. ClosureInv /\ [Next]_vars => ClosureInv'
  BY Repeats, Materializes, Ends, PreviewMoves, Validates, ChangesRegistry, ClosureRests DEF Next
<1> QED BY <1>1, ClosureStarts, PTL DEF Spec

-----------------------------------------------------------------------------
(***************************************************************************)
(* What it says of a launch                                                *)
(***************************************************************************)
\* A preview that ended without a trouble has asked for each module of the launch.
LEMMA PreviewHasThem ==
  ASSUME ClosureInv, changes = 0, preview.pending = <<>>,
         \A k \in DOMAIN preview.results : preview.results[k].kind = "module"
  PROVE  ToSet(Requested(program)) \cup Needed \subseteq Seen
<1>1. ToSet(Requested(program)) \subseteq Seen
      /\ \A k \in DOMAIN preview.results : ToSet(preview.results[k].image.needed) \subseteq Seen
  <2>1. Asked = Seen
    BY DEF Asked, ToSet
  <2> QED BY <2>1 DEF ClosureInv, Previewed
<1>2. ASSUME NEW i \in DOMAIN modules, modules[i].requested \in Seen PROVE ToSet(modules[i].image.needed) \subseteq Seen
  <2>1. PICK k \in DOMAIN preview.results : preview.results[k].requested = modules[i].requested
    BY <1>2 DEF Seen
  <2>2. PICK n \in Names : n = modules[i].requested
    <3>1. modules[i] \in Modules
      BY DEF ClosureInv, Types
    <3> QED BY <3>1 DEF Modules
  <2>3. Resolve(store, n, Troubles).kind = "module" /\ Resolve(store, n, Troubles).image = modules[i].image
        /\ store = preview.entries
    BY <2>2 DEF ClosureInv, Answered
  <2>4. Resolve(store, n, {"permission"}) = Resolve(store, n, Troubles)
    BY <2>3, Answering DEF ClosureInv, Troubles
  <2>5. preview.results[k].image = modules[i].image
    BY <2>1, <2>2, <2>3, <2>4 DEF ClosureInv, Previewed
  <2> QED BY <1>1, <2>5
<1> DEFINE late == {i \in DOMAIN modules : modules[i].requested \notin Seen}
<1>3. late = {}
  <2>1. SUFFICES ASSUME late # {} PROVE FALSE
    OBVIOUS
  <2>2. DOMAIN modules \subseteq Nat /\ \A i \in DOMAIN modules : \A j \in 1 .. i - 1 : j \in DOMAIN modules /\ j < i
    BY DEF ClosureInv, Types
  <2>3. PICK i \in late : \A j \in late : i <= j
    BY <2>1, <2>2, LeastNumber
  <2>4. PICK j \in 1 .. i - 1 : modules[i].requested \in ToSet(modules[j].image.needed)
    BY <1>1, <2>3 DEF ClosureInv, Ordered
  <2>5. j \in DOMAIN modules /\ j < i /\ i \in Nat /\ j \in Nat
    BY <2>2, <2>3
  <2>6. modules[j].requested \in Seen
    BY <2>3, <2>5
  <2> QED BY <1>2, <2>3, <2>4, <2>5, <2>6
<1> QED BY <1>1, <1>2, <1>3 DEF Needed, Images

\* What the preview shows as resolved can be launched with.
LEMMA PreviewPromises == ASSUME ClosureInv PROVE PreviewIsSafe
<1>1. SUFFICES ASSUME phase = "failed", changes = 0, preview.pending = <<>>,
                      \A k \in DOMAIN preview.results : preview.results[k].kind = "module",
                      ~(Len(modules) >= MaxModules)
               PROVE  TooBig(Resolve(store, Head(pending), {}))
  BY DEF PreviewIsSafe
<1>2. pending # <<>> /\ pending \in Seq(Names) /\ store = preview.entries
  BY <1>1 DEF ClosureInv, FailsForAReason, Types, Answered
<1>3. PICK n \in Names : n = Head(pending) /\ n \in ToSet(pending)
  BY <1>2, HeadAndTail
<1>4. n \in Seen
  BY <1>1, <1>3, PreviewHasThem DEF ClosureInv, Complete
<1>5. PICK k \in DOMAIN preview.results : preview.results[k].requested = n
  BY <1>4 DEF Seen
<1>6. Resolve(store, n, {"permission"}).kind = "module"
  BY <1>1, <1>2, <1>5 DEF ClosureInv, Previewed
<1>7. \A others \in SUBSET Troubles : Resolve(store, n, others) = Resolve(store, n, {"permission"})
  <2>1. store \in Registries /\ {"permission"} \subseteq Troubles
    BY DEF ClosureInv, Types, Registries, Troubles
  <2> QED BY <1>6, <2>1, RegistryAnswers
<1>8. Resolve(store, n, Troubles) = Resolve(store, n, {}) /\ Resolve(store, n, Troubles).kind = "module"
  BY <1>6, <1>7
<1> QED BY <1>1, <1>3, <1>8 DEF ClosureInv, FailsForAReason

\* A file is of the library it is identified with.
LEMMA LibraryIs ==
  ASSUME NEW f, f.name \in Names, f.image \in ElfImages
  PROVE  LibraryOf(f) = IdentityOf(f)
<1>1. f.image.soname \in Names \cup {None} /\ None \notin Names
  BY Constants
<1>2. IdentityOf(f) \in Names
  BY <1>1 DEF IdentityOf
<1>3. \A n \in Names : (n = f.image.soname \/ (f.image.soname = None /\ n = f.name)) <=> n = IdentityOf(f)
  BY <1>1 DEF IdentityOf
<1> QED BY <1>2, <1>3 DEF LibraryOf

\* Where each name is the name of one library, one module at most has a name: the
\* others of the library were found to be known.
LEMMA OneNaming ==
  ASSUME ClosureInv, OneLibraryPerName, NEW n, NEW i \in Naming(n), NEW j \in Naming(n)
  PROVE  i = j
<1>1. ASSUME NEW k \in Naming(n)
      PROVE  /\ k \in DOMAIN modules /\ n \in FileNames(FileOf(modules[k]))
             /\ LibraryOf(FileOf(modules[k])) = IdentityOf(modules[k])
             /\ \E w \in ReadFrom : FileOf(modules[k]) \in FilesHeld(w)
  <2>1. k \in DOMAIN modules /\ n \in {modules[k].requested, modules[k].name, modules[k].image.soname} \ {None}
    BY DEF Naming, NamesOf
  <2>2. modules[k] \in Modules
    BY <2>1 DEF ClosureInv, Types
  <2>3. modules[k].name \in Names /\ modules[k].image \in ElfImages
    BY <2>2 DEF Modules
  <2>4. FileOf(modules[k]).name = modules[k].name /\ FileOf(modules[k]).image = modules[k].image
    BY DEF FileOf
  <2>5. n \in FileNames(FileOf(modules[k]))
    BY <2>1, <2>4 DEF ClosureInv, FromRegistry, FileNames
  <2>6. LibraryOf(FileOf(modules[k])) = IdentityOf(FileOf(modules[k]))
    BY <2>3, <2>4, LibraryIs
  <2> QED BY <2>1, <2>4, <2>5, <2>6 DEF ClosureInv, FromRegistry, IdentityOf
<1>2. PICK v \in ReadFrom : FileOf(modules[i]) \in FilesHeld(v)
  BY <1>1
<1>3. PICK w \in ReadFrom : FileOf(modules[j]) \in FilesHeld(w)
  BY <1>1
<1>4. n \in FileNames(FileOf(modules[i])) \cap FileNames(FileOf(modules[j]))
  BY <1>1
<1>5. LibraryOf(FileOf(modules[i])) = LibraryOf(FileOf(modules[j]))
  BY <1>2, <1>3, <1>4, Zenon DEF OneLibraryPerName
<1> QED BY <1>1, <1>5 DEF ClosureInv, TypeOK

\* The versions that were checked are those of the files the guest opens.
LEMMA CheckedIsOpened == ASSUME ClosureInv PROVE LaunchIsCompatible
<1>1. SUFFICES ASSUME OneLibraryPerName, phase = "launched",
                      NEW r \in program.requires \cup UNION {m.requires : m \in Images}
               PROVE  Naming(r.library) # {} /\ r.version \in Opened(r.library).defines
  BY DEF LaunchIsCompatible
<1>2. r \in Requirements
  BY DEF Requirements, Images
<1>3. Naming(r.library) # {} /\ r.version \in Provider(r.library).defines
  BY <1>1, <1>2 DEF ClosureInv, Checked, Satisfied
<1>4. PICK i \in Naming(r.library) : \A j \in Naming(r.library) : i = j
  BY <1>1, <1>3, OneNaming
<1>5. i \in Nat
  BY DEF Naming, ClosureInv, Types
<1>6. Naming(r.library) = {i}
  BY <1>4
<1>7. Lowest({i}) = i
  BY <1>5, LeastNumber
<1>8. (CHOOSE k \in {i} : \A j \in {i} : j <= k) = i
  <2>1. \E k \in {i} : \A j \in {i} : j <= k
    BY <1>5
  <2>2. (CHOOSE k \in {i} : \A j \in {i} : j <= k) \in {i}
    BY <2>1, Zenon
  <2> QED BY <2>2
<1> QED BY <1>3, <1>6, <1>7, <1>8 DEF Provider, Opened

\* What is mounted for a guest is closed under what its modules need, within its
\* budgets, and a preview that promises a launch is right; where no two libraries share
\* a name, the file opened under a name has the versions required of it: for any number
\* of libraries, registries exchanged at any moment, and any limits
\* (materializeRuntimeDependencyClosure, prepareLinuxRuntimeEnvironment).
THEOREM ClosureStaysSound == Spec => []ClosureIsSound
<1>1. ClosureInv => ClosureIsClosed
  <2>1. ToSet(<<>>) = {}
    BY DEF ToSet
  <2> QED BY <2>1 DEF ClosureInv, Complete, ClosureIsClosed
<1>2. ClosureInv => ClosureIsSound
  BY <1>1, PreviewPromises, CheckedIsOpened DEF ClosureInv, ClosureIsSound
<1> QED BY <1>2, ClosureInvariance, PTL

-----------------------------------------------------------------------------
(***************************************************************************)
(* What one comes to by going on                                           *)
(***************************************************************************)
\* Going on leads to a higher number.
GoesUp(next) == DOMAIN next \subseteq Nat /\ \A a \in DOMAIN next : next[a] \in Nat /\ a < next[a]

\* C has the first number and all that follow, and nothing else; of two of its
\* numbers the lower one leads to the other.
Follows(C, from, next) ==
  /\ from \in C /\ C \subseteq Nat /\ \A a \in C \cap DOMAIN next : next[a] \in C
  /\ \A a \in C : from <= a
  /\ \A a \in C : a = from \/ \E b \in C \cap DOMAIN next : next[b] = a
  /\ \A a, b \in C : a < b => a \in DOMAIN next /\ next[a] <= b

\* Comes is the least closed set.
LEMMA ComesIsLeast ==
  ASSUME NEW from, NEW next, NEW P, from \in P,
         \A a \in P \cap Comes(from, next) \cap DOMAIN next : next[a] \in P
  PROVE  Comes(from, next) \subseteq P
<1> DEFINE places == {from} \cup {next[a] : a \in DOMAIN next}
           C == Comes(from, next)
           Closed(ats) == from \in ats /\ \A a \in ats \cap DOMAIN next : next[a] \in ats
<1>1. C = {a \in places : \A ats \in SUBSET places : Closed(ats) => a \in ats}
  BY DEF Comes
<1>2. from \in C /\ \A a \in C \cap DOMAIN next : next[a] \in C
  BY <1>1
<1>3. Closed(P \cap C)
  BY <1>2
<1>4. P \cap C \in SUBSET places
  BY <1>1
<1> HIDE DEF places, C
<1>5. \A a \in C : \A ats \in SUBSET places : Closed(ats) => a \in ats
  BY <1>1, Zenon
<1>6. \A a \in C : a \in P \cap C
  BY <1>3, <1>4, <1>5, Zenon
<1>7. C \subseteq P
  BY <1>6
<1> QED BY <1>7 DEF C

\* What Comes is.
LEMMA ComesFollows ==
  ASSUME NEW from \in Nat, NEW next, GoesUp(next)
  PROVE  Follows(Comes(from, next), from, next)
<1> DEFINE C == Comes(from, next)
<1>1. from \in C /\ \A a \in C \cap DOMAIN next : next[a] \in C
  BY DEF Comes
<1>2. \A a \in C : a \in Nat /\ from <= a
  <2> DEFINE P == {a \in Nat : from <= a}
  <2>1. from \in P /\ \A a \in P \cap Comes(from, next) \cap DOMAIN next : next[a] \in P
    BY DEF GoesUp
  <2>2. Comes(from, next) \subseteq P
    <3> HIDE DEF P
    <3> QED BY <2>1, ComesIsLeast
  <2> QED BY <2>2
<1>3. \A a \in C : a = from \/ \E b \in C \cap DOMAIN next : next[b] = a
  <2> DEFINE P == {a \in C : a = from \/ \E b \in C \cap DOMAIN next : next[b] = a}
  <2>1. from \in P /\ \A a \in P \cap Comes(from, next) \cap DOMAIN next : next[a] \in P
    BY <1>1
  <2>2. Comes(from, next) \subseteq P
    <3> HIDE DEF P
    <3> QED BY <2>1, ComesIsLeast
  <2> QED BY <2>2
<1> DEFINE Leads(a, b) == a \in DOMAIN next /\ next[a] <= b
           bad == {b \in C : \E a \in C : a < b /\ ~Leads(a, b)}
<1>4. bad = {}
  <2>1. SUFFICES ASSUME bad # {} PROVE FALSE
    OBVIOUS
  <2>2. PICK b \in bad : \A c \in bad : b <= c
    <3>1. bad \subseteq Nat
      BY <1>2
    <3> HIDE DEF bad
    <3> QED BY <2>1, <3>1, LeastNumber
  <2>3. PICK a \in C : a < b /\ ~Leads(a, b)
    BY <2>2
  <2>4. b \in C /\ b \in Nat /\ a \in Nat /\ from <= a /\ b # from
    BY <1>2, <2>2, <2>3
  <2>5. PICK p \in C \cap DOMAIN next : next[p] = b
    BY <1>3, <2>4
  <2>6. p \in Nat /\ p < b
    BY <1>2, <2>5 DEF GoesUp
  <2>7. CASE p = a
    BY <2>3, <2>4, <2>5, <2>7
  <2>8. CASE p < a
    <3>1. a \notin bad
      BY <2>2, <2>3, <2>4
    <3>2. Leads(p, a)
      BY <2>5, <2>8, <3>1
    <3> QED BY <2>3, <2>4, <2>5, <3>2
  <2>9. CASE a < p
    <3>1. p \notin bad
      BY <2>2, <2>4, <2>6
    <3>2. Leads(a, p)
      BY <2>5, <2>9, <3>1
    <3>3. a \in DOMAIN next /\ next[a] \in Nat
      BY <3>2 DEF GoesUp
    <3> QED BY <2>3, <2>4, <2>6, <3>2, <3>3
  <2> QED BY <2>4, <2>6, <2>7, <2>8, <2>9
<1>5. \A a, b \in C : a < b => a \in DOMAIN next /\ next[a] <= b
  BY <1>4
<1> HIDE DEF C, bad
<1>6. Follows(C, from, next)
  BY <1>1, <1>2, <1>3, <1>5 DEF Follows
<1> QED BY <1>6 DEF C

-----------------------------------------------------------------------------
(***************************************************************************)
(* What Decode returns                                                     *)
(***************************************************************************)
\* There is an instruction, and it ends below the limit.
Fit(image, limit, a) == a < limit /\ image.code[a].size > 0 /\ EndOf(image, a) <= limit

\* Decoding goes on from instruction to instruction.
After(image, limit, a) == IF Fit(image, limit, a) THEN EndOf(image, a) ELSE a
Runs(f, image, from, limit, n) == f[0] = from /\ \A k \in 1 .. n : f[k] = After(image, limit, f[k - 1])

\* The sizes of the instructions below a limit are known.
Sized(image, from, limit) ==
  /\ from \in Nat /\ limit \in Nat /\ from < limit
  /\ \A a \in from .. limit - 1 : image.code[a].size \in Nat

\* It stays between the first address and the limit.
LEMMA AfterStays ==
  ASSUME NEW image, NEW from, NEW limit, Sized(image, from, limit), NEW a \in from .. limit
  PROVE  After(image, limit, a) \in from .. limit /\ a <= After(image, limit, a)
<1>1. a < limit => a \in from .. limit - 1
  BY DEF Sized
<1> QED BY <1>1 DEF Sized, After, Fit, EndOf

\* Decoding can be carried on for any number of instructions.
LEMMA RunExists ==
  ASSUME NEW image, NEW from, NEW limit, Sized(image, from, limit), NEW max \in Nat
  PROVE  \E f \in [0 .. max -> from .. limit] : Runs(f, image, from, limit, max)
<1> DEFINE missing == {n \in 0 .. max : ~ \E f \in [0 .. n -> from .. limit] : Runs(f, image, from, limit, n)}
<1>9. max \in 0 .. max
  OBVIOUS
<1>1. SUFFICES ASSUME missing # {} PROVE FALSE
  BY <1>9
<1>2. PICK m \in missing : \A n \in missing : m <= n
  <2>1. missing \subseteq Nat
    OBVIOUS
  <2> HIDE DEF missing
  <2> QED BY <1>1, <2>1, LeastNumber
<1>0. m \in 0 .. max /\ m \in Nat
  OBVIOUS
<1>3. m # 0
  <2>1. [k \in 0 .. 0 |-> from] \in [0 .. 0 -> from .. limit] /\ Runs([k \in 0 .. 0 |-> from], image, from, limit, 0)
    BY DEF Runs, Sized
  <2> QED BY <1>2, <2>1
<1>4. PICK f \in [0 .. m - 1 -> from .. limit] : Runs(f, image, from, limit, m - 1)
  <2>2. m - 1 \in 0 .. max /\ ~(m <= m - 1)
    BY <1>0, <1>3
  <2> QED BY <1>2, <2>2
<1>5. PICK q \in from .. limit : q = After(image, limit, f[m - 1])
  <2>1. m - 1 \in 0 .. m - 1
    BY <1>0, <1>3
  <2>2. PICK a \in from .. limit : a = f[m - 1]
    BY <1>4, <2>1
  <2> QED BY <2>2, AfterStays
<1> DEFINE g == [k \in 0 .. m |-> IF k = m THEN q ELSE f[k]]
<1>6. g \in [0 .. m -> from .. limit]
  BY <1>0, <1>3, <1>5
<1>7. Runs(g, image, from, limit, m)
  <2>1. m \in 0 .. m /\ 0 \in 0 .. m - 1 /\ \A k \in 0 .. m - 1 : k \in 0 .. m /\ k # m
    BY <1>0, <1>3
  <2>2. g[m] = q /\ \A k \in 0 .. m - 1 : g[k] = f[k]
    BY <2>1
  <2> HIDE DEF g
  <2>3. g[0] = from
    BY <1>4, <2>1, <2>2 DEF Runs
  <2>4. ASSUME NEW k \in 1 .. m PROVE g[k] = After(image, limit, g[k - 1])
    <3>1. k - 1 \in 0 .. m - 1 /\ (k = m \/ (k \in 1 .. m - 1 /\ k \in 0 .. m - 1))
      BY <1>0
    <3>2. g[k - 1] = f[k - 1]
      BY <2>2, <3>1
    <3>3. k \in 1 .. m - 1 => f[k] = After(image, limit, f[k - 1])
      BY <1>4 DEF Runs
    <3> QED BY <1>5, <2>2, <3>1, <3>2, <3>3
  <2> QED BY <2>3, <2>4 DEF Runs
<1> QED BY <1>2, <1>6, <1>7

\* D is what decoding meets from an address on: each of its instructions fits, and
\* each but the first follows another.
Met(D, image, from, limit) ==
  /\ D \subseteq from .. limit - 1 /\ \A a \in D : Fit(image, limit, a)
  /\ from \in D <=> Fit(image, limit, from)
  /\ \A a \in D : a = from \/ \E b \in D : EndOf(image, b) = a

\* Decode returns what decoding meets.
LEMMA DecodeMeets ==
  ASSUME NEW image, NEW from, NEW limit, Sized(image, from, limit)
  PROVE  Met(Decode(image, from, limit), image, from, limit)
<1> DEFINE Fits(a) == a < limit /\ image.code[a].size > 0 /\ EndOf(image, a) <= limit
           body(f) == [n \in 0 .. MaxInstructions |->
                        IF n = 0 THEN from ELSE IF Fits(f[n - 1]) THEN EndOf(image, f[n - 1]) ELSE f[n - 1]]
           at == CHOOSE f : f = body(f)
           bad == {n \in 0 .. MaxInstructions : at[n] \notin from .. limit}
<1>0. MaxInstructions \in Nat /\ 0 <= MaxInstructions - 1
  BY AuditAssumption
<1>1. \E f : f = body(f)
  <2>1. PICK f \in [0 .. MaxInstructions -> from .. limit] : Runs(f, image, from, limit, MaxInstructions)
    BY <1>0, RunExists
  <2>2. ASSUME NEW n \in 0 .. MaxInstructions
        PROVE  f[n] = IF n = 0 THEN from ELSE IF Fits(f[n - 1]) THEN EndOf(image, f[n - 1]) ELSE f[n - 1]
    <3>1. n # 0 => n \in 1 .. MaxInstructions
      OBVIOUS
    <3> QED BY <2>1, <3>1 DEF Runs, After, Fit
  <2>3. f = body(f)
    BY <2>2, Zenon
  <2> QED BY <2>3, Zenon
<1>2. at = body(at)
  BY <1>1, Zenon
<1>3. Decode(image, from, limit) = {a \in {at[n] : n \in 0 .. MaxInstructions - 1} : Fits(a)}
  BY Zenon DEF Decode
<1> HIDE DEF at
<1>4. at[0] = from
  BY <1>0, <1>2
<1>5. ASSUME NEW n \in 1 .. MaxInstructions PROVE at[n] = After(image, limit, at[n - 1])
  <2>1. n \in 0 .. MaxInstructions /\ n # 0
    OBVIOUS
  <2> QED BY <1>2, <2>1, Zenon DEF After, Fit
<1>6. bad = {}
  <2>1. SUFFICES ASSUME bad # {} PROVE FALSE
    OBVIOUS
  <2>2. PICK m \in bad : \A n \in bad : m <= n
    <3>1. bad \subseteq Nat
      BY <1>0
    <3> HIDE DEF bad
    <3> QED BY <2>1, <3>1, LeastNumber
  <2>3. m # 0
    BY <1>4, <2>2 DEF Sized
  <2>4. m \in 1 .. MaxInstructions /\ m - 1 \in 0 .. MaxInstructions /\ m - 1 \notin bad
    BY <1>0, <2>2, <2>3
  <2>5. at[m - 1] \in from .. limit
    BY <2>4
  <2>6. at[m] \in from .. limit
    BY <1>5, <2>4, <2>5, AfterStays
  <2> QED BY <2>2, <2>6
<1>7. \A n \in 0 .. MaxInstructions : at[n] \in from .. limit
  BY <1>6
<1> HIDE DEF bad
<1> DEFINE D == {a \in {at[n] : n \in 0 .. MaxInstructions - 1} : Fits(a)}
<1>8. D \subseteq from .. limit - 1
  BY <1>0, <1>7 DEF Sized
<1>9. \A a \in D : Fit(image, limit, a)
  BY DEF Fit
<1>10. from \in D <=> Fit(image, limit, from)
  BY <1>0, <1>4 DEF Fit
<1>11. ASSUME NEW a \in D, a # from PROVE \E b \in D : EndOf(image, b) = a
  <2> DEFINE K == {n \in 0 .. MaxInstructions - 1 : at[n] = a}
  <2>1. PICK m \in K : \A n \in K : m <= n
    <3>1. K \subseteq Nat /\ K # {}
      BY <1>0
    <3> HIDE DEF K
    <3> QED BY <3>1, LeastNumber
  <2>2. m \in 1 .. MaxInstructions /\ m - 1 \in 0 .. MaxInstructions - 1 /\ at[m] = a /\ ~(m <= m - 1)
    BY <1>0, <1>4, <1>11, <2>1
  <2>3. at[m - 1] # a
    BY <2>1, <2>2
  <2>4. Fit(image, limit, at[m - 1]) /\ a = EndOf(image, at[m - 1])
    BY <1>5, <2>2, <2>3 DEF After
  <2>5. at[m - 1] \in D
    BY <2>2, <2>4 DEF Fit
  <2> QED BY <2>4, <2>5
<1> HIDE DEF D
<1>12. Met(D, image, from, limit)
  BY <1>8, <1>9, <1>10, <1>11 DEF Met
<1> QED BY <1>3, <1>12 DEF D

-----------------------------------------------------------------------------
(***************************************************************************)
(* A chunk of a region                                                     *)
(***************************************************************************)
\* A region whose bytes an image has.
Held(image, r) ==
  /\ r.start \in Nat /\ r.size \in Nat /\ r.size > 0
  /\ \A a \in BytesIn(r) : image.code[a].size \in 0 .. Chunk

\* Where a sweep over a region comes to, and the instructions it meets before an address.
Stops(image, r) == Comes(r.start, GoesOn(image, r))
Before(image, r, c) == {a \in SweepOf(image, r) : a < c}

\* A sweep goes up, and from an instruction to its end.
LEMMA SweepGoesUp ==
  ASSUME NEW image, NEW r, Held(image, r)
  PROVE  /\ GoesUp(GoesOn(image, r)) /\ DOMAIN GoesOn(image, r) = BytesIn(r)
         /\ RegionEnd(r) \in Nat /\ r.start \in BytesIn(r) /\ Chunk \in Nat /\ Chunk > 0
         /\ \A a \in BytesIn(r) :
              /\ a \in Nat /\ r.start <= a /\ a < RegionEnd(r) /\ a + 1 <= RegionEnd(r) /\ image.code[a].size \in Nat
              /\ GoesOn(image, r)[a] = IF Decodes(image, r, a) THEN EndOf(image, a) ELSE a + 1
              /\ GoesOn(image, r)[a] <= RegionEnd(r)
<1>0. Chunk \in Nat /\ Chunk > 0
  BY AuditAssumption
<1>1. RegionEnd(r) \in Nat /\ r.start \in BytesIn(r)
  BY DEF Held, BytesIn, RegionEnd
<1>2. DOMAIN GoesOn(image, r) = BytesIn(r)
  BY DEF GoesOn
<1>3. ASSUME NEW a \in BytesIn(r)
      PROVE  a \in Nat /\ r.start <= a /\ a < RegionEnd(r) /\ a + 1 <= RegionEnd(r) /\ image.code[a].size \in Nat
  <2>1. a \in Nat /\ r.start <= a /\ a < RegionEnd(r) /\ a + 1 <= RegionEnd(r)
    BY <1>1 DEF Held, BytesIn
  <2>2. image.code[a].size \in Nat
    BY <1>0 DEF Held
  <2> QED BY <2>1, <2>2
<1>4. ASSUME NEW a \in BytesIn(r)
      PROVE  GoesOn(image, r)[a] = IF Decodes(image, r, a) THEN EndOf(image, a) ELSE a + 1
  BY DEF GoesOn
<1>5. ASSUME NEW a \in BytesIn(r)
      PROVE  /\ GoesOn(image, r)[a] \in Nat /\ a < GoesOn(image, r)[a] /\ GoesOn(image, r)[a] <= RegionEnd(r)
  BY <1>3, <1>4, <1>1 DEF Decodes, EndOf
<1>6. GoesUp(GoesOn(image, r))
  BY <1>2, <1>3, <1>5 DEF GoesUp
<1> QED BY <1>0, <1>1, <1>2, <1>3, <1>4, <1>5, <1>6

\* The last address of a chunk is one of it.
LEMMA FinalIsLast ==
  ASSUME NEW D, D # {}, NEW from \in Nat, NEW limit \in Nat, D \subseteq from .. limit - 1
  PROVE  Final(D) \in D /\ \A b \in D : b <= Final(D)
<1> DEFINE K == {limit - a : a \in D}
<1>0. ASSUME NEW a \in D PROVE limit - a \in Nat
  <2>1. a \in from .. limit - 1
    OBVIOUS
  <2> QED BY <2>1
<1>1. K \subseteq Nat /\ K # {}
  BY <1>0
<1>2. PICK k \in K : \A j \in K : k <= j
  <2> HIDE DEF K
  <2> QED BY <1>1, LeastNumber
<1>3. PICK z \in D : k = limit - z
  BY <1>2
<1>4. \A b \in D : b <= z
  <2>1. ASSUME NEW b \in D PROVE b <= z
    <3>1. limit - b \in K /\ b \in Nat /\ z \in Nat
      OBVIOUS
    <3>2. limit - z <= limit - b
      BY <1>2, <1>3, <3>1
    <3> QED BY <3>1, <3>2
  <2> QED BY <2>1
<1> QED BY <1>4, Zenon DEF Final

\* Where a sweep stands in a region.
Standing(image, r, c) == Held(image, r) /\ c \in BytesIn(r) /\ c \in Stops(image, r)

\* The chunk at an address.
Reach(r, c) == Least(c + Chunk, RegionEnd(r))

\* A chunk lies in its region, and an instruction at its beginning fits in it as in the region.
LEMMA ReachOf ==
  ASSUME NEW image, NEW r, NEW c, Standing(image, r, c)
  PROVE  /\ Sized(image, c, Reach(r, c)) /\ Reach(r, c) <= RegionEnd(r)
         /\ Fit(image, Reach(r, c), c) <=> Decodes(image, r, c)
         /\ c .. Reach(r, c) - 1 \subseteq BytesIn(r)
<1>1. /\ RegionEnd(r) \in Nat /\ Chunk \in Nat /\ Chunk > 0 /\ c \in Nat /\ c < RegionEnd(r) /\ r.start \in Nat /\ r.start <= c
      /\ \A a \in BytesIn(r) : a \in Nat /\ image.code[a].size \in Nat
  BY SweepGoesUp DEF Standing, Held
<1>2. Reach(r, c) \in Nat /\ c < Reach(r, c) /\ Reach(r, c) <= RegionEnd(r)
  BY <1>1 DEF Reach, Least
<1>3. c .. Reach(r, c) - 1 \subseteq BytesIn(r)
  BY <1>1, <1>2 DEF BytesIn
<1>4. image.code[c].size \in 0 .. Chunk
  BY DEF Standing, Held
<1>5. Fit(image, Reach(r, c), c) <=> Decodes(image, r, c)
  BY <1>1, <1>2, <1>4 DEF Fit, Decodes, EndOf, Reach, Least
<1>6. Sized(image, c, Reach(r, c))
  BY <1>1, <1>2, <1>3 DEF Sized
<1> QED BY <1>2, <1>3, <1>5, <1>6

\* Where there is no instruction the sweep goes on with the next byte.
LEMMA SkipsOne ==
  ASSUME NEW image, NEW r, NEW c, Standing(image, r, c), Decode(image, c, Reach(r, c)) = {}
  PROVE  /\ c + 1 \in Stops(image, r) /\ c + 1 <= RegionEnd(r)
         /\ Before(image, r, c + 1) = Before(image, r, c)
<1>1. Met(Decode(image, c, Reach(r, c)), image, c, Reach(r, c))
  BY ReachOf, DecodeMeets
<1>2. ~Decodes(image, r, c)
  BY <1>1, ReachOf DEF Met
<1>3. c \in BytesIn(r) /\ c \in Nat /\ c + 1 <= RegionEnd(r) /\ GoesOn(image, r)[c] = c + 1
  BY <1>2, SweepGoesUp DEF Standing
<1>4. Follows(Stops(image, r), r.start, GoesOn(image, r))
  BY SweepGoesUp, ComesFollows DEF Standing, Held, Stops
<1>5. c + 1 \in Stops(image, r)
  BY <1>3, <1>4, SweepGoesUp DEF Standing, Follows
<1>6. \A a \in SweepOf(image, r) : a \in Nat /\ a # c
  BY <1>2, SweepGoesUp DEF Standing, SweepOf
<1>7. \A a \in SweepOf(image, r) : a < c + 1 <=> a < c
  BY <1>3, <1>6
<1> QED BY <1>3, <1>5, <1>7 DEF Before

\* Otherwise the instructions decoded are those the sweep meets next.
LEMMA TakesSome ==
  ASSUME NEW image, NEW r, NEW c, Standing(image, r, c), NEW D, D = Decode(image, c, Reach(r, c)), D # {}
  PROVE  /\ Final(D) \in D /\ D \subseteq c .. Reach(r, c) - 1
         /\ c < EndOf(image, Final(D)) /\ EndOf(image, Final(D)) <= RegionEnd(r)
         /\ EndOf(image, Final(D)) \in Stops(image, r)
         /\ Before(image, r, EndOf(image, Final(D))) = Before(image, r, c) \cup D
<1> DEFINE limit == Reach(r, c)
           C == Stops(image, r)
           z == Final(D)
           next == GoesOn(image, r)
<1>1. Met(D, image, c, limit)
  BY ReachOf, DecodeMeets
<1>2. /\ limit \in Nat /\ limit <= RegionEnd(r) /\ c \in Nat /\ c .. limit - 1 \subseteq BytesIn(r) /\ c \in C
      /\ RegionEnd(r) \in Nat
  BY ReachOf, SweepGoesUp DEF Sized, Standing
<1>3. Follows(C, r.start, next)
  BY SweepGoesUp, ComesFollows DEF Standing, Held, Stops
<1>4. z \in D /\ \A b \in D : b <= z
  BY <1>1, <1>2, FinalIsLast DEF Met
<1> HIDE DEF limit, C, z, next
<1>5. DOMAIN next = BytesIn(r)
  BY SweepGoesUp DEF Standing, next
<1>6. ASSUME NEW a \in D
      PROVE  /\ a \in Nat /\ c <= a /\ a \in BytesIn(r) /\ Decodes(image, r, a)
             /\ next[a] = EndOf(image, a) /\ a < EndOf(image, a) /\ EndOf(image, a) \in Nat /\ EndOf(image, a) <= RegionEnd(r)
  <2>1. a \in c .. limit - 1 /\ a \in Nat /\ c <= a /\ Fit(image, limit, a)
    BY <1>1, <1>2 DEF Met
  <2>2. a \in BytesIn(r) /\ image.code[a].size \in Nat
    BY <1>2, <2>1, SweepGoesUp DEF Standing
  <2>3. Decodes(image, r, a) /\ a < EndOf(image, a) /\ EndOf(image, a) \in Nat /\ EndOf(image, a) <= RegionEnd(r)
    BY <1>2, <2>1, <2>2 DEF Fit, Decodes, EndOf
  <2>4. next[a] = EndOf(image, a)
    BY <2>2, <2>3, SweepGoesUp DEF Standing, next
  <2> QED BY <2>1, <2>2, <2>3, <2>4
<1>7. D \subseteq C
  <2> DEFINE bad == {a \in D : a \notin C}
  <2>1. SUFFICES ASSUME bad # {} PROVE FALSE
    OBVIOUS
  <2>2. PICK a \in bad : \A b \in bad : a <= b
    <3>1. bad \subseteq Nat
      BY <1>6
    <3> HIDE DEF bad
    <3> QED BY <2>1, <3>1, LeastNumber
  <2>3. PICK b \in D : EndOf(image, b) = a
    BY <1>1, <1>2, <2>2 DEF Met
  <2>4. b \in C
    <3>1. a \in Nat /\ b \in Nat /\ ~(a <= b)
      BY <1>6, <2>2, <2>3
    <3> QED BY <2>2, <2>3, <3>1
  <2>5. next[b] = a /\ b \in DOMAIN next
    BY <1>5, <1>6, <2>3
  <2>6. a \in C
    BY <1>3, <2>4, <2>5 DEF Follows
  <2> QED BY <2>2, <2>6
<1>8. EndOf(image, z) \in C
  BY <1>3, <1>4, <1>5, <1>6, <1>7 DEF Follows
<1>9. ASSUME NEW a \in C, c <= a, a < EndOf(image, z) PROVE a \in D
  <2>0. a \in Nat
    BY <1>3 DEF Follows
  <2>1. a <= z
    <3>1. z < a => next[z] <= a
      BY <1>3, <1>4, <1>7 DEF Follows
    <3>2. next[z] = EndOf(image, z) /\ z \in Nat /\ EndOf(image, z) \in Nat
      BY <1>4, <1>6
    <3> QED BY <1>9, <2>0, <3>1, <3>2
  <2> DEFINE K == {b \in D : a <= b}
  <2>2. PICK b \in K : \A d \in K : b <= d
    <3>1. K \subseteq Nat /\ K # {}
      BY <1>4, <1>6, <2>1
    <3> HIDE DEF K
    <3> QED BY <3>1, LeastNumber
  <2>3. SUFFICES ASSUME a < b PROVE FALSE
    BY <1>6, <2>0, <2>2
  <2>4. b \in Nat /\ b # c
    BY <1>2, <1>6, <1>9, <2>0, <2>2, <2>3
  <2>5. PICK d \in D : EndOf(image, d) = b
    BY <1>1, <2>2, <2>4 DEF Met
  <2>6. d \in Nat /\ d < b /\ next[d] = b
    BY <1>6, <2>5
  <2>7. d < a
    BY <2>0, <2>2, <2>4, <2>5, <2>6
  <2>8. next[d] <= a
    BY <1>3, <1>7, <2>5, <2>7 DEF Follows
  <2> QED BY <2>0, <2>3, <2>4, <2>6, <2>8
<1>10. Before(image, r, EndOf(image, z)) = Before(image, r, c) \cup D
  <2>1. \A a \in SweepOf(image, r) : a \in Nat /\ a \in C
    BY SweepGoesUp DEF Standing, SweepOf, Stops, C
  <2>2. ASSUME NEW a \in D PROVE a \in SweepOf(image, r) /\ a < EndOf(image, z)
    <3>1. a \in SweepOf(image, r)
      BY <1>6, <1>7 DEF SweepOf, Stops, C
    <3>2. a <= z /\ z < EndOf(image, z) /\ a \in Nat /\ z \in Nat /\ EndOf(image, z) \in Nat
      BY <1>4, <1>6
    <3> QED BY <3>1, <3>2
  <2>3. c \in Nat /\ EndOf(image, z) \in Nat /\ c < EndOf(image, z)
    <3>1. c <= z /\ z < EndOf(image, z) /\ z \in Nat /\ EndOf(image, z) \in Nat
      BY <1>4, <1>6
    <3> QED BY <1>2, <3>1
  <2>4. ASSUME NEW a \in SweepOf(image, r) PROVE a < EndOf(image, z) <=> (a < c \/ a \in D)
    BY <1>9, <2>1, <2>2, <2>3
  <2> QED BY <2>2, <2>4 DEF Before
<1>11. c < EndOf(image, z) /\ EndOf(image, z) <= RegionEnd(r)
  <2>1. c <= z /\ z < EndOf(image, z) /\ z \in Nat /\ EndOf(image, z) \in Nat /\ EndOf(image, z) <= RegionEnd(r)
    BY <1>4, <1>6
  <2> QED BY <1>2, <2>1
<1>12. D \subseteq c .. limit - 1
  BY <1>1 DEF Met
<1> QED BY <1>4, <1>8, <1>10, <1>11, <1>12 DEF limit, C, z

-----------------------------------------------------------------------------
(***************************************************************************)
(* The evidence that is kept, and the bytes that are counted               *)
(***************************************************************************)
\* Every element of S is below every element of T.
AllBelow(S, T) == \A a \in S, b \in T : a < b

\* Of a set and what comes after it, the earliest are those of what was kept and what comes.
LEMMA KeepsTheEarliest ==
  ASSUME NEW n \in Nat, NEW S, NEW T, S \subseteq Nat, T \subseteq Nat, IsFiniteSet(S), IsFiniteSet(T),
         AllBelow(S, T)
  PROVE  Earliest(n, Earliest(n, S) \cup T) = Earliest(n, S \cup T)
<1> DEFINE E == Earliest(n, S)
           U == E \cup T
           Low(X, a) == {b \in X : b < a}
<1>1. E \subseteq S /\ \A a \in S : a \in E <=> Cardinality(Low(S, a)) < n
  BY DEF Earliest
<1>2. IsFiniteSet(E) /\ IsFiniteSet(U) /\ IsFiniteSet(S \cup T)
  <2>1. IsFiniteSet(E)
    BY <1>1, FS_Subset
  <2> HIDE DEF E
  <2> QED BY <2>1, FS_Union
<1> HIDE DEF E
<1>3. \A X, Y : IsFiniteSet(X) /\ Y \subseteq X =>
        Cardinality(X) \in Nat /\ Cardinality(Y) \in Nat /\ Cardinality(Y) <= Cardinality(X)
  BY FS_Subset, FS_CardinalityType
<1>4. ASSUME NEW a \in S
      PROVE  /\ Low(S \cup T, a) = Low(S, a) /\ Low(U, a) \subseteq Low(S, a) /\ a \notin T
             /\ IsFiniteSet(Low(S, a))
  <2>1. \A b \in T : b \in Nat /\ a \in Nat /\ a < b
    BY DEF AllBelow
  <2>2. Low(S, a) \subseteq S
    OBVIOUS
  <2>3. IsFiniteSet(Low(S, a))
    BY <2>2, FS_Subset
  <2>4. \A b \in T : ~(b < a)
    BY <2>1
  <2>5. Low(S \cup T, a) = Low(S, a) /\ Low(U, a) \subseteq Low(S, a)
    BY <1>1, <2>4
  <2>6. a \notin T
    BY <2>1
  <2> QED BY <2>3, <2>5, <2>6
<1>5. ASSUME NEW a \in S PROVE a \in Earliest(n, U) <=> a \in Earliest(n, S \cup T)
  <2>1. a \in Earliest(n, S \cup T) <=> a \in E
    BY <1>1, <1>4 DEF Earliest
  <2>2. a \in Earliest(n, U) => a \in E
    BY <1>4 DEF Earliest
  <2>3. ASSUME a \in E PROVE a \in Earliest(n, U)
    <3>1. Cardinality(Low(S, a)) < n
      BY <1>1, <2>3
    <3>2. /\ Cardinality(Low(U, a)) <= Cardinality(Low(S, a)) /\ Cardinality(Low(U, a)) \in Nat
          /\ Cardinality(Low(S, a)) \in Nat
      BY <1>3, <1>4
    <3>3. Cardinality(Low(U, a)) < n
      BY <3>1, <3>2
    <3> QED BY <2>3, <3>3 DEF Earliest
  <2> QED BY <2>1, <2>2, <2>3
<1>6. ASSUME NEW a \in T PROVE a \in Earliest(n, U) <=> a \in Earliest(n, S \cup T)
  <2>1. CASE E = S
    BY <2>1
  <2>2. CASE E # S
    <3>1. PICK m \in S \ E : \A b \in S \ E : m <= b
      <4>1. S \ E \subseteq Nat /\ S \ E # {}
        BY <1>1, <2>2
      <4> QED BY <4>1, LeastNumber
    <3>2. Low(S, m) \subseteq E
      <4>1. ASSUME NEW b \in S, b < m, b \notin E PROVE FALSE
        <5>1. b \in Nat /\ m \in Nat /\ m <= b
          BY <3>1, <4>1
        <5> QED BY <4>1, <5>1
      <4> QED BY <4>1
    <3>3. ~(Cardinality(Low(S, m)) < n)
      BY <1>1, <3>1
    <3>4. Low(S, m) \subseteq Low(U, a) /\ Low(S, m) \subseteq Low(S \cup T, a)
      <4>1. \A b \in S : b < a
        BY DEF AllBelow
      <4>2. ASSUME NEW b \in Low(S, m) PROVE b \in E /\ b \in S /\ b < a
        BY <3>2, <4>1
      <4> QED BY <4>2
    <3>5. IsFiniteSet(Low(U, a)) /\ IsFiniteSet(Low(S \cup T, a))
      <4>1. Low(U, a) \subseteq U /\ Low(S \cup T, a) \subseteq S \cup T
        OBVIOUS
      <4> HIDE DEF Low, U
      <4> QED BY <1>2, <4>1, FS_Subset
    <3> HIDE DEF Low, U
    <3>6. /\ Cardinality(Low(S, m)) \in Nat
          /\ Cardinality(Low(U, a)) \in Nat /\ Cardinality(Low(S, m)) <= Cardinality(Low(U, a))
          /\ Cardinality(Low(S \cup T, a)) \in Nat /\ Cardinality(Low(S, m)) <= Cardinality(Low(S \cup T, a))
      BY <1>3, <3>4, <3>5
    <3>7. ~(Cardinality(Low(U, a)) < n) /\ ~(Cardinality(Low(S \cup T, a)) < n)
      BY <3>3, <3>6
    <3> QED BY <3>7 DEF Earliest, Low
  <2> QED BY <2>1, <2>2
<1>7. Earliest(n, U) \subseteq S \cup T /\ Earliest(n, S \cup T) \subseteq S \cup T
  BY <1>1 DEF Earliest
<1> HIDE DEF U
<1>8. Earliest(n, U) = Earliest(n, S \cup T)
  BY <1>5, <1>6, <1>7
<1> QED BY <1>8 DEF U, E

\* Bytes after those of a set are counted with them.
LEMMA CountsOn ==
  ASSUME NEW S, IsFiniteSet(S), NEW c \in Nat, NEW e \in Nat, c < e, S \subseteq Nat, \A a \in S : a < c
  PROVE  IsFiniteSet(S \cup (c .. e - 1)) /\ Cardinality(S \cup (c .. e - 1)) = Cardinality(S) + (e - c)
<1>1. c .. e - 1 \subseteq Nat /\ S \cap (c .. e - 1) = {} /\ c \in Int /\ e - 1 \in Int /\ ~(c > e - 1) /\ e - 1 - c + 1 = e - c
  OBVIOUS
<1>2. IsFiniteSet(c .. e - 1) /\ Cardinality(c .. e - 1) = e - c
  BY <1>1, FS_Interval
<1>3. Cardinality(S) \in Nat
  BY FS_CardinalityType
<1>4. /\ IsFiniteSet(S \cup (c .. e - 1))
      /\ Cardinality(S \cup (c .. e - 1)) = Cardinality(S) + Cardinality(c .. e - 1) - Cardinality(S \cap (c .. e - 1))
  BY <1>2, FS_Union
<1>5. Cardinality(S \cap (c .. e - 1)) = 0
  BY <1>1, FS_EmptySet
<1> QED BY <1>2, <1>3, <1>4, <1>5

-----------------------------------------------------------------------------
(***************************************************************************)
(* A sweep over several regions                                            *)
(***************************************************************************)
\* The fields of a scan.
Shaped(s) ==
  s = [image |-> s.image, todo |-> s.todo, cursor |-> s.cursor, lines |-> s.lines, found |-> s.found,
       decoded |-> s.decoded, skipped |-> s.skipped]

Current(s) == Lowermost(s.todo)

\* Regions that share no byte.
Regions(image, R) ==
  /\ IsFiniteSet(R) /\ \A r \in R : Held(image, r)
  /\ \A r, q \in R : r # q => RegionEnd(r) <= q.start \/ RegionEnd(q) <= r.start

\* The bytes passed, and the instructions in them.
Passed(s, R) == AllBytes(R \ s.todo) \cup (IF s.todo = {} THEN {} ELSE Current(s).start .. s.cursor - 1)
FoundIn(s, R) ==
  InstructionsOf(s.image, R \ s.todo) \cup (IF s.todo = {} THEN {} ELSE Before(s.image, Current(s), s.cursor))

\* What was found is what the bytes passed hold, and each of them was counted.
Accounted(s, R) ==
  /\ s.lines = FoundIn(s, R)
  /\ s.found = [families |-> FamiliesOf(s.image, s.lines),
                evidence |-> Earliest(MaxEvidence, Unsupported(s.image, s.lines))]
  /\ s.decoded \in Nat /\ s.skipped \in Nat /\ s.decoded + s.skipped = Cardinality(Passed(s, R))

\* A scan that took a chunk, and one that is at a byte of a region or at the end.
Going(s, R) ==
  /\ Shaped(s) /\ s.todo \subseteq R /\ s.cursor \in Nat
  /\ \A r \in R \ s.todo, q \in s.todo : RegionEnd(r) <= q.start
  /\ s.todo # {} =>
       s.cursor \in Stops(s.image, Current(s)) /\ Current(s).start <= s.cursor /\ s.cursor <= RegionEnd(Current(s))
  /\ Accounted(s, R)

Sound(s, R) == Going(s, R) /\ (s.todo # {} => s.cursor < RegionEnd(Current(s)))

\* The lowermost region.
LEMMA LowermostOf ==
  ASSUME NEW R, R # {}, \A r \in R : r.start \in Nat
  PROVE  Lowermost(R) \in R /\ \A q \in R : Lowermost(R).start <= q.start
<1> DEFINE K == {r.start : r \in R}
<1>1. K \subseteq Nat /\ K # {}
  OBVIOUS
<1>2. PICK k \in K : \A j \in K : k <= j
  <2> HIDE DEF K
  <2> QED BY <1>1, LeastNumber
<1>3. PICK r \in R : k = r.start
  BY <1>2
<1>4. \A q \in R : r.start <= q.start
  BY <1>2, <1>3
<1> QED BY <1>4, Zenon DEF Lowermost

\* Where a scan goes at the end of a region.
LEMMA OnwardsTo ==
  ASSUME NEW s, Shaped(s)
  PROVE  /\ Shaped(Onwards(s)) /\ Onwards(s).image = s.image /\ Onwards(s).lines = s.lines
         /\ Onwards(s).found = s.found /\ Onwards(s).decoded = s.decoded /\ Onwards(s).skipped = s.skipped
         /\ IF s.cursor < RegionEnd(Current(s)) THEN Onwards(s) = s
            ELSE /\ Onwards(s).todo = s.todo \ {Current(s)}
                 /\ Onwards(s).cursor = StartOf(s.todo \ {Current(s)})
<1> DEFINE r == Lowermost(s.todo)
           start == StartOf(s.todo \ {r})
<1>1. Onwards(s) = IF s.cursor < RegionEnd(r) THEN s ELSE [s EXCEPT !.todo = @ \ {r}, !.cursor = start]
  BY Zenon DEF Onwards
<1>2. Current(s) = r
  BY DEF Current
<1> HIDE DEF r, start
<1>3. ASSUME ~(s.cursor < RegionEnd(r))
      PROVE  Onwards(s) = [image |-> s.image, todo |-> s.todo \ {r}, cursor |-> start, lines |-> s.lines,
                           found |-> s.found, decoded |-> s.decoded, skipped |-> s.skipped]
  BY <1>1, <1>3 DEF Shaped
<1>4. CASE s.cursor < RegionEnd(r)
  BY <1>1, <1>2, <1>4
<1>5. CASE ~(s.cursor < RegionEnd(r))
  <2>1. start = StartOf(s.todo \ {r})
    BY DEF start
  <2> QED BY <1>2, <1>3, <1>5, <2>1 DEF Shaped
<1> QED BY <1>4, <1>5

\* The regions a scan has yet to do.
LEMMA CurrentOf ==
  ASSUME NEW s, NEW R, Regions(s.image, R), s.todo \subseteq R, s.todo # {}
  PROVE  /\ Current(s) \in s.todo /\ Current(s) \in R /\ Held(s.image, Current(s))
         /\ \A q \in s.todo : Current(s).start <= q.start
<1>1. \A r \in s.todo : r.start \in Nat
  BY DEF Regions, Held
<1> QED BY <1>1, LowermostOf DEF Current, Regions

\* The bytes passed are bytes of the regions, finitely many, and lie behind the scan.
LEMMA PassedBytes ==
  ASSUME NEW s, NEW R, Regions(s.image, R), Going(s, R)
  PROVE  /\ Passed(s, R) \subseteq Nat /\ IsFiniteSet(Passed(s, R)) /\ FoundIn(s, R) \subseteq Passed(s, R)
         /\ Passed(s, R) \subseteq AllBytes(R) /\ IsFiniteSet(AllBytes(R))
         /\ s.todo # {} => \A a \in Passed(s, R) : a < s.cursor
<1>1. \A r \in R : Held(s.image, r)
  BY DEF Regions
<1>2. ASSUME NEW r \in R
      PROVE  BytesIn(r) \subseteq Nat /\ IsFiniteSet(BytesIn(r)) /\ \A a \in BytesIn(r) : a < RegionEnd(r)
  <2>0. \A a, b \in Int : IsFiniteSet(a .. b)
    BY FS_Interval
  <2>3. r.start \in Nat /\ RegionEnd(r) \in Nat
    <3>1. Held(s.image, r)
      BY <1>1
    <3> QED BY <3>1, SweepGoesUp DEF Held
  <2>1. r.start \in Int /\ RegionEnd(r) - 1 \in Int
    BY <2>3
  <2>2. IsFiniteSet(BytesIn(r))
    BY <2>0, <2>1, Zenon DEF BytesIn
  <2> QED BY <2>2, <2>3 DEF BytesIn
<1>3. AllBytes(R) \subseteq Nat
  BY <1>2 DEF AllBytes
<1>4. IsFiniteSet(AllBytes(R))
  <2>1. IsFiniteSet({BytesIn(r) : r \in R})
    <3> DEFINE f == [r \in R |-> BytesIn(r)]
               T == {BytesIn(r) : r \in R}
    <3>1. f \in Surjection(R, T)
      BY DEF Surjection
    <3>2. IsFiniteSet(R)
      BY DEF Regions
    <3> HIDE DEF f, T
    <3>3. IsFiniteSet(T)
      BY <3>1, <3>2, FS_Surjection
    <3> QED BY <3>3 DEF T
  <2>2. \A T \in {BytesIn(r) : r \in R} : IsFiniteSet(T)
    BY <1>2
  <2> QED BY <2>1, <2>2, FS_UNION, Zenon DEF AllBytes
<1>5. AllBytes(R \ s.todo) \subseteq AllBytes(R)
  BY DEF AllBytes
<1>6. ASSUME s.todo # {}
      PROVE  /\ Current(s).start .. s.cursor - 1 \subseteq AllBytes(R)
             /\ \A a \in Passed(s, R) : a < s.cursor
             /\ Before(s.image, Current(s), s.cursor) \subseteq Current(s).start .. s.cursor - 1
  <2> DEFINE r == Current(s)
  <2>1. r \in R /\ Held(s.image, r) /\ r \in s.todo
    BY <1>6, CurrentOf DEF Going
  <2>2. s.cursor \in Nat /\ r.start \in Nat /\ r.start <= s.cursor /\ s.cursor <= RegionEnd(r) /\ RegionEnd(r) \in Nat
    BY <1>6, <2>1, SweepGoesUp DEF Going, Held
  <2>3. r.start .. s.cursor - 1 \subseteq BytesIn(r)
    BY <2>2 DEF BytesIn
  <2>4. ASSUME NEW q \in R \ s.todo, NEW a \in BytesIn(q) PROVE a < s.cursor
    <3>1. RegionEnd(q) <= r.start
      BY <2>1 DEF Going
    <3>2. a \in Nat /\ a < RegionEnd(q) /\ RegionEnd(q) \in Nat
      BY <1>1, <1>2, SweepGoesUp
    <3> QED BY <2>2, <3>1, <3>2
  <2>5. \A a \in AllBytes(R \ s.todo) : a < s.cursor
    BY <2>4 DEF AllBytes
  <2>6. ASSUME NEW a \in Before(s.image, r, s.cursor) PROVE a \in r.start .. s.cursor - 1
    <3>1. a \in BytesIn(r) /\ a < s.cursor
      BY DEF Before, SweepOf
    <3> QED BY <2>2, <3>1 DEF BytesIn
  <2>7. \A a \in r.start .. s.cursor - 1 : a < s.cursor
    BY <2>2
  <2> HIDE DEF r
  <2>8. r.start .. s.cursor - 1 \subseteq AllBytes(R)
    BY <2>1, <2>3 DEF AllBytes
  <2>9. \A a \in Passed(s, R) : a < s.cursor
    BY <1>6, <2>5, <2>7 DEF Passed, r
  <2> QED BY <2>6, <2>8, <2>9 DEF r
<1>7. Passed(s, R) \subseteq AllBytes(R)
  BY <1>5, <1>6 DEF Passed
<1>8. InstructionsOf(s.image, R \ s.todo) \subseteq AllBytes(R \ s.todo)
  BY DEF InstructionsOf, SweepOf, AllBytes
<1>9. FoundIn(s, R) \subseteq Passed(s, R)
  BY <1>6, <1>8 DEF FoundIn, Passed
<1>10. IsFiniteSet(Passed(s, R))
  BY <1>4, <1>7, FS_Subset
<1> QED BY <1>3, <1>4, <1>6, <1>7, <1>9, <1>10

\* At the end of a region a scan goes on with the next one.
LEMMA GoesOnwards ==
  ASSUME NEW s, NEW R, Regions(s.image, R), Going(s, R), s.todo # {}
  PROVE  Sound(Onwards(s), R) /\ Onwards(s).image = s.image
<1> DEFINE m == Onwards(s)
           r == Current(s)
<1>1. /\ Shaped(m) /\ m.image = s.image /\ m.lines = s.lines
      /\ m.found = s.found /\ m.decoded = s.decoded /\ m.skipped = s.skipped
      /\ IF s.cursor < RegionEnd(r) THEN m = s
         ELSE m.todo = s.todo \ {r} /\ m.cursor = StartOf(m.todo)
  BY OnwardsTo DEF Going
<1> HIDE DEF m, r
<1>2. CASE s.cursor < RegionEnd(r)
  <2>1. m = s
    BY <1>1, <1>2
  <2> QED BY <1>1, <1>2, <2>1 DEF Sound, m, r
<1>3. CASE ~(s.cursor < RegionEnd(r))
  <2>1. r \in s.todo /\ r \in R /\ Held(s.image, r) /\ \A q \in s.todo : r.start <= q.start
    BY CurrentOf DEF Going, r
  <2>2. s.cursor = RegionEnd(r) /\ r.start \in Nat /\ RegionEnd(r) \in Nat /\ r.start < RegionEnd(r)
    <3>1. r.start \in Nat /\ RegionEnd(r) \in Nat /\ r.start \in BytesIn(r)
      BY <2>1, SweepGoesUp DEF Held
    <3>2. s.cursor \in Nat /\ s.cursor <= RegionEnd(r)
      BY DEF Going, r
    <3> QED BY <1>3, <3>1, <3>2 DEF BytesIn
  <2>3. m.todo = s.todo \ {r} /\ m.cursor = StartOf(m.todo) /\ m.todo \subseteq R /\ R \ m.todo = (R \ s.todo) \cup {r}
    BY <1>1, <1>3, <2>1 DEF Going
  <2>4. ASSUME NEW x \in R \ m.todo, NEW q \in m.todo PROVE RegionEnd(x) <= q.start
    <3>1. CASE x = r
      <4>1. q # r /\ q \in s.todo /\ q \in R /\ Held(s.image, q)
        BY <2>3 DEF Regions, Going
      <4>2. RegionEnd(r) <= q.start \/ RegionEnd(q) <= r.start
        BY <2>1, <4>1 DEF Regions
      <4>3. q.start \in Nat /\ q.start < RegionEnd(q) /\ RegionEnd(q) \in Nat /\ r.start <= q.start
        BY <2>1, <4>1, SweepGoesUp DEF Held
      <4> QED BY <2>2, <3>1, <4>2, <4>3
    <3>2. CASE x # r
      BY <2>3, <3>2 DEF Going
    <3> QED BY <3>1, <3>2
  <2>5. ASSUME m.todo # {}
        PROVE  /\ Held(m.image, Current(m)) /\ m.cursor = Current(m).start
               /\ m.cursor \in Nat /\ m.cursor \in Stops(m.image, Current(m)) /\ m.cursor < RegionEnd(Current(m))
               /\ RegionEnd(Current(m)) \in Nat
    <3>1. Held(m.image, Current(m)) /\ m.cursor = Current(m).start
      BY <1>1, <2>3, <2>5, CurrentOf DEF StartOf, Current
    <3>2. m.cursor \in Nat /\ m.cursor < RegionEnd(Current(m)) /\ RegionEnd(Current(m)) \in Nat
      BY <3>1, SweepGoesUp DEF Held
    <3>3. m.cursor \in Stops(m.image, Current(m))
      BY <3>1, SweepGoesUp, ComesFollows DEF Held, Follows, Stops
    <3> QED BY <3>1, <3>2, <3>3
  <2>6. m.cursor \in Nat
    BY <2>3, <2>5 DEF StartOf
  <2>7. Before(s.image, r, s.cursor) = SweepOf(s.image, r)
    <3>1. \A a \in SweepOf(s.image, r) : a < s.cursor
      BY <2>1, <2>2, SweepGoesUp DEF SweepOf
    <3> QED BY <3>1 DEF Before
  <2>8. m.todo # {} => Before(m.image, Current(m), m.cursor) = {}
    <3>1. ASSUME m.todo # {}, NEW a \in SweepOf(m.image, Current(m)) PROVE ~(a < m.cursor)
      <4>1. a \in BytesIn(Current(m))
        BY DEF SweepOf
      <4>2. a \in Nat /\ Current(m).start <= a
        BY <2>5, <3>1, <4>1, SweepGoesUp
      <4> QED BY <2>5, <3>1, <4>2
    <3> QED BY <3>1 DEF Before
  <2>9. FoundIn(m, R) = FoundIn(s, R)
    <3>1. InstructionsOf(m.image, R \ m.todo) = InstructionsOf(s.image, R \ s.todo) \cup SweepOf(s.image, r)
      BY <1>1, <2>3 DEF InstructionsOf
    <3>2. FoundIn(m, R) = InstructionsOf(m.image, R \ m.todo)
      BY <2>8 DEF FoundIn
    <3>3. FoundIn(s, R) = InstructionsOf(s.image, R \ s.todo) \cup SweepOf(s.image, r)
      BY <2>7 DEF FoundIn, r
    <3> QED BY <3>1, <3>2, <3>3
  <2>10. Passed(m, R) = Passed(s, R)
    <3>1. AllBytes(R \ m.todo) = AllBytes(R \ s.todo) \cup BytesIn(r)
      BY <2>3 DEF AllBytes
    <3>2. Passed(m, R) = AllBytes(R \ m.todo)
      <4>1. m.todo # {} => Current(m).start .. m.cursor - 1 = {}
        BY <2>5
      <4> QED BY <4>1 DEF Passed
    <3>3. Passed(s, R) = AllBytes(R \ s.todo) \cup BytesIn(r)
      BY <2>2 DEF Passed, r, BytesIn
    <3> QED BY <3>1, <3>2, <3>3
  <2>11. Accounted(m, R)
    BY <1>1, <2>9, <2>10 DEF Going, Accounted
  <2>12. m.todo # {} => Current(m).start <= m.cursor /\ m.cursor <= RegionEnd(Current(m))
    BY <2>5
  <2>13. Going(m, R)
    BY <1>1, <2>3, <2>4, <2>5, <2>6, <2>11, <2>12 DEF Going
  <2> QED BY <1>1, <2>5, <2>13 DEF Sound, m
<1> QED BY <1>2, <1>3

\* The scan with some fields changed.
Changes(m, s, cursor, lines, found, decoded, skipped) ==
  /\ Shaped(m) /\ m.image = s.image /\ m.todo = s.todo /\ m.cursor = cursor /\ m.lines = lines
  /\ m.found = found /\ m.decoded = decoded /\ m.skipped = skipped

\* A scan whose fields are changed.
LEMMA ChangedFields ==
  ASSUME NEW s, Shaped(s), NEW cursor, NEW lines, NEW found, NEW decoded, NEW skipped
  PROVE  /\ Changes([s EXCEPT !.cursor = cursor, !.skipped = skipped], s, cursor, s.lines, s.found, s.decoded, skipped)
         /\ Changes([s EXCEPT !.lines = lines, !.found = found, !.decoded = decoded, !.cursor = cursor],
                    s, cursor, lines, found, decoded, s.skipped)
<1>1. PICK m : m = [s EXCEPT !.cursor = cursor, !.skipped = skipped]
  OBVIOUS
<1>2. m = [image |-> s.image, todo |-> s.todo, cursor |-> cursor, lines |-> s.lines, found |-> s.found,
           decoded |-> s.decoded, skipped |-> skipped]
  BY <1>1 DEF Shaped
<1>3. Changes(m, s, cursor, s.lines, s.found, s.decoded, skipped)
  BY <1>2 DEF Changes, Shaped
<1>4. PICK t : t = [s EXCEPT !.lines = lines, !.found = found, !.decoded = decoded, !.cursor = cursor]
  OBVIOUS
<1>5. t = [image |-> s.image, todo |-> s.todo, cursor |-> cursor, lines |-> lines, found |-> found,
           decoded |-> decoded, skipped |-> s.skipped]
  BY <1>4 DEF Shaped
<1>6. Changes(t, s, cursor, lines, found, decoded, s.skipped)
  BY <1>5 DEF Changes, Shaped
<1> QED BY <1>1, <1>3, <1>4, <1>6, Zenon

\* A scan that skips some bytes.
LEMMA SkippedIs ==
  ASSUME NEW s, Shaped(s), NEW n
  PROVE  \E m : Changes(m, s, s.cursor + n, s.lines, s.found, s.decoded, s.skipped + n) /\ Skipped(s, n) = Onwards(m)
<1> DEFINE m == [s EXCEPT !.cursor = @ + n, !.skipped = @ + n]
<1>1. Skipped(s, n) = Onwards(m)
  BY Zenon DEF Skipped
<1>2. Changes(m, s, s.cursor + n, s.lines, s.found, s.decoded, s.skipped + n)
  BY ChangedFields, Zenon
<1> HIDE DEF m
<1> QED BY <1>1, <1>2

\* A scan that takes some instructions.
LEMMA TookIs ==
  ASSUME NEW s, Shaped(s), NEW D, NEW end
  PROVE  \E m : /\ Changes(m, s, end, s.lines \cup D, Noted(s.found, s.image, D), s.decoded + (end - s.cursor), s.skipped)
                /\ Took(s, D, end) = Onwards(m)
<1> DEFINE m == [s EXCEPT !.lines = @ \cup D, !.found = Noted(@, s.image, D),
                          !.decoded = @ + (end - s.cursor), !.cursor = end]
<1>1. Took(s, D, end) = Onwards(m)
  BY Zenon DEF Took
<1>2. Changes(m, s, end, s.lines \cup D, Noted(s.found, s.image, D), s.decoded + (end - s.cursor), s.skipped)
  BY ChangedFields, Zenon
<1> HIDE DEF m
<1> QED BY <1>1, <1>2

\* What a chunk adds to what was passed and found.
LEMMA PassesOn ==
  ASSUME NEW s, NEW R, Regions(s.image, R), Going(s, R), s.todo # {}, NEW e \in Nat, s.cursor < e,
         NEW m, m.image = s.image, m.todo = s.todo, m.cursor = e
  PROVE  /\ Passed(m, R) = Passed(s, R) \cup (s.cursor .. e - 1)
         /\ Cardinality(Passed(m, R)) = Cardinality(Passed(s, R)) + (e - s.cursor)
         /\ Cardinality(Passed(s, R)) \in Nat
<1> DEFINE r == Current(s)
<1>1. r.start \in Nat /\ s.cursor \in Nat /\ r.start <= s.cursor
  BY CurrentOf DEF Held, Going
<1>2. r.start .. e - 1 = (r.start .. s.cursor - 1) \cup (s.cursor .. e - 1)
  BY <1>1
<1>3. Current(m) = r
  BY DEF Current
<1> HIDE DEF r
<1>4. Passed(m, R) = Passed(s, R) \cup (s.cursor .. e - 1)
  BY <1>2, <1>3 DEF Passed, r
<1>5. Passed(s, R) \subseteq Nat /\ IsFiniteSet(Passed(s, R)) /\ \A a \in Passed(s, R) : a < s.cursor
  BY PassedBytes
<1>6. Cardinality(Passed(s, R) \cup (s.cursor .. e - 1)) = Cardinality(Passed(s, R)) + (e - s.cursor)
  BY <1>1, <1>5, CountsOn
<1> QED BY <1>4, <1>5, <1>6, FS_CardinalityType

\* A byte that is skipped.
LEMMA SkipsSoundly ==
  ASSUME NEW s, NEW R, Regions(s.image, R), Sound(s, R), s.todo # {},
         Decode(s.image, s.cursor, Reach(Current(s), s.cursor)) = {}
  PROVE  Sound(Skipped(s, 1), R) /\ Skipped(s, 1).image = s.image
<1>1. PICK m : Changes(m, s, s.cursor + 1, s.lines, s.found, s.decoded, s.skipped + 1) /\ Skipped(s, 1) = Onwards(m)
  BY SkippedIs DEF Sound, Going
<1>2. Standing(s.image, Current(s), s.cursor)
  BY CurrentOf DEF Standing, Sound, Going, Held, BytesIn, RegionEnd
<1>3. /\ s.cursor + 1 \in Stops(s.image, Current(s)) /\ s.cursor + 1 <= RegionEnd(Current(s))
      /\ Before(s.image, Current(s), s.cursor + 1) = Before(s.image, Current(s), s.cursor)
  BY <1>2, SkipsOne
<1>4. s.cursor \in Nat /\ s.cursor + 1 \in Nat /\ s.cursor < s.cursor + 1 /\ s.cursor + 1 - s.cursor = 1
  BY DEF Sound, Going
<1>5. /\ m.image = s.image /\ m.todo = s.todo /\ m.cursor = s.cursor + 1 /\ m.lines = s.lines
      /\ m.found = s.found /\ m.decoded = s.decoded /\ m.skipped = s.skipped + 1 /\ Shaped(m) /\ Current(m) = Current(s)
  BY <1>1 DEF Changes, Current
<1>6. FoundIn(m, R) = FoundIn(s, R)
  BY <1>3, <1>5 DEF FoundIn
<1>7. Cardinality(Passed(m, R)) = Cardinality(Passed(s, R)) + 1 /\ Cardinality(Passed(s, R)) \in Nat
  BY <1>4, <1>5, PassesOn DEF Sound
<1>8. Accounted(m, R)
  BY <1>5, <1>6, <1>7 DEF Sound, Going, Accounted
<1>9. Current(m).start <= m.cursor
  <2>1. Current(s).start \in Nat /\ Current(s).start <= s.cursor
    BY <1>2, SweepGoesUp DEF Standing, Held
  <2> QED BY <1>4, <1>5, <2>1
<1>10. Going(m, R)
  BY <1>3, <1>4, <1>5, <1>8, <1>9 DEF Sound, Going
<1>11. Regions(m.image, R) /\ m.todo # {}
  BY <1>5
<1> QED BY <1>1, <1>5, <1>10, <1>11, GoesOnwards

\* Instructions that are taken.
LEMMA TakesSoundly ==
  ASSUME NEW s, NEW R, Regions(s.image, R), Sound(s, R), s.todo # {},
         NEW D, D = Decode(s.image, s.cursor, Reach(Current(s), s.cursor)), D # {}
  PROVE  /\ Sound(Took(s, D, EndOf(s.image, Final(D))), R) /\ Took(s, D, EndOf(s.image, Final(D))).image = s.image
         /\ Least(RegionEnd(Current(s)), EndOf(s.image, Final(D))) = EndOf(s.image, Final(D))
<1> DEFINE e == EndOf(s.image, Final(D))
           r == Current(s)
<1>1. PICK m : /\ Changes(m, s, e, s.lines \cup D, Noted(s.found, s.image, D), s.decoded + (e - s.cursor), s.skipped)
               /\ Took(s, D, e) = Onwards(m)
  BY TookIs DEF Sound, Going
<1>2. Standing(s.image, r, s.cursor)
  BY CurrentOf DEF Standing, Sound, Going, Held, BytesIn, RegionEnd
<1>3. /\ Final(D) \in D /\ D \subseteq s.cursor .. Reach(r, s.cursor) - 1
      /\ s.cursor < e /\ e <= RegionEnd(r) /\ e \in Stops(s.image, r)
      /\ Before(s.image, r, e) = Before(s.image, r, s.cursor) \cup D
  BY <1>2, TakesSome
<1>4. s.cursor \in Nat /\ Reach(r, s.cursor) \in Nat /\ RegionEnd(r) \in Nat
  BY <1>2, ReachOf, SweepGoesUp DEF Sized, Standing
<1>5. e \in Nat
  <2>1. Follows(Stops(s.image, r), r.start, GoesOn(s.image, r))
    BY <1>2, SweepGoesUp, ComesFollows DEF Standing, Held, Stops
  <2> QED BY <1>3, <2>1 DEF Follows
<1> HIDE DEF e, r
<1>6. /\ m.image = s.image /\ m.todo = s.todo /\ m.cursor = e /\ m.lines = s.lines \cup D
      /\ m.found = Noted(s.found, s.image, D)
      /\ m.decoded = s.decoded + (e - s.cursor) /\ m.skipped = s.skipped /\ Shaped(m) /\ Current(m) = r
  BY <1>1 DEF Changes, Current, r
<1>7. FoundIn(m, R) = FoundIn(s, R) \cup D
  BY <1>3, <1>6 DEF FoundIn, r
<1>8. /\ Cardinality(Passed(m, R)) = Cardinality(Passed(s, R)) + (e - s.cursor)
      /\ Cardinality(Passed(s, R)) \in Nat
  BY <1>3, <1>5, <1>6, PassesOn DEF Sound
<1>9. m.decoded \in Nat /\ m.skipped \in Nat /\ m.decoded + m.skipped = Cardinality(Passed(m, R))
  <2>1. s.decoded \in Nat /\ s.skipped \in Nat /\ s.decoded + s.skipped = Cardinality(Passed(s, R))
    BY DEF Sound, Going, Accounted
  <2> QED BY <1>3, <1>4, <1>5, <1>6, <1>8, <2>1
<1>10. m.found = [families |-> FamiliesOf(s.image, m.lines), evidence |-> Earliest(MaxEvidence, Unsupported(s.image, m.lines))]
  <2> DEFINE S == Unsupported(s.image, s.lines)
             T == Unsupported(s.image, D)
  <2>1. s.lines = FoundIn(s, R) /\ s.found.families = FamiliesOf(s.image, s.lines) /\ s.found.evidence = Earliest(MaxEvidence, S)
    BY DEF Sound, Going, Accounted
  <2>2. s.lines \subseteq Nat /\ IsFiniteSet(s.lines) /\ \A a \in s.lines : a < s.cursor
    <3>1. /\ Passed(s, R) \subseteq Nat /\ IsFiniteSet(Passed(s, R)) /\ s.lines \subseteq Passed(s, R)
          /\ \A a \in Passed(s, R) : a < s.cursor
      BY <2>1, PassedBytes DEF Sound
    <3> QED BY <3>1, FS_Subset
  <2>3. D \subseteq Nat /\ IsFiniteSet(D) /\ \A a \in D : s.cursor <= a
    <3>1. IsFiniteSet(s.cursor .. Reach(r, s.cursor) - 1)
      <4>0. \A a, b \in Int : IsFiniteSet(a .. b)
        BY FS_Interval
      <4>1. s.cursor \in Int /\ Reach(r, s.cursor) - 1 \in Int
        BY <1>4
      <4> QED BY <4>0, <4>1, Zenon
    <3>2. IsFiniteSet(D)
      BY <1>3, <3>1, FS_Subset DEF r
    <3> QED BY <1>3, <1>4, <3>2 DEF r
  <2>4. S \subseteq s.lines /\ T \subseteq D
    BY DEF Unsupported
  <2>5. Unsupported(s.image, s.lines \cup D) = S \cup T
    BY DEF Unsupported
  <2>6. FamiliesOf(s.image, s.lines \cup D) = FamiliesOf(s.image, s.lines) \cup FamiliesOf(s.image, D)
    BY DEF FamiliesOf
  <2> HIDE DEF S, T
  <2>7. IsFiniteSet(S) /\ IsFiniteSet(T) /\ S \subseteq Nat /\ T \subseteq Nat
    BY <2>2, <2>3, <2>4, FS_Subset
  <2>8. AllBelow(S, T)
    BY <1>4, <2>2, <2>3, <2>4 DEF AllBelow
  <2>9. Earliest(MaxEvidence, Earliest(MaxEvidence, S) \cup T) = Earliest(MaxEvidence, S \cup T)
    <3>1. MaxEvidence \in Nat
      BY AuditAssumption
    <3> QED BY <2>7, <2>8, <3>1, KeepsTheEarliest, Zenon
  <2>10. m.found = [families |-> s.found.families \cup FamiliesOf(s.image, D),
                    evidence |-> Earliest(MaxEvidence, s.found.evidence \cup T)]
    BY <1>6 DEF Noted, T
  <2> QED BY <1>6, <2>1, <2>5, <2>6, <2>9, <2>10
<1>11. Accounted(m, R)
  <2>1. m.lines = FoundIn(m, R)
    BY <1>6, <1>7 DEF Sound, Going, Accounted
  <2> QED BY <1>6, <1>9, <1>10, <2>1 DEF Accounted
<1>12. Current(m).start <= m.cursor
  <2>1. r.start \in Nat /\ r.start <= s.cursor
    BY <1>2, SweepGoesUp DEF Standing, Held
  <2> QED BY <1>3, <1>4, <1>5, <1>6, <2>1
<1>13. Going(m, R)
  BY <1>3, <1>5, <1>6, <1>11, <1>12 DEF Sound, Going
<1>14. Regions(m.image, R) /\ m.todo # {}
  BY <1>6
<1>15. Least(RegionEnd(r), e) = e
  BY <1>3, <1>4, <1>5 DEF Least
<1> QED BY <1>1, <1>6, <1>13, <1>14, <1>15, GoesOnwards DEF e, r

\* A chunk of a sweep.
LEMMA SweepsSoundly ==
  ASSUME NEW s, NEW R, Regions(s.image, R), Sound(s, R), s.todo # {}
  PROVE  Sound(Swept(s, ChunkEnd(s)), R) /\ Swept(s, ChunkEnd(s)).image = s.image
<1> DEFINE D == Decode(s.image, s.cursor, ChunkEnd(s))
<1>1. ChunkEnd(s) = Reach(Current(s), s.cursor)
  BY DEF ChunkEnd, Reach, Current
<1>2. CASE D = {}
  <2>1. Swept(s, ChunkEnd(s)) = Skipped(s, 1)
    BY <1>2, Zenon DEF Swept
  <2> QED BY <1>1, <1>2, <2>1, SkipsSoundly
<1>3. CASE D # {}
  <2>1. Swept(s, ChunkEnd(s)) = Took(s, D, Least(RegionEnd(Current(s)), EndOf(s.image, Final(D))))
    BY <1>3, Zenon DEF Swept, Current
  <2> QED BY <1>1, <1>3, <2>1, TakesSoundly
<1> QED BY <1>2, <1>3

\* A sweep begins soundly.
LEMMA BeginsSoundly ==
  ASSUME NEW image, NEW R, Regions(image, R)
  PROVE  Sound(Begin(image, R), R) /\ Begin(image, R).image = image
<1> DEFINE s == Begin(image, R)
<1>1. /\ Shaped(s) /\ s.image = image /\ s.todo = R /\ s.cursor = StartOf(R) /\ s.lines = {}
      /\ s.found = [families |-> {}, evidence |-> {}] /\ s.decoded = 0 /\ s.skipped = 0
  BY DEF Begin, Shaped
<1> HIDE DEF s
<1>2. ASSUME R # {}
      PROVE  /\ s.cursor = Current(s).start /\ s.cursor \in Nat /\ s.cursor \in Stops(image, Current(s))
             /\ s.cursor < RegionEnd(Current(s)) /\ Before(image, Current(s), s.cursor) = {} /\ RegionEnd(Current(s)) \in Nat
  <2>1. Held(image, Current(s)) /\ s.cursor = Current(s).start
    BY <1>1, <1>2, CurrentOf DEF StartOf, Current
  <2>2. s.cursor \in Nat /\ s.cursor < RegionEnd(Current(s)) /\ RegionEnd(Current(s)) \in Nat
    BY <2>1, SweepGoesUp DEF Held
  <2>3. s.cursor \in Stops(image, Current(s))
    BY <2>1, SweepGoesUp, ComesFollows DEF Held, Follows, Stops
  <2>4. ASSUME NEW a \in SweepOf(image, Current(s)) PROVE ~(a < s.cursor)
    <3>1. a \in BytesIn(Current(s))
      BY DEF SweepOf
    <3>2. a \in Nat /\ Current(s).start <= a
      BY <2>1, <3>1, SweepGoesUp
    <3> QED BY <2>1, <2>2, <3>2
  <2> QED BY <2>1, <2>2, <2>3, <2>4 DEF Before
<1>3. s.cursor \in Nat
  BY <1>1, <1>2 DEF StartOf
<1>4. R \ s.todo = {} /\ FoundIn(s, R) = {}
  BY <1>1, <1>2 DEF FoundIn, InstructionsOf
<1>5. Passed(s, R) = {}
  <2>1. R # {} => Current(s).start .. s.cursor - 1 = {}
    BY <1>2
  <2> QED BY <1>1, <1>4, <2>1 DEF Passed, AllBytes
<1>6. FamiliesOf(image, {}) = {} /\ Earliest(MaxEvidence, Unsupported(image, {})) = {}
  BY DEF FamiliesOf, Earliest, Unsupported
<1>7. Accounted(s, R)
  BY <1>1, <1>4, <1>5, <1>6, FS_EmptySet DEF Accounted
<1>8. R # {} => Current(s).start <= s.cursor /\ s.cursor <= RegionEnd(Current(s))
  BY <1>2
<1>9. Going(s, R)
  BY <1>1, <1>2, <1>3, <1>4, <1>7, <1>8 DEF Going
<1> QED BY <1>1, <1>2, <1>9 DEF Sound, s

\* At its end a sweep has every instruction, and no byte is in two of them.
LEMMA EndsSoundly ==
  ASSUME NEW s, NEW R, Regions(s.image, R), Sound(s, R), s.todo = {}
  PROVE  /\ s.lines = InstructionsOf(s.image, R) /\ s.decoded + s.skipped = Sizes(R)
         /\ s.found.families = FamiliesOf(s.image, s.lines)
         /\ s.found.evidence = Earliest(MaxEvidence, Unsupported(s.image, s.lines))
         /\ \A a, b \in s.lines : a < b => EndOf(s.image, a) <= b
<1>1. R \ s.todo = R
  OBVIOUS
<1>2. s.lines = InstructionsOf(s.image, R) /\ Passed(s, R) = AllBytes(R)
  BY <1>1 DEF Sound, Going, Accounted, FoundIn, Passed
<1>3. s.decoded + s.skipped = Sizes(R)
  BY <1>2 DEF Sound, Going, Accounted, Sizes
<1>4. ASSUME NEW a \in s.lines, NEW b \in s.lines, a < b PROVE EndOf(s.image, a) <= b
  <2>1. PICK r \in R : a \in SweepOf(s.image, r)
    BY <1>2 DEF InstructionsOf
  <2>2. PICK q \in R : b \in SweepOf(s.image, q)
    BY <1>2 DEF InstructionsOf
  <2>3. Held(s.image, r) /\ Held(s.image, q)
    BY DEF Regions
  <2>4. a \in BytesIn(r) /\ b \in BytesIn(q) /\ Decodes(s.image, r, a)
    BY <2>1, <2>2 DEF SweepOf
  <2>5. /\ a \in Nat /\ r.start <= a /\ r.start \in Nat /\ RegionEnd(r) \in Nat
        /\ s.image.code[a].size \in Nat /\ GoesOn(s.image, r)[a] = EndOf(s.image, a)
    BY <2>3, <2>4, SweepGoesUp DEF Held
  <2>6. b \in Nat /\ q.start <= b /\ b < RegionEnd(q) /\ q.start \in Nat /\ RegionEnd(q) \in Nat
    BY <2>3, <2>4, SweepGoesUp DEF Held
  <2>7. EndOf(s.image, a) <= RegionEnd(r) /\ EndOf(s.image, a) \in Nat
    BY <2>4, <2>5 DEF Decodes, EndOf
  <2>8. CASE r = q
    <3>1. Follows(Stops(s.image, r), r.start, GoesOn(s.image, r))
      BY <2>3, SweepGoesUp, ComesFollows DEF Held, Stops
    <3>2. a \in Stops(s.image, r) /\ b \in Stops(s.image, r)
      BY <2>1, <2>2, <2>8 DEF SweepOf, Stops
    <3> QED BY <1>4, <2>5, <3>1, <3>2 DEF Follows
  <2>9. CASE r # q
    <3>1. RegionEnd(r) <= q.start \/ RegionEnd(q) <= r.start
      BY <2>9 DEF Regions
    <3> QED BY <1>4, <2>5, <2>6, <2>7, <3>1
  <2> QED BY <2>8, <2>9
<1> QED BY <1>2, <1>3, <1>4 DEF Sound, Going, Accounted

-----------------------------------------------------------------------------
(***************************************************************************)
(* The regions of an image                                                 *)
(***************************************************************************)
\* The elements of a sequence are finitely many.
LEMMA FinitelyMany ==
  ASSUME NEW T, NEW q \in Seq(T)
  PROVE  IsFiniteSet(ToSet(q)) /\ ToSet(q) \subseteq T /\ (\A i \in DOMAIN q : q[i] \in T /\ i \in Nat /\ i # 0)
         /\ Len(q) \in Nat /\ DOMAIN q = 1 .. Len(q) /\ (q = <<>> <=> Len(q) = 0)
<1>1. Len(q) \in Nat /\ DOMAIN q = 1 .. Len(q) /\ 1 \in Int /\ Len(q) \in Int
  OBVIOUS
<1>2. IsFiniteSet(DOMAIN q)
  BY <1>1, FS_Interval
<1>3. [i \in DOMAIN q |-> q[i]] \in Surjection(DOMAIN q, ToSet(q))
  BY DEF Surjection, ToSet
<1>4. ToSet(q) \subseteq T /\ (\A i \in DOMAIN q : q[i] \in T /\ i \in Nat /\ i # 0) /\ (q = <<>> <=> Len(q) = 0)
  BY DEF ToSet
<1> QED BY <1>2, <1>3, <1>4, FS_Surjection

\* Segments and sections begin and end at numbers.
LEMMA SegmentsEnd ==
  ASSUME NEW image, WellFormed(image)
  PROVE  /\ \A r \in ToSet(image.sections) : r.start \in Nat /\ r.size \in Nat
         /\ \A i \in DOMAIN image.segments : RegionEnd(image.segments[i]) \in Nat
         /\ \A g \in ToSet(image.segments) : g.start \in Nat /\ RegionEnd(g) \in Nat
<1> DEFINE Q == [start : Nat, size : Nat, executable : BOOLEAN]
<1>1. image.segments \in Seq(Q)
  BY DEF WellFormed
<1>2. ToSet(image.segments) \subseteq Q /\ \A i \in DOMAIN image.segments : image.segments[i] \in Q
  BY <1>1, FinitelyMany
<1>3. \A g \in Q : g.start \in Nat /\ RegionEnd(g) \in Nat
  BY DEF RegionEnd
<1>4. image.sections \in Seq([start : Nat, size : Nat])
  BY DEF WellFormed
<1>5. ToSet(image.sections) \subseteq [start : Nat, size : Nat]
  BY <1>4, FinitelyMany
<1>6. \A r \in ToSet(image.sections) : r.start \in Nat /\ r.size \in Nat
  BY <1>5
<1> HIDE DEF Q
<1> QED BY <1>2, <1>3, <1>6

\* The segments that are swept hold bytes of the image and share none.
LEMMA SegmentsAreRegions ==
  ASSUME NEW image, WellFormed(image)
  PROVE  Regions(image, ProgramRegions(image))
<1> DEFINE R == ProgramRegions(image)
           Q == [start : Nat, size : Nat, executable : BOOLEAN]
<1>1. image.segments \in Seq(Q)
  BY DEF WellFormed
<1>2. IsFiniteSet(R)
  <2>1. IsFiniteSet(ToSet(image.segments))
    BY <1>1, FinitelyMany
  <2>2. R \subseteq ToSet(image.segments)
    BY DEF ProgramRegions
  <2> QED BY <2>1, <2>2, FS_Subset
<1>3. ASSUME NEW r \in R
      PROVE  r.executable /\ Held(image, r) /\ \E i \in DOMAIN image.segments : image.segments[i] = r
  <2>1. r \in ToSet(image.segments) /\ r.executable /\ r.size > 0
    BY DEF ProgramRegions
  <2>2. PICK i \in DOMAIN image.segments : image.segments[i] = r
    BY <2>1 DEF ToSet
  <2>3. r \in Q
    BY <1>1, <2>1, FinitelyMany
  <2>4. BytesIn(r) \subseteq DOMAIN image.code
    BY <2>1 DEF WellFormed
  <2>5. \A a \in BytesIn(r) : image.code[a].size \in 0 .. Chunk
    BY <2>4 DEF WellFormed
  <2> QED BY <2>1, <2>2, <2>3, <2>5 DEF Held
<1>4. ASSUME NEW r \in R, NEW q \in R, r # q PROVE RegionEnd(r) <= q.start \/ RegionEnd(q) <= r.start
  <2>1. PICK i \in DOMAIN image.segments : image.segments[i] = r
    BY <1>3
  <2>2. PICK j \in DOMAIN image.segments : image.segments[j] = q
    BY <1>3
  <2>3. i # j /\ r.executable /\ q.executable
    BY <1>3, <1>4, <2>1, <2>2
  <2> QED BY <2>1, <2>2, <2>3 DEF WellFormed
<1> HIDE DEF R
<1>5. Regions(image, R)
  BY <1>2, <1>3, <1>4 DEF Regions
<1> QED BY <1>5 DEF R

\* So are the sections that are listed, but for what they share.
LEMMA SectionsAreHeld ==
  ASSUME NEW image, WellFormed(image), NEW r \in DocumentRegions(image)
  PROVE  Held(image, r)
<1>1. image.sections \in Seq([start : Nat, size : Nat])
  BY DEF WellFormed
<1>2. r \in ToSet(image.sections) /\ r.size > 0
  BY DEF DocumentRegions
<1>3. r \in [start : Nat, size : Nat]
  BY <1>1, <1>2, FinitelyMany
<1>4. BytesIn(r) \subseteq DOMAIN image.code
  BY <1>2 DEF WellFormed
<1>5. \A a \in BytesIn(r) : image.code[a].size \in 0 .. Chunk
  BY <1>4 DEF WellFormed
<1> QED BY <1>2, <1>3, <1>5 DEF Held

\* The segment found for an address is the executable one that has it.
LEMMA BackedBy ==
  ASSUME NEW image, WellFormed(image), NEW at
  PROVE  /\ Backing(image, at) # 0 =>
              /\ Backing(image, at) \in DOMAIN image.segments
              /\ Within(image.segments[Backing(image, at)], at)
         /\ \A g \in ToSet(image.segments) :
              g.executable /\ Within(g, at) /\ at \in Nat =>
                Backing(image, at) # 0 /\ image.segments[Backing(image, at)] = g
<1> DEFINE Q == [start : Nat, size : Nat, executable : BOOLEAN]
           backed == {i \in DOMAIN image.segments : image.segments[i].executable /\ Within(image.segments[i], at)}
<1>0. image.segments \in Seq(Q)
  BY DEF WellFormed
<1>1. Backing(image, at) = IF backed = {} THEN 0 ELSE Lowest(backed)
  BY Zenon DEF Backing, Lowest
<1>2. \A i \in DOMAIN image.segments : i \in Nat /\ i # 0 /\ image.segments[i] \in Q
  <2> HIDE DEF backed, Q
  <2> QED BY <1>0, FinitelyMany
<1>3. backed # {} => Lowest(backed) \in backed
  <2>1. backed \subseteq Nat
    BY <1>2
  <2> HIDE DEF backed
  <2> QED BY <2>1, LeastNumber
<1>4. Backing(image, at) # 0 => Backing(image, at) \in backed
  BY <1>1, <1>3
<1>5. ASSUME NEW g \in ToSet(image.segments), g.executable, Within(g, at), at \in Nat
      PROVE  Backing(image, at) # 0 /\ image.segments[Backing(image, at)] = g
  <2>1. PICK j \in DOMAIN image.segments : image.segments[j] = g
    BY DEF ToSet
  <2>2. backed # {}
    BY <1>5, <2>1
  <2>3. PICK i \in backed : Backing(image, at) = i
    BY <1>1, <1>3, <2>2
  <2>4. CASE i = j
    BY <1>2, <2>1, <2>3, <2>4
  <2>5. CASE i # j
    <3>1. PICK h \in Q : h = image.segments[i]
      BY <1>2
    <3>2. g \in Q
      BY <1>2, <2>1
    <3>3. RegionEnd(h) <= g.start \/ RegionEnd(g) <= h.start
      BY <1>5, <2>1, <2>5, <3>1 DEF WellFormed
    <3>4. h.start <= at /\ at < RegionEnd(h) /\ g.start <= at /\ at < RegionEnd(g)
      BY <1>5, <3>1 DEF Within
    <3>5. h.start \in Nat /\ h.size \in Nat /\ g.start \in Nat /\ g.size \in Nat
      BY <3>2
    <3> QED BY <1>5, <3>3, <3>4, <3>5 DEF RegionEnd
  <2> QED BY <2>4, <2>5
<1> QED BY <1>4, <1>5

-----------------------------------------------------------------------------
(***************************************************************************)
(* The listing                                                             *)
(***************************************************************************)
\* A section that lies in one executable segment.
Covered(image, r) ==
  \E g \in ToSet(image.segments) : g.executable /\ g.start <= r.start /\ RegionEnd(r) <= RegionEnd(g)

\* A listing that took a chunk, and one that is at a byte of a section or at the end.
Lists(s, R) ==
  /\ Shaped(s) /\ s.todo \subseteq R /\ s.cursor \in Nat /\ s.decoded \in Nat /\ s.skipped \in Nat
  /\ s.todo # {} => Current(s).start <= s.cursor /\ s.cursor <= RegionEnd(Current(s))
  /\ s.todo # {} /\ Covered(s.image, Current(s)) =>
       s.cursor \in Stops(s.image, Current(s)) /\ Before(s.image, Current(s), s.cursor) \subseteq s.lines
  /\ \A r \in R \ s.todo : Covered(s.image, r) => SweepOf(s.image, r) \subseteq s.lines

Listing(s, R) == Lists(s, R) /\ (s.todo # {} => s.cursor < RegionEnd(Current(s)))

\* The sections a listing has yet to do.
LEMMA SectionOf ==
  ASSUME NEW s, NEW R, \A r \in R : Held(s.image, r), s.todo \subseteq R, s.todo # {}
  PROVE  Current(s) \in s.todo /\ Current(s) \in R /\ Held(s.image, Current(s))
<1>1. \A r \in s.todo : r.start \in Nat
  BY DEF Held
<1> QED BY <1>1, LowermostOf DEF Current

\* Where a section begins nothing is missing.
LEMMA NothingBefore ==
  ASSUME NEW image, NEW r, Held(image, r)
  PROVE  /\ r.start \in Nat /\ r.start \in Stops(image, r) /\ r.start < RegionEnd(r) /\ RegionEnd(r) \in Nat
         /\ Before(image, r, r.start) = {} /\ Before(image, r, RegionEnd(r)) = SweepOf(image, r)
<1>1. r.start \in Nat /\ r.start < RegionEnd(r) /\ RegionEnd(r) \in Nat
  BY SweepGoesUp DEF Held
<1>2. r.start \in Stops(image, r)
  BY SweepGoesUp, ComesFollows DEF Held, Follows, Stops
<1>3. ASSUME NEW a \in SweepOf(image, r) PROVE ~(a < r.start) /\ a < RegionEnd(r)
  <2>1. a \in BytesIn(r)
    BY DEF SweepOf
  <2>2. a \in Nat /\ r.start <= a /\ a < RegionEnd(r)
    BY <2>1, SweepGoesUp
  <2> QED BY <1>1, <2>2
<1> QED BY <1>1, <1>2, <1>3 DEF Before

\* At the end of a section a listing goes on with the next one.
LEMMA ListsOnwards ==
  ASSUME NEW s, NEW R, \A r \in R : Held(s.image, r), Lists(s, R), s.todo # {}
  PROVE  Listing(Onwards(s), R) /\ Onwards(s).image = s.image
<1> DEFINE m == Onwards(s)
           r == Current(s)
<1>1. /\ Shaped(m) /\ m.image = s.image /\ m.lines = s.lines
      /\ m.found = s.found /\ m.decoded = s.decoded /\ m.skipped = s.skipped
      /\ IF s.cursor < RegionEnd(r) THEN m = s
         ELSE m.todo = s.todo \ {r} /\ m.cursor = StartOf(m.todo)
  BY OnwardsTo DEF Lists
<1> HIDE DEF m, r
<1>2. CASE s.cursor < RegionEnd(r)
  <2>1. m = s
    BY <1>1, <1>2
  <2> QED BY <1>1, <1>2, <2>1 DEF Listing, m, r
<1>3. CASE ~(s.cursor < RegionEnd(r))
  <2>1. r \in s.todo /\ r \in R /\ Held(s.image, r)
    BY SectionOf DEF Lists, r
  <2>2. s.cursor = RegionEnd(r)
    <3>1. RegionEnd(r) \in Nat
      BY <2>1, NothingBefore
    <3>2. s.cursor \in Nat /\ s.cursor <= RegionEnd(r)
      BY DEF Lists, r
    <3> QED BY <1>3, <3>1, <3>2
  <2>3. m.todo = s.todo \ {r} /\ m.cursor = StartOf(m.todo) /\ m.todo \subseteq R /\ R \ m.todo = (R \ s.todo) \cup {r}
    BY <1>1, <1>3, <2>1 DEF Lists
  <2>4. ASSUME m.todo # {}
        PROVE  /\ m.cursor \in Nat /\ m.cursor \in Stops(m.image, Current(m)) /\ Current(m).start <= m.cursor
               /\ m.cursor < RegionEnd(Current(m)) /\ m.cursor <= RegionEnd(Current(m))
               /\ Before(m.image, Current(m), m.cursor) \subseteq m.lines
    <3>1. Held(m.image, Current(m)) /\ m.cursor = Current(m).start
      BY <1>1, <2>3, <2>4, SectionOf DEF StartOf, Current
    <3> QED BY <3>1, NothingBefore
  <2>5. m.cursor \in Nat
    BY <2>3, <2>4 DEF StartOf
  <2>6. ASSUME NEW x \in R \ m.todo, Covered(m.image, x) PROVE SweepOf(m.image, x) \subseteq m.lines
    <3>1. CASE x = r
      BY <1>1, <2>1, <2>2, <2>6, <3>1, NothingBefore DEF Lists, r
    <3>2. CASE x # r
      BY <1>1, <2>3, <2>6, <3>2 DEF Lists
    <3> QED BY <3>1, <3>2
  <2>7. Lists(m, R)
    BY <1>1, <2>3, <2>4, <2>5, <2>6 DEF Lists
  <2> QED BY <1>1, <2>4, <2>7 DEF Listing, m
<1> QED BY <1>2, <1>3

\* A scan that went further in its section.
LEMMA ListsOn ==
  ASSUME NEW s, NEW R, Listing(s, R), s.todo # {}, NEW m, NEW e \in Nat,
         Changes(m, s, e, m.lines, m.found, m.decoded, m.skipped), s.lines \subseteq m.lines,
         m.decoded \in Nat, m.skipped \in Nat, Current(s).start <= e, e <= RegionEnd(Current(s)),
         Covered(s.image, Current(s)) =>
           e \in Stops(s.image, Current(s)) /\ Before(s.image, Current(s), e) \subseteq m.lines
  PROVE  Lists(m, R) /\ m.image = s.image /\ m.todo # {}
<1>1. Current(m) = Current(s) /\ m.image = s.image /\ m.todo = s.todo /\ m.cursor = e /\ Shaped(m)
  BY DEF Changes, Current
<1>2. \A r \in R \ s.todo : Covered(s.image, r) => SweepOf(s.image, r) \subseteq m.lines
  BY DEF Listing, Lists
<1> QED BY <1>1, <1>2 DEF Listing, Lists

\* A chunk of a listing: what no segment has is skipped.
LEMMA ListsChunk ==
  ASSUME NEW s, WellFormed(s.image), NEW R, \A r \in R : Held(s.image, r), Listing(s, R), s.todo # {},
         NEW t,
         t = (IF Backing(s.image, s.cursor) = 0 THEN Skipped(s, ChunkEnd(s) - s.cursor)
              ELSE Swept(s, Least(ChunkEnd(s), RegionEnd(s.image.segments[Backing(s.image, s.cursor)]))))
  PROVE  Listing(t, R) /\ t.image = s.image
<1> DEFINE r == Current(s)
           c == s.cursor
           b == Backing(s.image, c)
           g == s.image.segments[b]
<1>1. r \in R /\ Held(s.image, r)
  BY SectionOf DEF Listing, Lists
<1>2. /\ c \in Nat /\ r.start \in Nat /\ RegionEnd(r) \in Nat /\ r.start <= c /\ c < RegionEnd(r) /\ c \in BytesIn(r)
      /\ Shaped(s) /\ s.decoded \in Nat /\ s.skipped \in Nat
  <2>1. r.start \in Nat /\ RegionEnd(r) \in Nat
    BY <1>1, NothingBefore
  <2>2. c \in Nat /\ r.start <= c /\ c < RegionEnd(r) /\ Shaped(s) /\ s.decoded \in Nat /\ s.skipped \in Nat
    BY DEF Listing, Lists
  <2> QED BY <2>1, <2>2 DEF BytesIn
<1>3. Chunk \in Nat /\ Chunk > 0
  BY AuditAssumption
<1>4. ChunkEnd(s) = Reach(r, c) /\ ChunkEnd(s) \in Nat /\ c < ChunkEnd(s) /\ ChunkEnd(s) <= RegionEnd(r)
  BY <1>2, <1>3 DEF ChunkEnd, Reach, Current, Least
<1>5. ASSUME Covered(s.image, r)
      PROVE  /\ b # 0 /\ Least(ChunkEnd(s), RegionEnd(g)) = Reach(r, c) /\ Standing(s.image, r, c)
             /\ Before(s.image, r, c) \subseteq s.lines
  <2>1. PICK h \in ToSet(s.image.segments) : h.executable /\ h.start <= r.start /\ RegionEnd(r) <= RegionEnd(h)
    BY <1>5 DEF Covered
  <2>2. h.start \in Nat /\ RegionEnd(h) \in Nat
    BY SegmentsEnd
  <2>3. Within(h, c)
    BY <1>2, <2>1, <2>2 DEF Within
  <2>4. b # 0 /\ g = h
    BY <1>2, <2>1, <2>3, BackedBy
  <2>5. Least(ChunkEnd(s), RegionEnd(h)) = ChunkEnd(s)
    BY <1>2, <1>4, <2>1, <2>2 DEF Least
  <2>6. Standing(s.image, r, c) /\ Before(s.image, r, c) \subseteq s.lines
    BY <1>1, <1>2, <1>5 DEF Standing, Listing, Lists
  <2> QED BY <1>4, <2>4, <2>5, <2>6
<1>6. CASE b = 0
  <2>1. t = Skipped(s, ChunkEnd(s) - c)
    BY <1>6
  <2>2. PICK m : Changes(m, s, c + (ChunkEnd(s) - c), s.lines, s.found, s.decoded, s.skipped + (ChunkEnd(s) - c)) /\ t = Onwards(m)
    BY <1>2, <2>1, SkippedIs
  <2>3. /\ c + (ChunkEnd(s) - c) = ChunkEnd(s) /\ s.skipped + (ChunkEnd(s) - c) \in Nat
        /\ Current(s).start <= ChunkEnd(s) /\ ChunkEnd(s) <= RegionEnd(Current(s))
    BY <1>2, <1>4
  <2>4. /\ Changes(m, s, ChunkEnd(s), m.lines, m.found, m.decoded, m.skipped) /\ s.lines \subseteq m.lines
        /\ m.decoded \in Nat /\ m.skipped \in Nat
    BY <1>2, <2>2, <2>3 DEF Changes
  <2>5. Lists(m, R) /\ m.image = s.image /\ m.todo # {}
    BY <1>4, <1>5, <1>6, <2>3, <2>4, ListsOn
  <2> QED BY <2>2, <2>5, ListsOnwards
<1>7. CASE b # 0
  <2> DEFINE limit == Least(ChunkEnd(s), RegionEnd(g))
             D == Decode(s.image, c, limit)
  <2>1. Within(g, c) /\ RegionEnd(g) \in Nat
    <3>1. b \in DOMAIN s.image.segments /\ Within(g, c)
      BY <1>7, BackedBy
    <3> QED BY <3>1, SegmentsEnd
  <2>2. limit \in Nat /\ c < limit /\ limit <= ChunkEnd(s) /\ limit <= RegionEnd(r)
    BY <1>2, <1>4, <2>1 DEF Within, Least
  <2>3. Sized(s.image, c, limit)
    <3>1. \A a \in c .. limit - 1 : a \in BytesIn(r)
      BY <1>2, <2>2 DEF BytesIn
    <3>2. \A a \in BytesIn(r) : s.image.code[a].size \in Nat
      BY <1>1, SweepGoesUp
    <3> QED BY <1>2, <2>2, <3>1, <3>2 DEF Sized
  <2>4. Met(D, s.image, c, limit)
    BY <2>3, DecodeMeets
  <2>5. t = Swept(s, limit)
    BY <1>7
  <2> HIDE DEF limit
  <2>6. CASE D = {}
    <3>1. t = Skipped(s, 1)
      BY <2>5, <2>6, Zenon DEF Swept
    <3>2. PICK m : Changes(m, s, c + 1, s.lines, s.found, s.decoded, s.skipped + 1) /\ t = Onwards(m)
      BY <1>2, <3>1, SkippedIs
    <3>3. c + 1 \in Nat /\ s.skipped + 1 \in Nat /\ Current(s).start <= c + 1 /\ c + 1 <= RegionEnd(Current(s))
      BY <1>2
    <3>4. /\ Changes(m, s, c + 1, m.lines, m.found, m.decoded, m.skipped) /\ s.lines = m.lines
          /\ m.decoded \in Nat /\ m.skipped \in Nat
      BY <1>2, <3>2, <3>3 DEF Changes
    <3>5. Covered(s.image, r) => c + 1 \in Stops(s.image, r) /\ Before(s.image, r, c + 1) \subseteq m.lines
      BY <1>5, <2>6, <3>4, SkipsOne DEF limit
    <3>6. Lists(m, R) /\ m.image = s.image /\ m.todo # {}
      BY <3>3, <3>4, <3>5, ListsOn
    <3> QED BY <3>2, <3>6, ListsOnwards
  <2>7. CASE D # {}
    <3> DEFINE e == EndOf(s.image, Final(D))
    <3>1. t = Took(s, D, Least(RegionEnd(r), e))
      BY <2>5, <2>7, Zenon DEF Swept, Current
    <3>2. e \in Nat /\ c < e /\ e <= limit
      <4>1. D \subseteq c .. limit - 1
        BY <2>4 DEF Met
      <4>2. Final(D) \in D
        BY <1>2, <2>2, <2>7, <4>1, FinalIsLast
      <4>3. Final(D) \in Nat /\ c <= Final(D) /\ s.image.code[Final(D)].size \in Nat /\ Fit(s.image, limit, Final(D))
        BY <1>2, <2>2, <2>3, <2>4, <4>1, <4>2 DEF Sized, Met
      <4> QED BY <1>2, <2>2, <4>3 DEF Fit, EndOf
    <3>3. e <= RegionEnd(r)
      BY <1>2, <2>2, <3>2
    <3>4. Least(RegionEnd(r), e) = e
      BY <1>2, <3>2, <3>3 DEF Least
    <3> HIDE DEF e
    <3>5. PICK m : /\ Changes(m, s, e, s.lines \cup D, Noted(s.found, s.image, D), s.decoded + (e - c), s.skipped)
                   /\ t = Onwards(m)
      BY <1>2, <3>1, <3>4, TookIs
    <3>6. s.decoded + (e - c) \in Nat /\ Current(s).start <= e
      BY <1>2, <3>2
    <3>7. /\ Changes(m, s, e, m.lines, m.found, m.decoded, m.skipped) /\ m.lines = s.lines \cup D
          /\ m.decoded \in Nat /\ m.skipped \in Nat
      BY <1>2, <3>5, <3>6 DEF Changes
    <3>8. Covered(s.image, r) => e \in Stops(s.image, r) /\ Before(s.image, r, e) \subseteq m.lines
      <4>1. Covered(s.image, r) => Standing(s.image, r, c) /\ limit = Reach(r, c) /\ Before(s.image, r, c) \subseteq s.lines
        BY <1>5 DEF limit
      <4> QED BY <2>7, <3>7, <4>1, TakesSome DEF e
    <3>9. Lists(m, R) /\ m.image = s.image /\ m.todo # {}
      BY <3>2, <3>3, <3>6, <3>7, <3>8, ListsOn
    <3> QED BY <3>5, <3>9, ListsOnwards
  <2> QED BY <2>6, <2>7
<1> QED BY <1>6, <1>7

\* A listing begins with nothing listed.
LEMMA BeginsListing ==
  ASSUME NEW image, NEW R, \A r \in R : Held(image, r)
  PROVE  Listing(Begin(image, R), R) /\ Begin(image, R).image = image
<1> DEFINE s == Begin(image, R)
<1>1. /\ Shaped(s) /\ s.image = image /\ s.todo = R /\ s.cursor = StartOf(R) /\ s.lines = {}
      /\ s.decoded = 0 /\ s.skipped = 0
  BY DEF Begin, Shaped
<1> HIDE DEF s
<1>2. ASSUME R # {} PROVE Held(image, Current(s)) /\ s.cursor = Current(s).start
  BY <1>1, <1>2, SectionOf DEF StartOf, Current
<1>3. R # {} =>
        /\ s.cursor \in Nat /\ Current(s).start <= s.cursor /\ s.cursor <= RegionEnd(Current(s))
        /\ s.cursor \in Stops(image, Current(s)) /\ s.cursor < RegionEnd(Current(s))
        /\ Before(image, Current(s), s.cursor) = {}
  BY <1>2, NothingBefore
<1>4. s.cursor \in Nat
  BY <1>1, <1>3 DEF StartOf
<1> QED BY <1>1, <1>3, <1>4 DEF Listing, Lists, s

-----------------------------------------------------------------------------
(***************************************************************************)
(* The audits                                                              *)
(***************************************************************************)
\* A sweep over the executable segments of an image, and one that is over.
Sweeping(s, image) == s.image = image /\ Sound(s, ProgramRegions(image))
SweptAll(s, image) == Sweeping(s, image) /\ s.todo = {}

\* While the program is swept nothing else is known, and the console shows the progress.
Scanning ==
  sweep = "program" =>
    /\ Sweeping(scan, target.program) /\ audit = Nothing /\ audits = <<>>
    /\ preflight = [status |-> "scanning", processed |-> scan.decoded + scan.skipped]

\* A document is listed by its sections.
Documented ==
  sweep \in {"document", "listed"} =>
    /\ scan.image = target.program /\ Listing(scan, DocumentRegions(target.program))
    /\ sweep = "listed" => scan.todo = {}
    /\ audit = Nothing /\ audits = <<>> /\ preflight = [status |-> "idle", processed |-> 0]

\* The audit of each module is that of its image.
Inventoried ==
  /\ audits \in Seq(ToSet(audits)) /\ Len(audits) <= Len(target.modules)
  /\ \A i \in DOMAIN audits :
       LET m == target.modules[i]
       IN /\ SweptAll(audits[i].scan, m.image)
          /\ audits[i].blocking = IF Role(m) = "interpreter" THEN EntryAudit(m) ELSE Nothing

\* After it the program's audit stays, and the modules are swept one by one.
Followed ==
  sweep \in {"modules", "launched", "refused"} =>
    /\ SweptAll(audit, target.program)
    /\ preflight.status \in {"compatible", "incompatible"} /\ preflight.processed = audit.decoded + audit.skipped
    /\ preflight = [status |-> preflight.status, processed |-> preflight.processed]
    /\ IF Len(audits) < Len(target.modules) THEN Sweeping(scan, target.modules[Len(audits) + 1].image)
       ELSE scan = Nothing
    /\ sweep # "modules" => Len(audits) = Len(target.modules)

AuditInv ==
  /\ target \in Targets /\ sweep \in {"program", "modules", "launched", "refused", "document", "listed"}
  /\ Scanning /\ Documented /\ Inventoried /\ Followed

\* What is assumed of the targets.
LEMMA TargetsAre ==
  ASSUME NEW t \in Targets
  PROVE  /\ WellFormed(t.program) /\ t.modules \in Seq(ToSet(t.modules)) /\ Len(t.modules) \in Nat
         /\ DOMAIN t.modules = 1 .. Len(t.modules)
         /\ \A i \in 1 .. Len(t.modules) : WellFormed(t.modules[i].image)
         /\ t.modules = <<>> <=> Len(t.modules) = 0
<1>1. WellFormed(t.program) /\ t.modules \in Seq(ToSet(t.modules)) /\ \A m \in ToSet(t.modules) : WellFormed(m.image)
  BY AuditAssumption
<1>2. /\ Len(t.modules) \in Nat /\ DOMAIN t.modules = 1 .. Len(t.modules) /\ (t.modules = <<>> <=> Len(t.modules) = 0)
      /\ \A i \in DOMAIN t.modules : t.modules[i] \in ToSet(t.modules)
  BY <1>1, FinitelyMany
<1> QED BY <1>1, <1>2

\* What a program, a module or a document begins with.
LEMMA AuditBegins ==
  ASSUME NEW image, WellFormed(image)
  PROVE  /\ Sweeping(Begin(image, ProgramRegions(image)), image)
         /\ Begin(image, DocumentRegions(image)).image = image
         /\ Listing(Begin(image, DocumentRegions(image)), DocumentRegions(image))
<1>1. Sweeping(Begin(image, ProgramRegions(image)), image)
  BY SegmentsAreRegions, BeginsSoundly DEF Sweeping
<1>2. \A r \in DocumentRegions(image) : Held(image, r)
  BY SectionsAreHeld
<1> QED BY <1>1, <1>2, BeginsListing

\* A chunk of a sweep over segments.
LEMMA SweepingGoesOn ==
  ASSUME NEW s, NEW image, WellFormed(image), Sweeping(s, image), s.todo # {}
  PROVE  Sweeping(Swept(s, ChunkEnd(s)), image)
  BY SegmentsAreRegions, SweepsSoundly DEF Sweeping

\* The invariant holds when a target is chosen.
LEMMA AuditStarts == ASSUME AuditInit PROVE AuditInv
<1>1. target \in Targets /\ sweep \in {"program", "document"} /\ audit = Nothing /\ audits = <<>>
  BY DEF AuditInit
<1>2. WellFormed(target.program) /\ Len(target.modules) \in Nat
  BY <1>1, TargetsAre
<1>3. Inventoried
  <2>1. <<>> \in Seq(ToSet(<<>>)) /\ DOMAIN <<>> = {} /\ Len(<<>>) = 0
    OBVIOUS
  <2> QED BY <1>1, <1>2, <2>1 DEF Inventoried
<1>4. CASE sweep = "program"
  <2>1. scan = Begin(target.program, ProgramRegions(target.program)) /\ preflight = [status |-> "scanning", processed |-> 0]
    BY <1>4 DEF AuditInit
  <2>2. scan.decoded + scan.skipped = 0
    BY <2>1 DEF Begin
  <2>3. Sweeping(scan, target.program)
    BY <1>2, <2>1, AuditBegins
  <2> QED BY <1>1, <1>3, <1>4, <2>1, <2>2, <2>3 DEF AuditInv, Scanning, Documented, Followed
<1>5. CASE sweep = "document"
  <2>1. scan = Begin(target.program, DocumentRegions(target.program)) /\ preflight = [status |-> "idle", processed |-> 0]
    BY <1>5 DEF AuditInit
  <2>2. scan.image = target.program /\ Listing(scan, DocumentRegions(target.program))
    BY <1>2, <2>1, AuditBegins
  <2> QED BY <1>1, <1>3, <1>5, <2>1, <2>2 DEF AuditInv, Scanning, Documented, Followed
<1> QED BY <1>1, <1>4, <1>5

\* The audits taken stay as they are.
LEMMA InventoryStays == ASSUME Inventoried, UNCHANGED <<target, audits>> PROVE Inventoried'
  BY DEF Inventoried, Role, EntryAudit

\* The segment that backs the cursor is the region that is swept, so that it does not cut the chunk.
LEMMA ProgramGoesOn == ASSUME AuditInv, ProgramChunk PROVE AuditInv'
<1> DEFINE r == Current(scan)
           g == scan.image.segments[Backing(scan.image, scan.cursor)]
<1>1. /\ sweep = "program" /\ scan.todo # {} /\ scan' = Swept(scan, Least(ChunkEnd(scan), RegionEnd(g)))
      /\ preflight' = [preflight EXCEPT !.processed = scan'.decoded + scan'.skipped]
      /\ UNCHANGED <<target, sweep, audit, audits>>
  BY DEF ProgramChunk
<1>2. /\ WellFormed(target.program) /\ Sweeping(scan, target.program) /\ audit = Nothing /\ audits = <<>>
      /\ preflight = [status |-> "scanning", processed |-> scan.decoded + scan.skipped]
  BY <1>1, TargetsAre DEF AuditInv, Scanning
<1>3. scan.image = target.program /\ Regions(scan.image, ProgramRegions(scan.image)) /\ Sound(scan, ProgramRegions(scan.image))
  BY <1>2, SegmentsAreRegions DEF Sweeping
<1>4. r \in ProgramRegions(scan.image) /\ Held(scan.image, r)
  BY <1>1, <1>3, CurrentOf DEF Sound, Going
<1>5. scan.cursor \in Nat /\ Within(r, scan.cursor)
  BY <1>1, <1>3 DEF Sound, Going, Within
<1>6. g = r
  <2>1. r \in ToSet(scan.image.segments) /\ r.executable
    BY <1>4 DEF ProgramRegions
  <2> QED BY <1>2, <1>3, <1>5, <2>1, BackedBy
<1>7. Least(ChunkEnd(scan), RegionEnd(g)) = ChunkEnd(scan)
  <2>1. RegionEnd(r) \in Nat /\ Chunk \in Nat
    BY <1>4, SweepGoesUp
  <2>2. ChunkEnd(scan) \in Nat /\ ChunkEnd(scan) <= RegionEnd(r)
    BY <1>5, <2>1 DEF ChunkEnd, Current, Least
  <2> QED BY <1>6, <2>1, <2>2 DEF Least
<1>8. Sweeping(scan', target.program)
  BY <1>1, <1>2, <1>7, SweepingGoesOn
<1>9. preflight' = [status |-> "scanning", processed |-> scan'.decoded + scan'.skipped]
  BY <1>1, <1>2
<1>10. Inventoried'
  BY <1>1, InventoryStays DEF AuditInv
<1>11. target' \in Targets /\ sweep' = "program"
  BY <1>1 DEF AuditInv
<1> QED BY <1>1, <1>2, <1>8, <1>9, <1>10, <1>11 DEF AuditInv, Scanning, Documented, Followed

\* The audit of the program is answered, and the first module follows.
LEMMA ProgramEnds == ASSUME AuditInv, ProgramAudited PROVE AuditInv'
<1>1. /\ sweep = "program" /\ scan.todo = {} /\ audit' = scan /\ sweep' = "modules" /\ UNCHANGED <<target, audits>>
      /\ preflight' = [status |-> IF Compatible(scan) THEN "compatible" ELSE "incompatible",
                       processed |-> scan.decoded + scan.skipped]
      /\ scan' = IF target.modules = <<>> THEN Nothing
                 ELSE Begin(target.modules[1].image, ProgramRegions(target.modules[1].image))
  BY DEF ProgramAudited
<1>2. Sweeping(scan, target.program) /\ audits = <<>> /\ target \in Targets
  BY <1>1 DEF AuditInv, Scanning
<1>3. Len(audits) = 0
  BY <1>2
<1>4. IF Len(audits) < Len(target.modules) THEN Sweeping(scan', target.modules[Len(audits) + 1].image)
      ELSE scan' = Nothing
  <2>1. Len(target.modules) \in Nat /\ (target.modules = <<>> <=> Len(target.modules) = 0)
    BY <1>2, TargetsAre
  <2>2. 1 <= Len(target.modules) => WellFormed(target.modules[1].image)
    BY <1>2, <2>1, TargetsAre
  <2> QED BY <1>1, <1>3, <2>1, <2>2, AuditBegins
<1>5. SweptAll(audit', target.program)
  BY <1>1, <1>2 DEF SweptAll
<1>6. /\ preflight'.status \in {"compatible", "incompatible"} /\ preflight'.processed = audit'.decoded + audit'.skipped
      /\ preflight' = [status |-> preflight'.status, processed |-> preflight'.processed]
  BY <1>1
<1>7. Inventoried'
  BY <1>1, InventoryStays DEF AuditInv
<1> QED BY <1>1, <1>2, <1>4, <1>5, <1>6, <1>7 DEF AuditInv, Scanning, Documented, Followed

\* A chunk of a module.
LEMMA ModuleGoesOn == ASSUME AuditInv, ModuleChunk PROVE AuditInv'
<1>1. /\ sweep = "modules" /\ Len(audits) < Len(target.modules) /\ scan.todo # {} /\ scan' = Swept(scan, ChunkEnd(scan))
      /\ UNCHANGED <<target, sweep, audit, audits, preflight>>
  BY DEF ModuleChunk
<1>2. Sweeping(scan, target.modules[Len(audits) + 1].image)
  BY <1>1 DEF AuditInv, Followed
<1>3. WellFormed(target.modules[Len(audits) + 1].image)
  <2>1. Len(audits) \in Nat
    BY DEF AuditInv, Inventoried
  <2>2. Len(target.modules) \in Nat
    BY TargetsAre DEF AuditInv
  <2>3. Len(audits) + 1 \in 1 .. Len(target.modules)
    BY <1>1, <2>1, <2>2
  <2> QED BY <2>3, TargetsAre DEF AuditInv
<1>4. Sweeping(scan', target.modules[Len(audits) + 1].image)
  BY <1>1, <1>2, <1>3, SweepingGoesOn
<1>5. Inventoried'
  BY <1>1, InventoryStays DEF AuditInv
<1> QED BY <1>1, <1>4, <1>5 DEF AuditInv, Scanning, Documented, Followed

\* The audit of a module is answered, and the next module follows.
LEMMA ModuleEnds == ASSUME AuditInv, ModuleAudited PROVE AuditInv'
<1> DEFINE done == Len(audits)
           module == target.modules[done + 1]
           a == [scan |-> scan, role |-> Role(module),
                 blocking |-> IF Role(module) = "interpreter" THEN EntryAudit(module) ELSE Nothing]
<1>1. /\ sweep = "modules" /\ done < Len(target.modules) /\ scan.todo = {} /\ audits' = Append(audits, a)
      /\ scan' = IF done + 1 = Len(target.modules) THEN Nothing
                 ELSE Begin(target.modules[done + 2].image, ProgramRegions(target.modules[done + 2].image))
      /\ UNCHANGED <<target, sweep, audit, preflight>>
  BY DEF ModuleAudited
<1>2. /\ target \in Targets /\ Inventoried /\ Sweeping(scan, module.image) /\ SweptAll(audit, target.program)
      /\ preflight.status \in {"compatible", "incompatible"} /\ preflight.processed = audit.decoded + audit.skipped
      /\ preflight = [status |-> preflight.status, processed |-> preflight.processed]
  BY <1>1 DEF AuditInv, Followed
<1>3. done \in Nat /\ Len(target.modules) \in Nat /\ DOMAIN audits = 1 .. done
  BY <1>2, TargetsAre DEF Inventoried
<1>4. audits' \in Seq(ToSet(audits')) /\ Appended(audits', audits, a)
  <2> DEFINE T == ToSet(audits) \cup {a}
  <2>1. audits \in Seq(T)
    <3>1. ToSet(audits) \subseteq T
      OBVIOUS
    <3>2. audits \in Seq(ToSet(audits))
      BY <1>2 DEF Inventoried
    <3> HIDE DEF T
    <3> QED BY <3>1, <3>2
  <2>2. a \in T
    OBVIOUS
  <2>3. Append(audits, a) \in Seq(T) /\ Appended(Append(audits, a), audits, a)
    <3> HIDE DEF a, T
    <3> QED BY <2>1, <2>2, AppendedTo
  <2>4. ToSet(audits') = T
    <3> HIDE DEF a
    <3> QED BY <1>1, <2>3 DEF Appended
  <2> QED BY <1>1, <2>3, <2>4
<1>5. a.scan = scan /\ a.blocking = IF Role(module) = "interpreter" THEN EntryAudit(module) ELSE Nothing
  OBVIOUS
<1> HIDE DEF a
<1>6. Len(audits') = done + 1
  BY <1>4 DEF Appended
<1>7. ASSUME NEW i \in DOMAIN audits'
      PROVE  /\ SweptAll(audits'[i].scan, target.modules[i].image)
             /\ audits'[i].blocking = IF Role(target.modules[i]) = "interpreter" THEN EntryAudit(target.modules[i]) ELSE Nothing
  <2>1. i \in 1 .. done \/ i = done + 1
    BY <1>4 DEF Appended
  <2>2. CASE i \in 1 .. done
    <3>1. audits'[i] = audits[i]
      BY <1>4, <2>2 DEF Appended
    <3> QED BY <1>2, <1>3, <2>2, <3>1 DEF Inventoried
  <2>3. CASE i = done + 1
    <3>1. audits'[i] = a
      BY <1>4, <2>3 DEF Appended
    <3> QED BY <1>1, <1>2, <1>5, <2>3, <3>1 DEF SweptAll
  <2> QED BY <2>1, <2>2, <2>3
<1>8. Inventoried'
  <2>1. Len(audits') <= Len(target.modules)
    BY <1>1, <1>3, <1>6
  <2>2. target' = target
    BY <1>1
  <2>3. \A m : Role(m)' = Role(m)
    BY <2>2 DEF Role
  <2> QED BY <1>4, <1>7, <2>1, <2>2, <2>3 DEF Inventoried, EntryAudit
<1>9. IF done + 1 < Len(target.modules) THEN Sweeping(scan', target.modules[done + 1 + 1].image) ELSE scan' = Nothing
  <2>1. CASE done + 1 = Len(target.modules)
    BY <1>1, <1>3, <2>1
  <2>2. CASE done + 1 # Len(target.modules)
    <3>1. done + 2 \in 1 .. Len(target.modules) /\ done + 1 < Len(target.modules) /\ done + 1 + 1 = done + 2
      BY <1>1, <1>3, <2>2
    <3>2. WellFormed(target.modules[done + 2].image)
      BY <1>2, <3>1, TargetsAre
    <3> QED BY <1>1, <2>2, <3>1, <3>2, AuditBegins
  <2> QED BY <2>1, <2>2
<1> HIDE DEF done, module
<1> QED BY <1>1, <1>2, <1>6, <1>8, <1>9 DEF AuditInv, Scanning, Documented, Followed

\* The launch is decided.
LEMMA LaunchEnds == ASSUME AuditInv, Launch PROVE AuditInv'
<1>1. /\ sweep = "modules" /\ Len(audits) = Len(target.modules) /\ sweep' \in {"launched", "refused"}
      /\ UNCHANGED <<target, scan, audit, audits, preflight>>
  BY DEF Launch
<1>2. Inventoried'
  BY <1>1, InventoryStays DEF AuditInv
<1> QED BY <1>1, <1>2 DEF AuditInv, Scanning, Documented, Followed

\* A chunk of the listing.
LEMMA DocumentGoesOn == ASSUME AuditInv, DocumentChunk PROVE AuditInv'
<1>1. /\ sweep = "document" /\ scan.todo # {} /\ UNCHANGED <<target, sweep, audit, audits, preflight>>
      /\ scan' = IF Backing(scan.image, scan.cursor) = 0 THEN Skipped(scan, ChunkEnd(scan) - scan.cursor)
                 ELSE Swept(scan, Least(ChunkEnd(scan), RegionEnd(scan.image.segments[Backing(scan.image, scan.cursor)])))
  BY DEF DocumentChunk
<1>2. /\ scan.image = target.program /\ Listing(scan, DocumentRegions(target.program)) /\ WellFormed(target.program)
      /\ \A r \in DocumentRegions(target.program) : Held(target.program, r)
  BY <1>1, TargetsAre, SectionsAreHeld DEF AuditInv, Documented
<1>3. Listing(scan', DocumentRegions(target.program)) /\ scan'.image = target.program
  BY <1>1, <1>2, ListsChunk
<1>4. Inventoried'
  BY <1>1, InventoryStays DEF AuditInv
<1> QED BY <1>1, <1>3, <1>4 DEF AuditInv, Scanning, Documented, Followed

\* The listing is shown.
LEMMA ListingEnds == ASSUME AuditInv, Listed PROVE AuditInv'
<1>1. sweep = "document" /\ scan.todo = {} /\ sweep' = "listed" /\ UNCHANGED <<target, scan, audit, audits, preflight>>
  BY DEF Listed
<1>2. Inventoried'
  BY <1>1, InventoryStays DEF AuditInv
<1> QED BY <1>1, <1>2 DEF AuditInv, Scanning, Documented, Followed

\* A step of something else.
LEMMA AuditRests == ASSUME AuditInv, UNCHANGED auditVars PROVE AuditInv'
<1>1. UNCHANGED <<target, sweep, scan, audit, audits, preflight>>
  BY DEF auditVars
<1>2. Inventoried'
  BY <1>1, InventoryStays DEF AuditInv
<1> QED BY <1>1, <1>2 DEF AuditInv, Scanning, Documented, Followed

\* The invariant of the audits.
THEOREM AuditInvariance == AuditSpec => []AuditInv
<1>1. AuditInit => AuditInv
  BY AuditStarts
<1>2. AuditInv /\ [AuditNext]_auditVars => AuditInv'
  <2> SUFFICES ASSUME AuditInv, [AuditNext]_auditVars PROVE AuditInv'
    OBVIOUS
  <2> QED BY ProgramGoesOn, ProgramEnds, ModuleGoesOn, ModuleEnds, LaunchEnds, DocumentGoesOn, ListingEnds, AuditRests
          DEF AuditNext
<1> QED BY <1>1, <1>2, PTL DEF AuditSpec

\* A sweep that was answered is over, and is one over an image.
LEMMA ScansAreOver ==
  ASSUME AuditInv, NEW s \in Scans
  PROVE  SweptAll(s, s.image) /\ WellFormed(s.image)
<1>1. target \in Targets /\ Len(target.modules) \in Nat
  BY TargetsAre DEF AuditInv
<1>2. CASE \E i \in DOMAIN audits : s = audits[i].scan
  <2>1. PICK i \in DOMAIN audits : s = audits[i].scan
    BY <1>2
  <2>2. SweptAll(s, target.modules[i].image)
    BY <2>1 DEF AuditInv, Inventoried
  <2>3. i \in 1 .. Len(target.modules)
    <3>1. audits \in Seq(ToSet(audits)) /\ Len(audits) <= Len(target.modules)
      BY DEF AuditInv, Inventoried
    <3>2. Len(audits) \in Nat /\ i \in 1 .. Len(audits)
      BY <3>1, FinitelyMany
    <3> QED BY <1>1, <3>1, <3>2
  <2>4. WellFormed(target.modules[i].image)
    BY <1>1, <2>3, TargetsAre
  <2> QED BY <2>2, <2>4 DEF SweptAll, Sweeping
<1>3. CASE audit # Nothing /\ s = audit
  <2>1. sweep \in {"modules", "launched", "refused"}
    BY <1>3 DEF AuditInv, Scanning, Documented
  <2>2. SweptAll(s, target.program)
    BY <1>3, <2>1 DEF AuditInv, Followed
  <2> QED BY <1>1, <2>2, TargetsAre DEF SweptAll, Sweeping
<1> QED BY <1>2, <1>3 DEF Scans

\* What a sweep that is over has found.
LEMMA ScansFind ==
  ASSUME AuditInv, NEW s \in Scans
  PROVE  LET all == InstructionsOf(s.image, ProgramRegions(s.image))
         IN /\ s.lines = all /\ s.decoded + s.skipped = Sizes(ProgramRegions(s.image))
            /\ s.found.families = FamiliesOf(s.image, all)
            /\ s.found.evidence = Earliest(MaxEvidence, Unsupported(s.image, all))
            /\ \A a, b \in s.lines : a < b => EndOf(s.image, a) <= b
  BY ScansAreOver, SegmentsAreRegions, EndsSoundly DEF SweptAll, Sweeping

\* No more bytes are counted than there are.
LEMMA ProgressIsCounted == ASSUME AuditInv PROVE BytesAreCounted
<1>0. target \in Targets /\ WellFormed(target.program)
  BY TargetsAre DEF AuditInv
<1>1. \A s \in Scans : s.decoded + s.skipped = Sizes(ProgramRegions(s.image))
  BY ScansFind
<1>2. ASSUME preflight.status = "scanning" PROVE preflight.processed <= Sizes(ProgramRegions(target.program))
  <2>1. sweep = "program"
    BY <1>2 DEF AuditInv, Documented, Followed
  <2>2. Sweeping(scan, target.program) /\ preflight.processed = scan.decoded + scan.skipped
    BY <2>1 DEF AuditInv, Scanning
  <2> DEFINE R == ProgramRegions(target.program)
  <2>3. Regions(scan.image, R) /\ Going(scan, R)
    BY <1>0, <2>2, SegmentsAreRegions DEF Sweeping, Sound
  <2> HIDE DEF R
  <2>4. Passed(scan, R) \subseteq AllBytes(R) /\ IsFiniteSet(AllBytes(R))
    BY <2>3, PassedBytes
  <2>5. Cardinality(Passed(scan, R)) <= Cardinality(AllBytes(R))
    BY <2>4, FS_Subset
  <2>6. preflight.processed = Cardinality(Passed(scan, R))
    BY <2>2, <2>3 DEF Going, Accounted
  <2> QED BY <2>5, <2>6 DEF Sizes, R
<1>3. ASSUME audit # Nothing PROVE preflight.processed = Sizes(ProgramRegions(target.program))
  <2>1. sweep \in {"modules", "launched", "refused"}
    BY <1>3 DEF AuditInv, Scanning, Documented
  <2>2. audit.image = target.program /\ preflight.processed = audit.decoded + audit.skipped
    BY <2>1 DEF AuditInv, Followed, SweptAll, Sweeping
  <2>3. audit \in Scans
    BY <1>3 DEF Scans
  <2> QED BY <1>1, <2>2, <2>3
<1> QED BY <1>1, <1>2, <1>3 DEF BytesAreCounted

\* The listing has what the covered sections hold.
LEMMA ListingHasAll == ASSUME AuditInv PROVE ListingIsComplete
<1> SUFFICES ASSUME sweep = "listed", NEW r \in ToSet(scan.image.sections),
                    \E g \in ToSet(scan.image.segments) :
                      g.executable /\ g.start <= r.start /\ RegionEnd(r) <= RegionEnd(g)
             PROVE  SweepOf(scan.image, r) \subseteq scan.lines
  BY DEF ListingIsComplete
<1>1. /\ scan.image = target.program /\ Listing(scan, DocumentRegions(scan.image)) /\ scan.todo = {}
      /\ WellFormed(scan.image)
  BY TargetsAre DEF AuditInv, Documented
<1>2. Covered(scan.image, r)
  BY DEF Covered
<1>3. CASE r.size > 0
  <2>1. r \in DocumentRegions(scan.image) \ scan.todo
    BY <1>1, <1>3 DEF DocumentRegions
  <2> QED BY <1>1, <1>2, <2>1 DEF Listing, Lists
<1>4. CASE ~(r.size > 0)
  <2>1. r.start \in Nat /\ r.size \in Nat
    BY <1>1, SegmentsEnd
  <2>2. BytesIn(r) = {}
    BY <1>4, <2>1 DEF BytesIn, RegionEnd
  <2> QED BY <2>2 DEF SweepOf
<1> QED BY <1>3, <1>4

\* Only an unsupported instruction at the entry of the interpreter blocks.
LEMMA EntryBlocks ==
  ASSUME NEW m, WellFormed(m.image)
  PROVE  LET blocking == IF Role(m) = "interpreter" THEN EntryAudit(m) ELSE Nothing
         IN blocking # Nothing =>
              /\ target.interpreter \in m.names /\ blocking = m.image.entry
              /\ Family(m.image.code[m.image.entry].kind) # Nothing
<1> DEFINE at == {s \in {m.image.segments[i] : i \in DOMAIN m.image.segments} : s.executable /\ Within(s, m.image.entry)}
           unsupported ==
             /\ m.image.entry # 0
             /\ \E s \in at :
                  /\ m.image.code[m.image.entry].size > 0 /\ EndOf(m.image, m.image.entry) <= RegionEnd(s)
                  /\ Family(m.image.code[m.image.entry].kind) # Nothing
<1>1. EntryAudit(m) = IF unsupported THEN m.image.entry ELSE Nothing
  BY Zenon DEF EntryAudit
<1>2. unsupported => Family(m.image.code[m.image.entry].kind) # Nothing
  OBVIOUS
<1> HIDE DEF unsupported
<1>3. Role(m) = "interpreter" => target.interpreter \in m.names
  BY DEF Role
<1> QED BY <1>1, <1>2, <1>3

\* No library is both blocking and advisory.
LEMMA CountsApart ==
  ASSUME NEW as, NEW n \in Nat, DOMAIN as \subseteq 1 .. n
  PROVE  AdvisoryCount(as) + BlockingCount(as) <= n
<1> DEFINE A == {i \in DOMAIN as : as[i].blocking = Nothing /\ as[i].scan.found.families # {}}
           B == {i \in DOMAIN as : as[i].blocking # Nothing}
<1>0. A \subseteq DOMAIN as /\ B \subseteq DOMAIN as /\ A \cap B = {}
  BY Zenon
<1>2. AdvisoryCount(as) = Cardinality(A) /\ BlockingCount(as) = Cardinality(B)
  BY DEF AdvisoryCount, BlockingCount
<1> HIDE DEF A, B
<1>1. A \cup B \subseteq 1 .. n
  <2>1. \A i \in A \cup B : i \in DOMAIN as
    BY <1>0, Zenon
  <2>2. \A i \in DOMAIN as : i \in 1 .. n
    BY Zenon
  <2> QED BY <2>1, <2>2, Zenon
<1>3. IsFiniteSet(1 .. n) /\ Cardinality(1 .. n) <= n
  <2>1. /\ IsFiniteSet(1 .. n)
        /\ Cardinality(1 .. n) = IF 1 > n THEN 0 ELSE n - 1 + 1
    BY FS_Interval
  <2> QED BY <2>1
<1>4. /\ IsFiniteSet(A) /\ IsFiniteSet(B) /\ Cardinality(A \cup B) <= Cardinality(1 .. n)
      /\ Cardinality(A) \in Nat /\ Cardinality(B) \in Nat /\ Cardinality(1 .. n) \in Nat
  <2>1. A \subseteq 1 .. n /\ B \subseteq 1 .. n
    BY <1>1, Zenon
  <2> QED BY <1>1, <1>3, <2>1, FS_Subset, FS_CardinalityType
<1>5. Cardinality(A \cup B) = Cardinality(A) + Cardinality(B) - Cardinality(A \cap B)
  BY <1>4, FS_Union
<1>6. Cardinality(A \cap B) = 0
  BY <1>0, FS_EmptySet
<1> QED BY <1>2, <1>3, <1>4, <1>5, <1>6

\* At the launch only the entry of the interpreter blocks.
LEMMA EntryOnly == ASSUME AuditInv PROVE OnlyTheEntryBlocks
<1> SUFFICES ASSUME sweep \in {"launched", "refused"}
             PROVE  /\ Len(audits) = Len(target.modules)
                    /\ \A i \in DOMAIN audits :
                         LET m == target.modules[i]
                         IN audits[i].blocking # Nothing <=>
                              /\ target.interpreter \in m.names /\ audits[i].blocking = m.image.entry
                              /\ Family(m.image.code[m.image.entry].kind) # Nothing
                    /\ AdvisoryCount(audits) + BlockingCount(audits) <= Len(target.modules)
  BY DEF OnlyTheEntryBlocks
<1>1. /\ Len(audits) = Len(target.modules) /\ Inventoried /\ target \in Targets /\ Len(target.modules) \in Nat
      /\ DOMAIN audits = 1 .. Len(target.modules)
  <2>1. Len(audits) = Len(target.modules) /\ Inventoried /\ target \in Targets
    BY DEF AuditInv, Followed
  <2>2. Len(target.modules) \in Nat /\ DOMAIN audits = 1 .. Len(audits)
    BY <2>1, TargetsAre, FinitelyMany DEF Inventoried
  <2> QED BY <2>1, <2>2
<1>2. ASSUME NEW i \in DOMAIN audits
      PROVE  LET m == target.modules[i]
             IN audits[i].blocking # Nothing <=>
                  /\ target.interpreter \in m.names /\ audits[i].blocking = m.image.entry
                  /\ Family(m.image.code[m.image.entry].kind) # Nothing
  <2> DEFINE m == target.modules[i]
  <2>1. WellFormed(m.image)
    BY <1>1, TargetsAre
  <2>2. audits[i].blocking = IF Role(m) = "interpreter" THEN EntryAudit(m) ELSE Nothing
    BY <1>1 DEF Inventoried
  <2>3. m.image.entry \in Nat /\ Nothing \notin Nat
    BY <2>1, AuditAssumption DEF WellFormed
  <2> HIDE DEF m
  <2>4. audits[i].blocking # Nothing =>
          /\ target.interpreter \in m.names /\ audits[i].blocking = m.image.entry
          /\ Family(m.image.code[m.image.entry].kind) # Nothing
    BY <2>1, <2>2, EntryBlocks
  <2> QED BY <2>3, <2>4 DEF m
<1>3. AdvisoryCount(audits) + BlockingCount(audits) <= Len(target.modules)
  BY <1>1, CountsApart
<1> QED BY <1>1, <1>2, <1>3

\* The types of the audits.
LEMMA AuditTypes == ASSUME AuditInv PROVE AuditTypeOK
<1>1. Len(audits) <= Len(target.modules)
  BY DEF AuditInv, Inventoried
<1>2. preflight.status \in {"idle", "scanning", "compatible", "incompatible"}
  BY DEF AuditInv, Scanning, Documented, Followed
<1>3. scan = Nothing \/ (scan.decoded \in Nat /\ scan.skipped \in Nat)
  BY DEF AuditInv, Scanning, Documented, Followed, Sweeping, Sound, Going, Accounted, Listing, Lists
<1> QED BY <1>1, <1>2, <1>3 DEF AuditInv, AuditTypeOK

\* Whatever the image, the chunks and the limits, a sweep meets every instruction once,
\* counts every byte, has every family of what is unsupported, lists what it promises,
\* and only the entry of the interpreter blocks.
THEOREM SweepsMissNothing == AuditSpec => []SweepMissesNothing
<1>1. AuditInv => SweepMissesNothing
  <2> SUFFICES ASSUME AuditInv PROVE SweepMissesNothing
    OBVIOUS
  <2>1. ChunksAreSeamless
    BY ScansFind DEF ChunksAreSeamless
  <2>2. FamiliesAreComplete
    BY ScansFind DEF FamiliesAreComplete
  <2> QED BY <2>1, <2>2, AuditTypes, ProgressIsCounted, ListingHasAll, EntryOnly DEF SweepMissesNothing
<1> QED BY <1>1, AuditInvariance, PTL

-----------------------------------------------------------------------------
(***************************************************************************)
(* The places: the bytes that lines show are those of the image            *)
(***************************************************************************)
\* A set of numbers below a bound has a greatest one.
LEMMA GreatestNumber ==
  ASSUME NEW S, NEW bound \in Nat, \A n \in S : n \in Nat /\ n <= bound, S # {}
  PROVE  \E m \in S : \A n \in S : n <= m
<1> DEFINE below == {bound - n : n \in S}
<1>1. below \subseteq Nat /\ below # {}
  <2>1. \A n \in S : bound - n \in Nat
    OBVIOUS
  <2>2. \A n \in S : bound - n \in below
    OBVIOUS
  <2> QED BY <2>1, <2>2
<1>2. PICK d \in below : \A e \in below : d <= e
  <2> HIDE DEF below
  <2> QED BY <1>1, LeastNumber
<1>3. PICK m \in S : d = bound - m
  OBVIOUS
<1>4. ASSUME NEW n \in S PROVE n <= m
  <2>1. bound - n \in below /\ m \in Nat /\ n \in Nat
    OBVIOUS
  <2> HIDE DEF below
  <2> QED BY <1>2, <1>3, <2>1
<1> QED BY <1>4

\* The lines from first to last are the pieces of b between cuts.
Pieces(lines, first, last, b, cut) ==
  /\ \A k \in first - 1..last : cut[k] \in 0..Len(b)
  /\ \A j, k \in first - 1..last : j <= k => cut[j] <= cut[k]
  /\ \A k \in first..last : lines[k].bytes = SubSeq(b, cut[k - 1] + 1, cut[k])

\* Pieces that follow one another are put together by BytesOf.
LEMMA JoinedBytes ==
  ASSUME NEW b \in Seq(Nat), NEW lines, NEW first \in Nat \ {0}, NEW last \in Nat, first <= last, NEW cut,
         Pieces(lines, first, last, b, cut)
  PROVE  BytesOf(lines, first, last) = SubSeq(b, cut[first - 1] + 1, cut[last])
<1> DEFINE body(f) == [k \in first - 1..last |-> IF k < first THEN <<>> ELSE f[k - 1] \o lines[k].bytes]
           upTo == CHOOSE f : f = body(f)
           g == [k \in first - 1..last |-> SubSeq(b, cut[first - 1] + 1, cut[k])]
           bad == {k \in first - 1..last : upTo[k] # g[k]}
<1>0. first - 1 \in first - 1..last /\ last \in first - 1..last
  OBVIOUS
<1>9. /\ \A k \in first - 1..last : cut[k] \in 0..Len(b)
      /\ \A j, k \in first - 1..last : j <= k => cut[j] <= cut[k]
      /\ \A k \in first..last : lines[k].bytes = SubSeq(b, cut[k - 1] + 1, cut[k])
  BY DEF Pieces
<1>1. g[first - 1] = <<>>
  <2>1. cut[first - 1] \in 0..Len(b)
    BY <1>0, <1>9
  <2>2. cut[first - 1] + 1 \in Int /\ cut[first - 1] \in Int /\ cut[first - 1] < cut[first - 1] + 1
    BY <2>1
  <2>3. SubSeq(b, cut[first - 1] + 1, cut[first - 1]) = <<>>
    BY <2>2, SubSeqEmpty
  <2> QED BY <1>0, <2>3
<1>2. ASSUME NEW k \in first..last PROVE g[k] = g[k - 1] \o lines[k].bytes
  <2>1. k \in first - 1..last /\ k - 1 \in first - 1..last /\ first - 1 <= k - 1 /\ k - 1 <= k /\ ~(k < first)
    OBVIOUS
  <2>2. /\ cut[first - 1] \in 0..Len(b) /\ cut[k - 1] \in 0..Len(b) /\ cut[k] \in 0..Len(b)
        /\ cut[first - 1] <= cut[k - 1] /\ cut[k - 1] <= cut[k] /\ Len(b) \in Nat
    BY <1>0, <1>9, <2>1
  <2>3. PICK p, q, s, n \in Int : p = cut[first - 1] /\ q = cut[k - 1] /\ s = cut[k] /\ n = Len(b)
    BY <2>2
  <2>4. 0 <= p /\ p <= q /\ q <= s /\ s <= n
    BY <2>2, <2>3
  <2>7. PICK m \in Int : m = p + 1
    OBVIOUS
  <2>8. m \in 1..n + 1 /\ q \in m - 1..n /\ s \in q..n
    BY <2>4, <2>7
  <2>5. SubSeq(b, m, q) \o SubSeq(b, q + 1, s) = SubSeq(b, m, s)
    BY <2>3, <2>8, ConcatAdjacentSubSeq
  <2>6. g[k] = SubSeq(b, m, s) /\ g[k - 1] = SubSeq(b, m, q) /\ lines[k].bytes = SubSeq(b, q + 1, s)
    BY <1>9, <2>1, <2>3, <2>7
  <2> QED BY <2>5, <2>6
<1>3. g = body(g)
  <2>1. ASSUME NEW k \in first - 1..last
        PROVE  g[k] = IF k < first THEN <<>> ELSE g[k - 1] \o lines[k].bytes
    <3>1. k < first => k = first - 1
      OBVIOUS
    <3>2. ~(k < first) => k \in first..last
      OBVIOUS
    <3> HIDE DEF g
    <3> QED BY <1>1, <1>2, <3>1, <3>2
  <2>2. g = [k \in first - 1..last |-> g[k]]
    OBVIOUS
  <2> HIDE DEF g
  <2> QED BY <2>1, <2>2, Zenon
<1>4. upTo = body(upTo)
  <2> HIDE DEF g
  <2> QED BY <1>3, Zenon
<1>5. BytesOf(lines, first, last) = upTo[last]
  BY Zenon DEF BytesOf
<1> HIDE DEF upTo, g
<1>6. bad = {}
  <2>1. SUFFICES ASSUME bad # {} PROVE FALSE
    OBVIOUS
  <2>2. PICK k \in bad : \A n \in bad : k <= n
    <3>1. bad \subseteq Nat
      OBVIOUS
    <3> HIDE DEF bad
    <3> QED BY <2>1, <3>1, LeastNumber
  <2>3. k # first - 1
    <3>1. upTo[first - 1] = <<>>
      BY <1>0, <1>4
    <3> QED BY <1>1, <2>2, <3>1
  <2>4. k \in first..last /\ k - 1 \in first - 1..last /\ k \in first - 1..last /\ k - 1 \notin bad
    BY <2>2, <2>3
  <2>5. upTo[k - 1] = g[k - 1]
    BY <2>4
  <2>6. upTo[k] = upTo[k - 1] \o lines[k].bytes
    <3>1. ~(k < first)
      BY <2>4
    <3> HIDE DEF bad
    <3> QED BY <1>4, <2>4, <3>1
  <2> QED BY <1>2, <2>2, <2>4, <2>5, <2>6
<1>7. upTo[last] = g[last]
  BY <1>0, <1>6
<1>8. g[last] = SubSeq(b, cut[first - 1] + 1, cut[last])
  BY <1>0 DEF g
<1> QED BY <1>5, <1>7, <1>8, Zenon

\* The images of a guest.
LEMMA GuestIs ==
  ASSUME guest \in Guests, NEW r \in Candidates
  PROVE  /\ guest.biases[r] \in Nat /\ guest[r].start \in Nat /\ guest[r].bytes \in Seq(Nat)
         /\ Len(guest[r].bytes) \in Nat /\ Len(guest[r].from) \in Nat
         /\ \A i \in 1..Len(guest[r].from) : guest[r].from[i] \in 0..Len(guest[r].bytes)
         /\ \A i, j \in 1..Len(guest[r].from) : i < j => guest[r].from[i] < guest[r].from[j]
         /\ \A i \in Instructions(guest[r]) : guest[r].from[i + 1] - guest[r].from[i] <= MaxWindow
         /\ guest.fixed => guest.biases["program"] = 0
<1>1. Loadable(guest[r]) /\ guest.biases \in [Candidates -> Nat] /\ (guest.fixed => guest.biases["program"] = 0)
  BY GuestsAssumption
<1>2. guest[r].bytes \in Seq(Nat) /\ guest[r].start \in Nat
  BY <1>1 DEF Loadable
<1>3. PICK n \in Nat : n = Len(guest[r].bytes)
  BY <1>2, LenProperties
<1>4. PICK from \in Seq(0..n) : from = guest[r].from
  BY <1>1, <1>3 DEF Loadable
<1>5. Len(from) \in Nat /\ DOMAIN from = 1..Len(from) /\ \A i \in 1..Len(from) : from[i] \in 0..n
  OBVIOUS
<1>6. \A i, j \in 1..Len(from) : i < j => from[i] < from[j]
  BY <1>1, <1>4, <1>5 DEF Loadable
<1>7. \A i \in Instructions(guest[r]) : guest[r].from[i + 1] - guest[r].from[i] <= MaxWindow
  BY <1>1 DEF Loadable
<1> QED BY <1>1, <1>2, <1>3, <1>4, <1>5, <1>6, <1>7

\* No address is in two images.
LEMMA ImagesApart ==
  ASSUME guest \in Guests, NEW r \in Candidates, NEW d \in Candidates, NEW x \in Int,
         Base(guest, r) <= x, x < Top(guest, r), Base(guest, d) <= x, x < Top(guest, d)
  PROVE  r = d
<1>1. ASSUME NEW c \in Candidates PROVE Base(guest, c) \in Nat /\ Top(guest, c) \in Nat
  <2>1. guest.biases[c] \in Nat /\ guest[c].start \in Nat /\ Len(guest[c].bytes) \in Nat
    BY GuestIs
  <2> QED BY <2>1 DEF Base, Top
<1>2. Top(guest, "program") <= Base(guest, "library") \/ Top(guest, "library") <= Base(guest, "program")
  BY GuestsAssumption
<1> QED BY <1>1, <1>2 DEF Candidates

\* The lines are those of the instructions from first to last.
Shown(lines, r, first, last) ==
  /\ first \in Nat \ {0} /\ last \in Nat /\ first <= last /\ last < Len(guest[r].from)
  /\ DOMAIN lines = 1..last - first + 1 /\ Len(lines) = last - first + 1
  /\ \A k \in 1..last - first + 1 :
       /\ lines[k].address = InMemory(r, first + k - 1)
       /\ lines[k].bytes = SubSeq(guest[r].bytes, guest[r].from[first + k - 1] + 1, guest[r].from[first + k])

\* What the debugger shows around an instruction, the instruction among it.
LEMMA LinesShow ==
  ASSUME guest \in Guests, NEW r \in Candidates, NEW i \in Instructions(guest[r])
  PROVE  \E first, last \in Nat : first <= i /\ i <= last /\ Shown(Lines(r, i), r, first, last)
<1> DEFINE n == Len(guest[r].from)
<1>1. n \in Nat /\ i \in 1..n - 1 /\ Nearby \in Nat
  BY GuestIs, GuestsAssumption DEF Instructions
<1> HIDE DEF n
<1>2. PICK first \in Nat : first = IF i > Nearby THEN i - Nearby ELSE 1
  BY <1>1
<1>3. PICK last \in Nat : last = IF i + Nearby < n THEN i + Nearby ELSE n - 1
  BY <1>1
<1>4. first # 0 /\ first <= i /\ i <= last /\ last < n /\ last - first + 1 \in Nat
  BY <1>1, <1>2, <1>3
<1>5. Lines(r, i) = [k \in 1..last - first + 1 |->
                       [address |-> InMemory(r, first + k - 1),
                        bytes |-> SubSeq(guest[r].bytes, guest[r].from[first + k - 1] + 1, guest[r].from[first + k])]]
  BY <1>2, <1>3, Zenon DEF Lines, n
<1>6. PICK m \in Nat : m = last - first + 1
  BY <1>4
<1>7. PICK lines : lines = Lines(r, i)
  OBVIOUS
<1>8. DOMAIN lines = 1..m
  BY <1>5, <1>6, <1>7
<1>9. Len(lines) = m
  BY <1>5, <1>6, <1>7
<1>10. ASSUME NEW k \in 1..last - first + 1
       PROVE  /\ lines[k].address = InMemory(r, first + k - 1)
              /\ lines[k].bytes = SubSeq(guest[r].bytes, guest[r].from[first + k - 1] + 1, guest[r].from[first + k])
  BY <1>5, <1>6, <1>7
<1>11. Shown(lines, r, first, last)
  <2>1. first \in Nat \ {0} /\ last \in Nat /\ first <= last /\ last < Len(guest[r].from)
    BY <1>1, <1>4 DEF n
  <2>2. DOMAIN lines = 1..last - first + 1 /\ Len(lines) = last - first + 1
    BY <1>6, <1>8, <1>9
  <2> QED BY <1>10, <2>1, <2>2, Zenon DEF Shown
<1> QED BY <1>4, <1>7, <1>11

\* Lines put together are what lies between.
LEMMA LinesJoin ==
  ASSUME guest \in Guests, NEW r \in Candidates, NEW lines, NEW first, NEW last, Shown(lines, r, first, last),
         NEW f \in 1..Len(lines), NEW l \in 1..Len(lines), f <= l
  PROVE  BytesOf(lines, f, l) = SubSeq(guest[r].bytes, guest[r].from[first + f - 1] + 1, guest[r].from[first + l])
<1> DEFINE from == guest[r].from
           cut == [k \in 0..last - first + 1 |-> from[first + k]]
<1>1. first \in Nat \ {0} /\ last \in Nat /\ first <= last /\ Len(lines) = last - first + 1 /\ last < Len(from)
  BY DEF Shown
<1>2. /\ Len(from) \in Nat /\ guest[r].bytes \in Seq(Nat) /\ Len(guest[r].bytes) \in Nat
      /\ \A i \in 1..Len(from) : from[i] \in 0..Len(guest[r].bytes)
      /\ \A i, j \in 1..Len(from) : i < j => from[i] < from[j]
  BY GuestIs
<1>3. f \in Nat \ {0} /\ l \in Nat /\ f \in 1..last - first + 1 /\ l \in 1..last - first + 1
  BY <1>1
<1> HIDE DEF from
<1>4. \A k \in f - 1..l : k \in 0..last - first + 1 /\ first + k \in 1..Len(from) /\ cut[k] = from[first + k]
  BY <1>1, <1>2, <1>3
<1> HIDE DEF cut
<1>5. \A k \in f - 1..l : cut[k] \in 0..Len(guest[r].bytes)
  BY <1>2, <1>4
<1>6. ASSUME NEW j \in f - 1..l, NEW k \in f - 1..l, j <= k PROVE cut[j] <= cut[k]
  <2>0. first + j \in 1..Len(from) /\ first + k \in 1..Len(from)
    BY <1>4
  <2>1. first + j \in 1..Len(from) /\ first + k \in 1..Len(from) /\ (j = k \/ first + j < first + k)
    BY <1>1, <1>3, <1>6, <2>0
  <2>2. from[first + j] \in Nat /\ from[first + k] \in Nat /\ (j # k => from[first + j] < from[first + k])
    BY <1>2, <2>1
  <2> QED BY <1>4, <2>2
<1>7. ASSUME NEW k \in f..l PROVE lines[k].bytes = SubSeq(guest[r].bytes, cut[k - 1] + 1, cut[k])
  <2>1. k \in 1..last - first + 1 /\ k \in f - 1..l /\ k - 1 \in f - 1..l /\ first + (k - 1) = first + k - 1
    BY <1>1, <1>3
  <2>2. lines[k].bytes = SubSeq(guest[r].bytes, from[first + k - 1] + 1, from[first + k])
    BY <2>1 DEF Shown, from
  <2> QED BY <1>4, <2>1, <2>2
<1>8. BytesOf(lines, f, l) = SubSeq(guest[r].bytes, cut[f - 1] + 1, cut[l])
  <2>1. PICK b \in Seq(Nat) : b = guest[r].bytes
    BY <1>2
  <2>2. \A k \in f - 1..l : cut[k] \in 0..Len(b)
    BY <1>5, <2>1
  <2>3. \A j, k \in f - 1..l : j <= k => cut[j] <= cut[k]
    BY <1>6
  <2>4. \A k \in f..l : lines[k].bytes = SubSeq(b, cut[k - 1] + 1, cut[k])
    BY <1>7, <2>1
  <2>5. BytesOf(lines, f, l) = SubSeq(b, cut[f - 1] + 1, cut[l])
    <3>1. PICK c : c = cut
      OBVIOUS
    <3>2. \A k \in f - 1..l : c[k] \in 0..Len(b)
      BY <2>2, <3>1
    <3>3. \A j, k \in f - 1..l : j <= k => c[j] <= c[k]
      BY <2>3, <3>1
    <3>4. \A k \in f..l : lines[k].bytes = SubSeq(b, c[k - 1] + 1, c[k])
      BY <2>4, <3>1
    <3>5. f \in Nat \ {0} /\ l \in Nat /\ f <= l
      BY <1>3
    <3>6. Pieces(lines, f, l, b, c)
      BY <3>2, <3>3, <3>4, Zenon DEF Pieces
    <3>7. BytesOf(lines, f, l) = SubSeq(b, c[f - 1] + 1, c[l])
      BY <3>5, <3>6, JoinedBytes
    <3> QED BY <3>1, <3>7
  <2> QED BY <2>1, <2>5
<1>9. cut[f - 1] = from[first + f - 1] /\ cut[l] = from[first + l]
  <2>1. f - 1 \in f - 1..l /\ l \in f - 1..l /\ first + (f - 1) = first + f - 1
    BY <1>1, <1>3
  <2> QED BY <1>4, <2>1
<1> QED BY <1>8, <1>9 DEF from

\* The address of a line is that of one instruction.
LEMMA CursorIs ==
  ASSUME guest \in Guests, NEW r \in Candidates, NEW lines, NEW first, NEW last, Shown(lines, r, first, last),
         NEW i \in first..last
  PROVE  CursorLine(lines, InMemory(r, i)) = i - first + 1
<1> DEFINE from == guest[r].from
           k == i - first + 1
<1>1. first \in Nat \ {0} /\ last \in Nat /\ first <= last /\ DOMAIN lines = 1..last - first + 1 /\ last < Len(from)
  BY DEF Shown
<1>2. /\ Len(from) \in Nat /\ guest.biases[r] \in Nat /\ guest[r].start \in Nat
      /\ \A n \in 1..Len(from) : from[n] \in Nat
      /\ \A m, n \in 1..Len(from) : m < n => from[m] < from[n]
  BY GuestIs
<1> HIDE DEF from
<1>3. ASSUME NEW n \in DOMAIN lines
      PROVE  lines[n].address = guest.biases[r] + (guest[r].start + from[first + n - 1]) /\ first + n - 1 \in 1..Len(from)
  <2>1. n \in 1..last - first + 1 /\ first + n - 1 \in 1..Len(from)
    BY <1>1, <1>2
  <2> QED BY <2>1 DEF Shown, InMemory, AddressOf, from
<1>4. k \in DOMAIN lines /\ first + k - 1 = i /\ i \in 1..Len(from)
  BY <1>1, <1>2
<1>5. InMemory(r, i) = guest.biases[r] + (guest[r].start + from[i])
  BY DEF InMemory, AddressOf, from
<1>6. lines[k].address = InMemory(r, i)
  BY <1>3, <1>4, <1>5
<1>7. ASSUME NEW n \in DOMAIN lines, lines[n].address = InMemory(r, i) PROVE n = k
  <2>1. PICK j \in 1..Len(from) : j = first + n - 1
    BY <1>3
  <2>2. guest.biases[r] + (guest[r].start + from[j]) = guest.biases[r] + (guest[r].start + from[i])
    BY <1>3, <1>5, <1>7, <2>1
  <2>3. from[i] \in Nat /\ from[j] \in Nat /\ from[i] = from[j]
    BY <1>2, <1>4, <2>1, <2>2
  <2>4. ~(i < j) /\ ~(j < i)
    BY <1>2, <1>4, <2>1, <2>3
  <2>5. n \in Int
    BY <1>1
  <2> QED BY <1>1, <1>4, <2>1, <2>4, <2>5
<1> HIDE DEF k
<1>8. CursorLine(lines, InMemory(r, i)) = k
  BY <1>4, <1>6, <1>7, Zenon DEF CursorLine
<1> QED BY <1>8 DEF k

\* The bytes are those of the image at the address.
Genuine(r, address, bytes) ==
  \E o \in 0..Len(guest[r].bytes) :
    /\ address = Base(guest, r) + o /\ o + Len(bytes) <= Len(guest[r].bytes) /\ Len(bytes) \in Nat
    /\ SubSeq(guest[r].bytes, o + 1, o + Len(bytes)) = bytes

\* A piece of the image is genuine.
LEMMA PieceIsGenuine ==
  ASSUME guest \in Guests, NEW r \in Candidates, NEW p \in 0..Len(guest[r].bytes), NEW q \in p..Len(guest[r].bytes)
  PROVE  /\ Genuine(r, Base(guest, r) + p, SubSeq(guest[r].bytes, p + 1, q))
         /\ Len(SubSeq(guest[r].bytes, p + 1, q)) = q - p
<1>1. guest[r].bytes \in Seq(Nat) /\ Len(guest[r].bytes) \in Nat
  BY GuestIs
<1>2. \A k \in p + 1..q : guest[r].bytes[k] \in Nat
  <2>1. \A k \in p + 1..q : k \in 1..Len(guest[r].bytes)
    BY <1>1
  <2> QED BY <1>1, <2>1, ElementOfSeq
<1>3. PICK m \in Int : m = p + 1
  BY <1>1
<1>4. Len(SubSeq(guest[r].bytes, m, q)) = IF m <= q THEN q - m + 1 ELSE 0
  <2>1. q \in Int
    BY <1>1
  <2> QED BY <1>2, <1>3, <2>1, SubSeqProperties
<1>5. Len(SubSeq(guest[r].bytes, p + 1, q)) = q - p
  BY <1>1, <1>3, <1>4
<1>6. PICK bytes : bytes = SubSeq(guest[r].bytes, p + 1, q)
  OBVIOUS
<1>7. Len(bytes) = q - p /\ p + Len(bytes) = q /\ p + Len(bytes) <= Len(guest[r].bytes) /\ Len(bytes) \in Nat
  BY <1>1, <1>5, <1>6
<1>8. Genuine(r, Base(guest, r) + p, bytes)
  BY <1>6, <1>7 DEF Genuine
<1> QED BY <1>5, <1>6, <1>8

\* The window is the bytes of some instructions, at the address of the first.
LEMMA WindowShows ==
  ASSUME guest \in Guests, NEW r \in Candidates, NEW lines, NEW first, NEW last, Shown(lines, r, first, last),
         NEW cursor \in 1..Len(lines)
  PROVE  \E a, z \in Instructions(guest[r]) :
           /\ a <= z /\ Window(lines, cursor).address = InMemory(r, a)
           /\ Window(lines, cursor).bytes = SubSeq(guest[r].bytes, guest[r].from[a] + 1, guest[r].from[z + 1])
<1> DEFINE end == LastLine(lines, cursor)
           begin == FirstLine(lines, cursor, end)
           after == {l \in cursor..Len(lines) : FitsWindow(lines, cursor, l)}
           Short(f) == \A k \in f + 1..cursor : Len(BytesOf(lines, k, end)) < Enough
           before == {f \in 1..cursor : FitsWindow(lines, f, end) /\ Short(f)}
<1>1. first \in Nat \ {0} /\ last \in Nat /\ first <= last /\ Len(lines) = last - first + 1 /\ last < Len(guest[r].from)
  BY DEF Shown
<1>2. cursor \in Nat /\ Len(lines) \in Nat /\ Len(guest[r].from) \in Nat
  BY <1>1, GuestIs
<1>3. cursor \in after
  <2>1. BytesOf(lines, cursor, cursor)
          = SubSeq(guest[r].bytes, guest[r].from[first + cursor - 1] + 1, guest[r].from[first + cursor])
    BY <1>2, LinesJoin
  <2>2. PICK i \in Instructions(guest[r]) : i = first + cursor - 1
    BY <1>1, <1>2 DEF Instructions
  <2>3. /\ i \in 1..Len(guest[r].from) /\ i + 1 \in 1..Len(guest[r].from) /\ i < i + 1
        /\ first + cursor = i + 1
    BY <1>1, <1>2, <2>2 DEF Instructions
  <2>4. PICK p, q \in Int : p = guest[r].from[i] /\ q = guest[r].from[i + 1] /\ p \in 0..Len(guest[r].bytes)
                            /\ q \in 0..Len(guest[r].bytes) /\ p < q /\ q - p <= MaxWindow
    <3>1. guest[r].from[i] \in 0..Len(guest[r].bytes) /\ guest[r].from[i + 1] \in 0..Len(guest[r].bytes)
      BY <2>3, GuestIs
    <3>2. guest[r].from[i] < guest[r].from[i + 1]
      BY <2>3, GuestIs
    <3>3. guest[r].from[i + 1] - guest[r].from[i] <= MaxWindow
      BY GuestIs
    <3> QED BY <3>1, <3>2, <3>3
  <2>5. Len(SubSeq(guest[r].bytes, p + 1, q)) = q - p
    <3>1. p \in 0..Len(guest[r].bytes) /\ q \in p..Len(guest[r].bytes)
      BY <2>4, GuestIs
    <3> QED BY <3>1, PieceIsGenuine
  <2>6. Len(BytesOf(lines, cursor, cursor)) <= MaxWindow
    BY <2>1, <2>2, <2>3, <2>4, <2>5
  <2>7. Contiguous(lines, cursor, cursor)
    <3>1. cursor..cursor - 1 = {}
      BY <1>2
    <3> QED BY <3>1 DEF Contiguous
  <2>8. cursor \in cursor..Len(lines)
    BY <1>2
  <2> QED BY <2>6, <2>7, <2>8 DEF FitsWindow
<1>4. end \in after
  <2>1. \A n \in after : n \in Nat /\ n <= Len(lines)
    BY <1>2
  <2>2. end = CHOOSE l \in after : \A k \in after : k <= l
    BY Zenon DEF LastLine
  <2> HIDE DEF after, end
  <2>3. \E m \in after : \A n \in after : n <= m
    BY <1>2, <1>3, <2>1, GreatestNumber
  <2> QED BY <2>2, <2>3, Zenon
<1>5. end \in cursor..Len(lines) /\ FitsWindow(lines, cursor, end)
  BY <1>4
<1>6. begin = CHOOSE f \in before : \A k \in before : f <= k
  BY Zenon DEF FirstLine
<1> HIDE DEF end, begin
<1>7. cursor \in before
  <2>1. cursor \in 1..cursor /\ cursor + 1..cursor = {}
    BY <1>2
  <2> QED BY <1>5, <2>1
<1>8. begin \in 1..cursor
  <2>1. before \subseteq Nat /\ before # {}
    BY <1>7
  <2>2. before \subseteq 1..cursor
    OBVIOUS
  <2> HIDE DEF before
  <2>3. begin = Lowest(before)
    BY <1>6, Zenon DEF Lowest
  <2> QED BY <2>1, <2>2, <2>3, LeastNumber
<1>9. Window(lines, cursor) = [address |-> lines[begin].address, bytes |-> BytesOf(lines, begin, end)]
  BY Zenon DEF Window, begin, end
<1>10. PICK a, z \in Int : a = first + begin - 1 /\ z = first + end - 1
  BY <1>1, <1>2, <1>5, <1>8
<1>11. a \in 1..Len(guest[r].from) - 1 /\ z \in 1..Len(guest[r].from) - 1 /\ a <= z /\ z + 1 = first + end
  BY <1>1, <1>2, <1>5, <1>8, <1>10
<1>12. begin \in 1..Len(lines) /\ end \in 1..Len(lines) /\ begin <= end
  BY <1>2, <1>5, <1>8
<1>13. lines[begin].address = InMemory(r, a)
  BY <1>1, <1>10, <1>12 DEF Shown
<1>14. BytesOf(lines, begin, end) = SubSeq(guest[r].bytes, guest[r].from[a] + 1, guest[r].from[z + 1])
  BY <1>10, <1>11, <1>12, LinesJoin
<1>15. PICK w : w = Window(lines, cursor)
  OBVIOUS
<1>16. w.address = InMemory(r, a) /\ w.bytes = SubSeq(guest[r].bytes, guest[r].from[a] + 1, guest[r].from[z + 1])
  BY <1>9, <1>13, <1>14, <1>15
<1> QED BY <1>11, <1>15, <1>16 DEF Instructions

-----------------------------------------------------------------------------
(***************************************************************************)
(* The places: what is found by genuine bytes is the image                 *)
(***************************************************************************)
\* The place an image is at is among those a signature of it is found at.
LEMMA SignedHasIt ==
  ASSUME guest \in Guests, NEW r \in Candidates, NEW address, NEW bytes, Genuine(r, address, bytes)
  PROVE  [image |-> r, bias |-> guest.biases[r]] \in Signed(address, bytes) /\ Len(bytes) \in Nat /\ address \in Int
<1>1. PICK o \in 0..Len(guest[r].bytes) :
        /\ address = Base(guest, r) + o /\ o + Len(bytes) <= Len(guest[r].bytes) /\ Len(bytes) \in Nat
        /\ SubSeq(guest[r].bytes, o + 1, o + Len(bytes)) = bytes
  BY DEF Genuine
<1>2. guest.biases[r] \in Nat /\ guest[r].start \in Nat /\ Len(guest[r].bytes) \in Nat
  BY GuestIs
<1>3. address = guest.biases[r] + guest[r].start + o /\ address \in Int
  BY <1>1, <1>2 DEF Base
<1>4. address - guest[r].start - o = guest.biases[r] /\ o \in 0..Len(guest[r].bytes) - Len(bytes)
  BY <1>1, <1>2, <1>3
<1>5. Occurs(bytes, guest[r].bytes, o)
  BY <1>1 DEF Occurs
<1>6. [image |-> r, bias |-> address - guest[r].start - o] \in Signed(address, bytes)
  BY <1>4, <1>5 DEF Signed
<1> QED BY <1>1, <1>3, <1>4, <1>6

\* Whatever is found by a signature is an image and a bias.
LEMMA SignedAre ==
  ASSUME guest \in Guests, NEW address \in Int, NEW bytes, Len(bytes) \in Nat
  PROVE  \A m \in Signed(address, bytes) : m.image \in Candidates /\ m.bias \in Int
<1>1. SUFFICES ASSUME NEW c \in Candidates, NEW o \in 0..Len(guest[c].bytes) - Len(bytes)
               PROVE  address - guest[c].start - o \in Int
  BY DEF Signed
<1>2. guest[c].start \in Nat /\ Len(guest[c].bytes) \in Nat
  BY GuestIs
<1> QED BY <1>2

\* The biases that are remembered are those of the images.
Truthful == DOMAIN known \subseteq Candidates /\ \A c \in DOMAIN known : known[c] = guest.biases[c]

\* Where the biases are true genuine bytes match in their own image and in no other.
LEMMA CachedIs ==
  ASSUME guest \in Guests, Truthful, NEW r \in Candidates, NEW rip, NEW bytes, Genuine(r, rip, bytes), Len(bytes) > 0
  PROVE  Cached(rip, bytes) = IF r \in DOMAIN known THEN {[image |-> r, bias |-> guest.biases[r]]} ELSE {}
<1>1. PICK o \in 0..Len(guest[r].bytes) :
        /\ rip = Base(guest, r) + o /\ o + Len(bytes) <= Len(guest[r].bytes) /\ Len(bytes) \in Nat
        /\ SubSeq(guest[r].bytes, o + 1, o + Len(bytes)) = bytes
  BY DEF Genuine
<1>2. ASSUME NEW d \in Candidates
      PROVE  guest.biases[d] \in Nat /\ guest[d].start \in Nat /\ Len(guest[d].bytes) \in Nat
  BY GuestIs
<1>3. rip = guest.biases[r] + guest[r].start + o /\ rip \in Int
  BY <1>1, <1>2 DEF Base
<1>4. Base(guest, r) <= rip /\ rip < Top(guest, r)
  <2>1. guest.biases[r] \in Nat /\ guest[r].start \in Nat /\ Len(guest[r].bytes) \in Nat
    BY <1>2
  <2> QED BY <1>1, <1>3, <2>1 DEF Base, Top
<1>5. MatchesBias(r, guest.biases[r], rip, bytes)
  <2>1. guest.biases[r] \in Nat /\ guest[r].start \in Nat /\ Len(guest[r].bytes) \in Nat
    BY <1>2
  <2>2. rip - guest.biases[r] >= guest[r].start /\ rip - guest.biases[r] - guest[r].start = o
    BY <1>1, <1>3, <2>1
  <2>3. rip - guest.biases[r] + Len(bytes) <= SegmentEnd(r)
    BY <1>1, <1>3, <2>1 DEF SegmentEnd
  <2>4. Occurs(bytes, guest[r].bytes, o)
    BY <1>1 DEF Occurs
  <2> QED BY <2>2, <2>3, <2>4 DEF MatchesBias
<1>6. ASSUME NEW d \in Candidates, MatchesBias(d, guest.biases[d], rip, bytes) PROVE d = r
  <2>1. guest.biases[d] \in Nat /\ guest[d].start \in Nat /\ Len(guest[d].bytes) \in Nat
    BY <1>2
  <2>2. rip - guest.biases[d] >= guest[d].start /\ rip - guest.biases[d] + Len(bytes) <= guest[d].start + Len(guest[d].bytes)
    BY <1>6 DEF MatchesBias, SegmentEnd
  <2>3. Base(guest, d) <= rip /\ rip < Top(guest, d)
    BY <1>1, <1>3, <2>1, <2>2 DEF Base, Top
  <2> QED BY <1>3, <1>4, <2>3, ImagesApart
<1>7. {d \in DOMAIN known : MatchesBias(d, known[d], rip, bytes)} = IF r \in DOMAIN known THEN {r} ELSE {}
  BY <1>5, <1>6 DEF Truthful
<1>8. r \in DOMAIN known => known[r] = guest.biases[r]
  BY DEF Truthful
<1> QED BY <1>7, <1>8 DEF Cached

\* What is found is unknown, or one of several.
LEMMA OnlyOne ==
  ASSUME NEW found
  PROVE  /\ Only(found) # Unknown => found = {Only(found)}
         /\ \A m : found = {m} => Only(found) = m
<1>1. ASSUME NEW m, found = {m} PROVE Only(found) = m
  <2>1. (CHOOSE x \in found : TRUE) \in found
    BY <1>1
  <2> QED BY <1>1, <2>1 DEF Only
<1>2. ASSUME Only(found) # Unknown PROVE found = {Only(found)}
  <2>1. PICK m \in found : found = {m}
    BY <1>2 DEF Only
  <2> QED BY <1>1, <2>1
<1> QED BY <1>1, <1>2

\* What is resolved for an address in an image, if anything.
TrueMatch(r, rip) == [image |-> r, bias |-> guest.biases[r], address |-> rip - guest.biases[r]]

Resolved(r, rip) ==
  /\ match' \in {Unknown, TrueMatch(r, rip)} /\ (match' # Unknown => r \in DOMAIN known')
  /\ DOMAIN known \subseteq DOMAIN known' /\ Truthful'
  /\ r \in DOMAIN known => match' = TrueMatch(r, rip) /\ match' # Unknown

\* What is resolved by genuine bytes is the image they are of.
LEMMA ResolvesTruly ==
  ASSUME guest \in Guests, UNCHANGED guest, Truthful, NEW r \in Candidates, NEW rip, NEW bytes, NEW signature,
         Genuine(r, rip, bytes), Len(bytes) > 0, Genuine(r, signature.address, signature.bytes),
         ResolveImage(rip, bytes, signature)
  PROVE  Resolved(r, rip)
<1> DEFINE cached == Cached(rip, bytes)
           signed == IF Len(signature.bytes) < MinSignature THEN {} ELSE Signed(signature.address, signature.bytes)
           answer == IF cached # {} THEN Only(cached) ELSE Only(signed)
           it == [image |-> r, bias |-> guest.biases[r]]
<1>1. /\ match' = IF answer = Unknown THEN Unknown
                  ELSE [image |-> answer.image, bias |-> answer.bias, address |-> rip - answer.bias]
      /\ known' = IF cached = {} /\ answer # Unknown THEN Remember(answer.image, answer.bias) ELSE known
  BY Zenon DEF ResolveImage
<1>2. cached = IF r \in DOMAIN known THEN {it} ELSE {}
  BY CachedIs
<1>3. it \in Signed(signature.address, signature.bytes)
  BY SignedHasIt
<1>4. guest.biases[r] \in Nat /\ rip \in Int
  BY GuestIs, SignedHasIt
<1>5. it # Unknown /\ TrueMatch(r, rip) # Unknown /\ it.image = r /\ it.bias = guest.biases[r]
  <2>1. it \in [image : Candidates, bias : Int] /\ TrueMatch(r, rip) \in Matches
    BY <1>4 DEF TrueMatch, Matches
  <2> QED BY <2>1, GuestsAssumption
<1> HIDE DEF cached, signed, it
<1>6. CASE r \in DOMAIN known
  <2>1. answer = it
    BY <1>2, <1>6, OnlyOne
  <2>2. cached # {}
    BY <1>2, <1>6
  <2> HIDE DEF answer
  <2>3. match' = TrueMatch(r, rip) /\ known' = known
    BY <1>1, <1>5, <2>1, <2>2 DEF TrueMatch
  <2> QED BY <1>5, <1>6, <2>3 DEF Resolved, Truthful
<1>7. CASE r \notin DOMAIN known
  <2>1. cached = {} /\ answer = Only(signed)
    BY <1>2, <1>7
  <2>2. answer # Unknown => answer = it
    <3>1. ASSUME answer # Unknown PROVE answer = it
      <4>1. signed = {answer}
        BY <2>1, <3>1, OnlyOne
      <4>2. signed = Signed(signature.address, signature.bytes)
        BY <4>1 DEF signed
      <4> QED BY <1>3, <4>1, <4>2
    <3> QED BY <3>1
  <2> HIDE DEF answer
  <2>3. CASE answer = Unknown
    BY <1>1, <1>7, <2>1, <2>3 DEF Resolved, Truthful
  <2>4. CASE answer # Unknown
    <3>1. match' = TrueMatch(r, rip) /\ known' = Remember(r, guest.biases[r])
      BY <1>1, <1>5, <2>1, <2>2, <2>4 DEF TrueMatch
    <3>2. /\ DOMAIN known' = DOMAIN known \cup {r}
          /\ \A d \in DOMAIN known' : known'[d] = IF d = r THEN guest.biases[r] ELSE known[d]
      BY <3>1 DEF Remember
    <3> QED BY <1>7, <3>1, <3>2 DEF Resolved, Truthful
  <2> QED BY <2>3, <2>4
<1> QED BY <1>6, <1>7

\* Whatever the bytes, what is resolved is remembered.
LEMMA ResolvesSomehow ==
  ASSUME guest \in Guests, Truthful, NEW rip \in Int, NEW bytes, NEW signature, signature.address \in Int,
         Len(signature.bytes) \in Nat, ResolveImage(rip, bytes, signature)
  PROVE  DOMAIN known' \subseteq Candidates /\ (match' = Unknown \/ (match' \in Matches /\ match'.image \in DOMAIN known'))
<1> DEFINE cached == Cached(rip, bytes)
           signed == IF Len(signature.bytes) < MinSignature THEN {} ELSE Signed(signature.address, signature.bytes)
           answer == IF cached # {} THEN Only(cached) ELSE Only(signed)
<1>1. /\ match' = IF answer = Unknown THEN Unknown
                  ELSE [image |-> answer.image, bias |-> answer.bias, address |-> rip - answer.bias]
      /\ known' = IF cached = {} /\ answer # Unknown THEN Remember(answer.image, answer.bias) ELSE known
  BY Zenon DEF ResolveImage
<1>2. \A m \in cached : m.image \in DOMAIN known /\ m.bias = known[m.image]
  BY DEF Cached
<1>3. \A m \in signed : m.image \in Candidates /\ m.bias \in Int
  BY SignedAre
<1> HIDE DEF cached, signed
<1>4. CASE answer = Unknown
  BY <1>1, <1>4 DEF Truthful
<1>5. CASE answer # Unknown
  <2>1. answer \in IF cached # {} THEN cached ELSE signed
    BY <1>5, OnlyOne
  <2>2. \A c \in Candidates : guest.biases[c] \in Int
    BY GuestIs
  <2>3. answer.image \in Candidates /\ answer.bias \in Int /\ (cached # {} => answer.image \in DOMAIN known)
    BY <1>2, <1>3, <2>1, <2>2 DEF Truthful
  <2> HIDE DEF answer
  <2>4. match' \in Matches /\ match'.image = answer.image
    BY <1>1, <1>5, <2>3 DEF Matches
  <2>5. CASE cached = {}
    <3>1. DOMAIN known' = DOMAIN known \cup {answer.image}
      BY <1>1, <1>5, <2>5 DEF Remember
    <3> QED BY <2>3, <2>4, <3>1 DEF Truthful
  <2>6. CASE cached # {}
    BY <1>1, <2>3, <2>4, <2>6 DEF Truthful
  <2> QED BY <2>5, <2>6
<1> QED BY <1>4, <1>5

\* The bytes at an instruction.
LEMMA InstructionAt ==
  ASSUME guest \in Guests, NEW r \in Candidates, NEW i \in Instructions(guest[r])
  PROVE  /\ guest[r].from[i] \in 0..Len(guest[r].bytes) /\ guest[r].from[i + 1] \in 0..Len(guest[r].bytes)
         /\ guest[r].from[i] < guest[r].from[i + 1] /\ guest[r].from[i] < Len(guest[r].bytes)
         /\ InMemory(r, i) = Base(guest, r) + guest[r].from[i] /\ InMemory(r, i) \in Int
         /\ InMemory(r, i) - guest.biases[r] = AddressOf(guest[r], i)
         /\ i \in 1..Len(guest[r].from) /\ i + 1 \in 1..Len(guest[r].from)
<1>1. Len(guest[r].from) \in Nat /\ Len(guest[r].bytes) \in Nat /\ guest.biases[r] \in Nat /\ guest[r].start \in Nat
  BY GuestIs
<1>2. i \in 1..Len(guest[r].from) /\ i + 1 \in 1..Len(guest[r].from) /\ i < i + 1
  BY <1>1 DEF Instructions
<1>3. guest[r].from[i] \in 0..Len(guest[r].bytes) /\ guest[r].from[i + 1] \in 0..Len(guest[r].bytes)
  BY <1>2, GuestIs
<1>4. guest[r].from[i] < guest[r].from[i + 1]
  BY <1>2, GuestIs
<1>5. PICK p, q \in Int : p = guest[r].from[i] /\ q = guest[r].from[i + 1]
  BY <1>3
<1>6. p \in 0..Len(guest[r].bytes) /\ q \in 0..Len(guest[r].bytes) /\ p < q /\ p < Len(guest[r].bytes)
  BY <1>1, <1>3, <1>4, <1>5
<1>7. /\ InMemory(r, i) = Base(guest, r) + p /\ InMemory(r, i) \in Int
      /\ InMemory(r, i) - guest.biases[r] = AddressOf(guest[r], i)
  <2>1. PICK x, y \in Nat : x = guest.biases[r] /\ y = guest[r].start
    BY <1>1
  <2>2. InMemory(r, i) = x + (y + p) /\ Base(guest, r) = x + y /\ AddressOf(guest[r], i) = y + p
    BY <1>5, <2>1 DEF InMemory, AddressOf, Base
  <2> QED BY <2>1, <2>2
<1> QED BY <1>2, <1>5, <1>6, <1>7

\* What is read at a crash, of which the part in the segment is genuine.
LEMMA CrashReads ==
  ASSUME guest \in Guests, NEW r \in Candidates, NEW i \in Instructions(guest[r])
  PROVE  /\ BytesAt(r, i) \in Seq(Nat) /\ Len(BytesAt(r, i)) = Observed
         /\ Observed > 0 /\ guest[r].from[i] + Observed <= Len(guest[r].bytes)
              => Genuine(r, InMemory(r, i), BytesAt(r, i))
<1> DEFINE b == guest[r].bytes
           p == guest[r].from[i]
           n == Len(b)
           rest == SubSeq(b, p + 1, n)
           zeros == [k \in 1..Observed |-> 0]
<1>1. b \in Seq(Nat) /\ n \in Nat /\ p \in 0..n /\ p < n /\ Observed \in Nat
  BY GuestIs, InstructionAt, GuestsAssumption
<1>2. InMemory(r, i) = Base(guest, r) + p
  BY InstructionAt
<1>3. BytesAt(r, i) = SubSeq(rest \o zeros, 1, Observed)
  BY Zenon DEF BytesAt
<1> HIDE DEF p, n, rest, zeros
<1>4. rest \in Seq(Nat) /\ Len(rest) = n - p
  <2>1. \A k \in p + 1..n : b[k] \in Nat
    <3>0. p \in Nat /\ n \in Nat
      BY <1>1
    <3>1. \A k \in p + 1..n : k \in 1..n
      BY <3>0
    <3> QED BY <1>1, <3>1, ElementOfSeq DEF n
  <2>2. PICK m \in Int : m = p + 1
    BY <1>1
  <2>3. n \in Int
    BY <1>1
  <2>4. SubSeq(b, m, n) \in Seq(Nat) /\ Len(SubSeq(b, m, n)) = IF m <= n THEN n - m + 1 ELSE 0
    BY <2>1, <2>2, <2>3, SubSeqProperties
  <2> QED BY <1>1, <2>2, <2>4 DEF rest
<1>5. zeros \in Seq(Nat) /\ Len(zeros) = Observed
  BY <1>1 DEF zeros
<1>6. rest \o zeros \in Seq(Nat) /\ Len(rest \o zeros) = n - p + Observed
  BY <1>1, <1>4, <1>5, ConcatProperties
<1>7. PICK s \in Seq(Nat) : s = rest \o zeros
  BY <1>6
<1>8. SubSeq(s, 1, Observed) \in Seq(Nat) /\ Len(SubSeq(s, 1, Observed)) = Observed
  <2>1. \A k \in 1..Observed : k \in 1..Len(s)
    BY <1>1, <1>6, <1>7
  <2>2. \A k \in 1..Observed : s[k] \in Nat
    BY <2>1, ElementOfSeq
  <2>3. 1 \in Int /\ Observed \in Int
    BY <1>1
  <2>4. SubSeq(s, 1, Observed) \in Seq(Nat) /\ Len(SubSeq(s, 1, Observed)) = IF 1 <= Observed THEN Observed - 1 + 1 ELSE 0
    BY <2>2, <2>3, SubSeqProperties
  <2> QED BY <1>1, <2>4
<1>9. BytesAt(r, i) \in Seq(Nat) /\ Len(BytesAt(r, i)) = Observed
  BY <1>3, <1>7, <1>8
<1>10. ASSUME Observed > 0, p + Observed <= n PROVE Genuine(r, InMemory(r, i), BytesAt(r, i))
  <2>1. Observed \in 1..Len(rest) /\ 1 \in 1..Len(rest)
    BY <1>1, <1>4, <1>10
  <2>2. SubSeq(rest \o zeros, 1, Observed) = SubSeq(rest, 1, Observed)
    BY <1>4, <1>5, <2>1, SubSeqOfConcat1
  <2>3. PICK m \in Int : m = p + 1
    BY <1>1
  <2>4. m \in 1..n /\ n \in 1..n /\ 1 \in 1..n - m + 1 /\ Observed \in 1..n - m + 1
    BY <1>1, <1>10, <2>3
  <2>5. SubSeq(SubSeq(b, m, n), 1, Observed) = SubSeq(b, m + 1 - 1, m + Observed - 1)
    <3>1. n = Len(b)
      BY DEF n
    <3> QED BY <1>1, <2>4, <3>1, SubSeqOfSubSeq
  <2>6. m + 1 - 1 = p + 1 /\ m + Observed - 1 = p + Observed
    BY <1>1, <2>3
  <2>7. SubSeq(b, p + 1, p + Observed) = BytesAt(r, i)
    BY <1>3, <2>2, <2>3, <2>5, <2>6 DEF rest
  <2> QED BY <1>1, <1>2, <1>9, <1>10, <2>7 DEF Genuine, n
<1> QED BY <1>9, <1>10 DEF n, p

\* The function that is named is one of the program's.
LEMMA FunctionIs ==
  ASSUME guest \in Guests, NEW address \in Int
  PROVE  FunctionAt(address) \in Symbols \cup {Unknown}
<1> DEFINE before == {f \in guest.functions : f.value <= address}
           fitting == {f \in before : f.size = 0 \/ address < f.value + f.size}
           Later(fs) == CHOOSE f \in fs : \A g \in fs : g.value <= f.value
<1>1. FunctionAt(address) = IF fitting # {} THEN Later(fitting) ELSE IF before # {} THEN Later(before) ELSE Unknown
  BY Zenon DEF FunctionAt
<1>2. fitting \subseteq before /\ before \subseteq Symbols /\ \A f \in before : f.value \in Nat /\ f.value <= address
  BY GuestsAssumption DEF Symbols
<1> HIDE DEF before, fitting
<1>3. ASSUME NEW fs, fs \subseteq before, fs # {} PROVE Later(fs) \in Symbols
  <2>1. PICK e \in fs : TRUE
    BY <1>3
  <2>2. address \in Nat
    BY <1>2, <1>3, <2>1
  <2> DEFINE values == {f.value : f \in fs}
  <2>3. \A v \in values : v \in Nat /\ v <= address
    BY <1>2, <1>3
  <2>4. values # {}
    BY <2>1
  <2>5. PICK m \in values : \A v \in values : v <= m
    <3> HIDE DEF values
    <3> QED BY <2>2, <2>3, <2>4, GreatestNumber
  <2>6. PICK f \in fs : m = f.value
    OBVIOUS
  <2>7. \A g \in fs : g.value <= f.value
    <3>1. \A g \in fs : g.value \in values
      OBVIOUS
    <3> HIDE DEF values
    <3> QED BY <2>5, <2>6, <3>1
  <2>8. Later(fs) \in fs
    BY <2>7, Zenon
  <2> HIDE DEF Later
  <2> QED BY <1>2, <1>3, <2>8
<1> HIDE DEF Later
<1> QED BY <1>1, <1>2, <1>3

\* A report is no sign that nothing was reported.
LEMMA ReportIs ==
  ASSUME guest \in Guests, NEW found, found = Unknown \/ found \in Matches, NEW rip \in Int, NEW bytes \in Seq(Nat)
  PROVE  Report(found, rip, bytes) # Unknown /\ Report(found, rip, bytes).bytes = bytes
<1> DEFINE address == IF found # Unknown THEN rip - found.bias ELSE IF FixedProgram(rip) THEN rip ELSE Unknown
           image == IF found # Unknown THEN found.image ELSE IF FixedProgram(rip) THEN "program" ELSE Unknown
           function == IF image = "program" THEN FunctionAt(address) ELSE Unknown
<1>1. Report(found, rip, bytes) = [image |-> image, address |-> address, bytes |-> bytes, function |-> function]
  BY Zenon DEF Report
<1>2. image \in Candidates \cup {Unknown} /\ address \in Int \cup {Unknown}
  BY DEF Matches, Candidates
<1>3. function \in Symbols \cup {Unknown}
  <2>1. ASSUME image = "program" PROVE address \in Int
    <3>1. Unknown # "program"
      BY GuestsAssumption DEF Candidates
    <3> QED BY <2>1, <3>1 DEF Matches
  <2>2. CASE image = "program"
    BY <2>1, <2>2, FunctionIs
  <2>3. CASE image # "program"
    BY <2>3
  <2> QED BY <2>2, <2>3
<1> HIDE DEF image, address, function
<1>4. PICK w : w = Report(found, rip, bytes)
  OBVIOUS
<1>5. w \in Reports /\ w.bytes = bytes
  BY <1>1, <1>2, <1>3, <1>4 DEF Reports
<1> QED BY <1>4, <1>5, GuestsAssumption

\* What the proofs keep: until a crash the biases are true.
ImagesInv ==
  /\ guest \in Guests /\ ImagesAreTrue
  /\ crash = Unknown => Truthful

\* A step is at an instruction, and genuine bytes are resolved for it.
LEMMA StepsTruly ==
  ASSUME ImagesInv, Step
  PROVE  \E r \in Candidates : \E i \in Instructions(guest[r]) :
           /\ place' = [region |-> r, index |-> i] /\ Resolved(r, InMemory(r, i))
           /\ UNCHANGED <<guest, crash>> /\ crash = Unknown /\ Truthful
<1>0. PICK r \in Candidates :
        \E i \in Instructions(guest[r]) : \E lines, rip, cursor :
          /\ lines = Lines(r, i) /\ rip = InMemory(r, i) /\ cursor = CursorLine(lines, rip)
          /\ crash = Unknown /\ place' = [region |-> r, index |-> i] /\ UNCHANGED <<guest, crash>>
          /\ ResolveImage(rip, lines[cursor].bytes, Window(lines, cursor))
  BY Zenon DEF Step
<1>a. PICK i \in Instructions(guest[r]) : \E lines, rip, cursor :
        /\ lines = Lines(r, i) /\ rip = InMemory(r, i) /\ cursor = CursorLine(lines, rip)
        /\ crash = Unknown /\ place' = [region |-> r, index |-> i] /\ UNCHANGED <<guest, crash>>
        /\ ResolveImage(rip, lines[cursor].bytes, Window(lines, cursor))
  BY <1>0, Zenon
<1>1. PICK lines, rip, cursor :
        /\ lines = Lines(r, i) /\ rip = InMemory(r, i) /\ cursor = CursorLine(lines, rip)
        /\ crash = Unknown /\ place' = [region |-> r, index |-> i] /\ UNCHANGED <<guest, crash>>
        /\ ResolveImage(rip, lines[cursor].bytes, Window(lines, cursor))
  BY <1>a, Zenon
<1>2. guest \in Guests /\ Truthful
  BY <1>1 DEF ImagesInv
<1>3. PICK first, last \in Nat : first <= i /\ i <= last /\ Shown(lines, r, first, last)
  BY <1>1, <1>2, LinesShow
<1>4. i \in first..last /\ i \in Int
  <2>1. i \in 1..Len(guest[r].from)
    BY <1>2, InstructionAt
  <2> QED BY <1>3, <2>1
<1>5. cursor = i - first + 1
  BY <1>1, <1>2, <1>3, <1>4, CursorIs
<1>6. cursor \in 1..Len(lines) /\ cursor \in 1..last - first + 1 /\ first + cursor - 1 = i /\ first + cursor = i + 1
  BY <1>3, <1>4, <1>5 DEF Shown
<1>7. lines[cursor].bytes = SubSeq(guest[r].bytes, guest[r].from[i] + 1, guest[r].from[i + 1])
  BY <1>3, <1>6 DEF Shown
<1>8. Genuine(r, rip, lines[cursor].bytes) /\ Len(lines[cursor].bytes) > 0
  <2>1. PICK p, q \in Int : p = guest[r].from[i] /\ q = guest[r].from[i + 1]
    BY <1>2, InstructionAt
  <2>2. p \in 0..Len(guest[r].bytes) /\ q \in p..Len(guest[r].bytes) /\ p < q /\ rip = Base(guest, r) + p
    BY <1>1, <1>2, <2>1, InstructionAt
  <2>3. /\ Genuine(r, Base(guest, r) + p, SubSeq(guest[r].bytes, p + 1, q))
        /\ Len(SubSeq(guest[r].bytes, p + 1, q)) = q - p
    BY <1>2, <2>2, PieceIsGenuine
  <2> QED BY <1>7, <2>1, <2>2, <2>3
<1>9. Genuine(r, Window(lines, cursor).address, Window(lines, cursor).bytes)
  <2>1. PICK a, z \in Instructions(guest[r]) :
          /\ a <= z /\ Window(lines, cursor).address = InMemory(r, a)
          /\ Window(lines, cursor).bytes = SubSeq(guest[r].bytes, guest[r].from[a] + 1, guest[r].from[z + 1])
    BY <1>2, <1>3, <1>6, WindowShows
  <2>0. guest[r].from[a] \in Int /\ guest[r].from[z + 1] \in Int
    <3>1. guest[r].from[a] \in Int
      BY <1>2, InstructionAt
    <3>2. guest[r].from[z + 1] \in Int
      BY <1>2, InstructionAt
    <3> QED BY <3>1, <3>2
  <2>2. PICK p, q \in Int : p = guest[r].from[a] /\ q = guest[r].from[z + 1]
    BY <2>0
  <2>3. p <= guest[r].from[z] /\ guest[r].from[z] \in Int
    <3>1. a \in 1..Len(guest[r].from) /\ z \in 1..Len(guest[r].from)
      BY <1>2, InstructionAt
    <3>2. a < z => p < guest[r].from[z]
      BY <1>2, <2>2, <3>1, GuestIs
    <3>3. guest[r].from[z] \in Int
      BY <1>2, InstructionAt
    <3>4. a \in Int /\ z \in Int
      BY <3>1
    <3> QED BY <2>1, <2>2, <3>2, <3>3, <3>4
  <2>4. /\ p \in 0..Len(guest[r].bytes) /\ q \in 0..Len(guest[r].bytes) /\ guest[r].from[z] < q
        /\ InMemory(r, a) = Base(guest, r) + p
    BY <1>2, <2>2, InstructionAt
  <2>5. q \in p..Len(guest[r].bytes)
    BY <2>3, <2>4
  <2>6. Genuine(r, Base(guest, r) + p, SubSeq(guest[r].bytes, p + 1, q))
    BY <1>2, <2>4, <2>5, PieceIsGenuine
  <2> QED BY <2>1, <2>2, <2>4, <2>6
<1>10. Resolved(r, rip)
  <2>1. UNCHANGED guest
    BY <1>1
  <2> QED BY <1>1, <1>2, <1>8, <1>9, <2>1, ResolvesTruly
<1> QED BY <1>1, <1>2, <1>10

\* A step keeps what is true.
LEMMA StepKeeps == ASSUME ImagesInv, Step PROVE ImagesInv'
<1>0. PICK r \in Candidates : \E i \in Instructions(guest[r]) :
        /\ place' = [region |-> r, index |-> i] /\ Resolved(r, InMemory(r, i))
        /\ UNCHANGED <<guest, crash>> /\ crash = Unknown /\ Truthful
  BY StepsTruly
<1>1. PICK i \in Instructions(guest[r]) :
        /\ place' = [region |-> r, index |-> i] /\ Resolved(r, InMemory(r, i))
        /\ UNCHANGED <<guest, crash>> /\ crash = Unknown /\ Truthful
  BY <1>0
<1>2. guest \in Guests /\ guest' = guest /\ crash' = Unknown
  BY <1>1 DEF ImagesInv
<1>3. place'.region = r /\ place'.index = i
  BY <1>1
<1>4. Truthful'
  BY <1>1 DEF Resolved
<1>5. match' = Unknown \/ (match'.image = r /\ match'.address = AddressOf(guest[r], i) /\ r \in DOMAIN known')
  <2>1. match' = TrueMatch(r, InMemory(r, i)) => match'.image = r /\ match'.address = AddressOf(guest[r], i)
    <3>1. InMemory(r, i) - guest.biases[r] = AddressOf(guest[r], i)
      BY <1>2, InstructionAt
    <3> QED BY <3>1 DEF TrueMatch
  <2> QED BY <1>1, <2>1 DEF Resolved
<1>6. ImagesTypeOK'
  BY <1>3, <1>4, <1>5 DEF ImagesTypeOK, Truthful
<1>7. KnownIsTrue'
  BY <1>4 DEF KnownIsTrue, Truthful
<1>8. MatchIsTrue'
  BY <1>2, <1>3, <1>5 DEF MatchIsTrue, Truly, AddressOf
<1>9. CrashNamesItsImage'
  BY <1>2 DEF CrashNamesItsImage
<1> QED BY <1>2, <1>4, <1>6, <1>7, <1>8, <1>9 DEF ImagesInv, ImagesAreTrue

\* The program at its fixed address is where its addresses are.
LEMMA FixedIsProgram ==
  ASSUME guest \in Guests, NEW r \in Candidates, NEW i \in Instructions(guest[r])
  PROVE  FixedProgram(InMemory(r, i)) <=> guest.fixed /\ r = "program"
<1> DEFINE rip == InMemory(r, i)
<1>1. ASSUME NEW c \in Candidates
      PROVE  guest.biases[c] \in Nat /\ guest[c].start \in Nat /\ Len(guest[c].bytes) \in Nat
  BY GuestIs
<1>2. rip \in Int /\ Base(guest, r) <= rip /\ rip < Top(guest, r)
  <2>1. PICK p \in Int : p = guest[r].from[i] /\ 0 <= p /\ p < Len(guest[r].bytes) /\ rip = Base(guest, r) + p
    BY InstructionAt
  <2>2. guest.biases[r] \in Nat /\ guest[r].start \in Nat /\ Len(guest[r].bytes) \in Nat
    BY <1>1
  <2> QED BY <2>1, <2>2 DEF Base, Top
<1>3. "program" \in Candidates
  BY DEF Candidates
<1>4. guest["program"].start \in Nat /\ Len(guest["program"].bytes) \in Nat
  BY <1>1, <1>3
<1>5. guest.fixed => /\ Base(guest, "program") = guest["program"].start
                     /\ Top(guest, "program") = SegmentEnd("program")
  <2>1. guest.fixed => guest.biases["program"] = 0
    BY <1>3, GuestIs
  <2> QED BY <1>4, <2>1 DEF Base, Top, SegmentEnd
<1> HIDE DEF rip
<1>6. ASSUME FixedProgram(rip) PROVE guest.fixed /\ r = "program"
  <2>1. guest.fixed /\ guest["program"].start <= rip /\ rip < SegmentEnd("program")
    BY <1>6 DEF FixedProgram
  <2> QED BY <1>2, <1>3, <1>5, <2>1, ImagesApart
<1>7. ASSUME guest.fixed, r = "program" PROVE FixedProgram(rip)
  BY <1>2, <1>5, <1>7 DEF FixedProgram
<1> QED BY <1>6, <1>7 DEF rip

\* So does a crash.
LEMMA CrashKeeps == ASSUME ImagesInv, Crash PROVE ImagesInv'
<1>0. PICK r \in Candidates : \E i \in Instructions(guest[r]) : \E rip : \E bytes \in {<<>>, BytesAt(r, i)} :
        /\ rip = InMemory(r, i) /\ crash = Unknown /\ place' = [region |-> r, index |-> i]
        /\ IF Len(bytes) < MinSignature THEN match' = Unknown /\ UNCHANGED known
           ELSE ResolveImage(rip, bytes, [address |-> rip, bytes |-> bytes])
        /\ crash' = Report(match', rip, bytes) /\ UNCHANGED guest
  BY Zenon DEF Crash
<1>a. PICK i \in Instructions(guest[r]) : \E rip : \E bytes \in {<<>>, BytesAt(r, i)} :
        /\ rip = InMemory(r, i) /\ crash = Unknown /\ place' = [region |-> r, index |-> i]
        /\ IF Len(bytes) < MinSignature THEN match' = Unknown /\ UNCHANGED known
           ELSE ResolveImage(rip, bytes, [address |-> rip, bytes |-> bytes])
        /\ crash' = Report(match', rip, bytes) /\ UNCHANGED guest
  BY <1>0, Zenon
<1>b. PICK rip : \E bytes \in {<<>>, BytesAt(r, i)} :
        /\ rip = InMemory(r, i) /\ crash = Unknown /\ place' = [region |-> r, index |-> i]
        /\ IF Len(bytes) < MinSignature THEN match' = Unknown /\ UNCHANGED known
           ELSE ResolveImage(rip, bytes, [address |-> rip, bytes |-> bytes])
        /\ crash' = Report(match', rip, bytes) /\ UNCHANGED guest
  BY <1>a, Zenon
<1>1. PICK bytes \in {<<>>, BytesAt(r, i)} :
        /\ rip = InMemory(r, i) /\ crash = Unknown /\ place' = [region |-> r, index |-> i]
        /\ IF Len(bytes) < MinSignature THEN match' = Unknown /\ UNCHANGED known
           ELSE ResolveImage(rip, bytes, [address |-> rip, bytes |-> bytes])
        /\ crash' = Report(match', rip, bytes) /\ UNCHANGED guest
  BY <1>b, Zenon
<1>2. guest \in Guests /\ guest' = guest /\ Truthful
  BY <1>1 DEF ImagesInv
<1>3. place'.region = r /\ place'.index = i
  BY <1>1
<1>4. bytes \in Seq(Nat) /\ Len(bytes) \in Nat /\ rip \in Int /\ (Len(bytes) > 0 => bytes = BytesAt(r, i))
  <2>1. <<>> \in Seq(Nat) /\ Len(<<>>) = 0
    OBVIOUS
  <2>2. BytesAt(r, i) \in Seq(Nat)
    BY <1>2, CrashReads
  <2>3. bytes \in Seq(Nat)
    BY <2>1, <2>2
  <2>4. rip \in Int
    BY <1>1, <1>2, InstructionAt
  <2> QED BY <2>1, <2>3, <2>4, LenProperties
<1>5. PICK signature : signature = [address |-> rip, bytes |-> bytes]
  OBVIOUS
<1>6. signature.address = rip /\ signature.bytes = bytes
  BY <1>5
<1>7. DOMAIN known' \subseteq Candidates /\ (match' = Unknown \/ (match' \in Matches /\ match'.image \in DOMAIN known'))
  <2>1. CASE Len(bytes) < MinSignature
    BY <1>1, <1>2, <2>1 DEF Truthful
  <2>2. CASE ~(Len(bytes) < MinSignature)
    BY <1>1, <1>2, <1>4, <1>5, <1>6, <2>2, ResolvesSomehow
  <2> QED BY <2>1, <2>2
<1>8. crash' # Unknown /\ crash'.bytes = bytes
  BY <1>1, <1>2, <1>4, <1>7, ReportIs
<1>9. ASSUME Inside' PROVE Resolved(r, rip) \/ (match' = Unknown /\ UNCHANGED known)
  <2>1. CASE Len(bytes) < MinSignature
    BY <1>1, <2>1
  <2>2. CASE ~(Len(bytes) < MinSignature)
    <3>1. Len(bytes) > 0 /\ bytes = BytesAt(r, i) /\ Len(bytes) = Observed
      <4>1. MinSignature \in Nat \ {0}
        BY GuestsAssumption
      <4> QED BY <1>2, <1>4, <2>2, <4>1, CrashReads
    <3>2. AddressOf(guest[r], i) + Len(bytes) <= SegmentEnd(r)
      BY <1>2, <1>3, <1>8, <1>9 DEF Inside, AddressOf, SegmentEnd
    <3>3. guest[r].from[i] + Observed <= Len(guest[r].bytes)
      <4>1. guest[r].start \in Nat /\ Len(guest[r].bytes) \in Nat /\ guest[r].from[i] \in Int /\ Observed \in Nat
        BY <1>2, GuestIs, InstructionAt, GuestsAssumption
      <4> QED BY <3>1, <3>2, <4>1 DEF AddressOf, SegmentEnd
    <3>4. Genuine(r, rip, bytes)
      BY <1>1, <1>2, <3>1, <3>3, CrashReads
    <3>5. ResolveImage(rip, bytes, signature)
      BY <1>1, <1>5, <2>2
    <3>6. UNCHANGED guest
      BY <1>1
    <3> QED BY <1>2, <1>6, <3>1, <3>4, <3>5, <3>6, ResolvesTruly
  <2> QED BY <2>1, <2>2
<1>10. ASSUME Inside'
       PROVE  Truthful' /\ (match' # Unknown => match'.image = r /\ match'.address = AddressOf(guest[r], i))
  <2>1. rip - guest.biases[r] = AddressOf(guest[r], i)
    BY <1>1, <1>2, InstructionAt
  <2>2. TrueMatch(r, rip).image = r /\ TrueMatch(r, rip).address = AddressOf(guest[r], i)
    BY <2>1 DEF TrueMatch
  <2>3. CASE Resolved(r, rip)
    BY <2>2, <2>3 DEF Resolved
  <2>4. CASE match' = Unknown /\ UNCHANGED known
    BY <1>2, <2>4 DEF Truthful
  <2> QED BY <1>9, <1>10, <2>3, <2>4
<1>11. ImagesTypeOK'
  BY <1>3, <1>7 DEF ImagesTypeOK
<1>12. KnownIsTrue'
  BY <1>10 DEF KnownIsTrue, Truthful
<1>13. MatchIsTrue'
  BY <1>2, <1>3, <1>10 DEF MatchIsTrue, Truly, AddressOf
<1>14. CrashNamesItsImage'
  <2>1. SUFFICES ASSUME Inside'
                 PROVE  /\ crash'.function # Unknown => r = "program"
                        /\ crash'.image # Unknown => crash'.image = r
                        /\ guest.fixed /\ r = "program" => crash'.image = "program"
    BY <1>2, <1>3 DEF CrashNamesItsImage
  <2> DEFINE image == IF match' # Unknown THEN match'.image ELSE IF FixedProgram(rip) THEN "program" ELSE Unknown
  <2>2. crash'.image = image /\ (crash'.function # Unknown => image = "program")
    BY <1>1 DEF Report
  <2>3. FixedProgram(rip) <=> guest.fixed /\ r = "program"
    BY <1>1, <1>2, FixedIsProgram
  <2>4. match' # Unknown => match'.image = r
    BY <1>10, <2>1
  <2>5. Unknown # "program"
    BY GuestsAssumption DEF Candidates
  <2> QED BY <2>2, <2>3, <2>4, <2>5
<1> QED BY <1>2, <1>8, <1>11, <1>12, <1>13, <1>14 DEF ImagesInv, ImagesAreTrue

\* At first a bias is known of a program at its fixed address only.
LEMMA ImagesStart == ASSUME ImagesInit PROVE ImagesInv
<1>1. guest \in Guests /\ place = Unknown /\ match = Unknown /\ crash = Unknown
  BY DEF ImagesInit
<1>2. DOMAIN known = (IF guest.fixed THEN {"program"} ELSE {}) /\ \A c \in DOMAIN known : known[c] = 0
  BY DEF ImagesInit
<1>3. "program" \in Candidates /\ (guest.fixed => guest.biases["program"] = 0)
  BY <1>1, GuestsAssumption DEF Candidates
<1>4. Truthful
  BY <1>2, <1>3 DEF Truthful
<1> QED BY <1>1, <1>4 DEF ImagesInv, ImagesAreTrue, ImagesTypeOK, KnownIsTrue, MatchIsTrue, CrashNamesItsImage, Inside, Truthful

\* A stutter changes nothing.
LEMMA ImagesRest == ASSUME ImagesInv, UNCHANGED imageVars PROVE ImagesInv'
<1>1. guest' = guest /\ place' = place /\ known' = known /\ match' = match /\ crash' = crash
  BY DEF imageVars
<1> QED BY <1>1 DEF ImagesInv, ImagesAreTrue, ImagesTypeOK, KnownIsTrue, MatchIsTrue, CrashNamesItsImage, Inside, Truthful,
                    Truly, AddressOf, SegmentEnd

\* What the proofs keep holds in every state of every guest.
THEOREM ImagesInvariance == ImagesSpec => []ImagesInv
<1>1. ImagesInit => ImagesInv
  BY ImagesStart
<1>2. ImagesInv /\ [ImagesNext]_imageVars => ImagesInv'
  BY StepKeeps, CrashKeeps, ImagesRest DEF ImagesNext
<1> QED BY <1>1, <1>2, PTL DEF ImagesSpec

\* The resolver fails closed: the image and the bias it remembers, those it shows and
\* those a crash is reported with are where the guest is, if what was seen lies in an
\* image (RuntimeImageResolver, captureBlinkFatalSignal).
THEOREM ImagesStayTrue == ImagesSpec => []ImagesAreTrue
<1>1. ImagesInv => ImagesAreTrue
  BY DEF ImagesInv
<1> QED BY <1>1, ImagesInvariance, PTL

\* Once the bias of an image is known it stays, and every later step in the image is
\* resolved, whatever other image has the same bytes.
THEOREM KnownImagesStay == ImagesSpec => ImagesStayKnown
<1>1. ASSUME ImagesInv, Step
      PROVE  \A c \in DOMAIN known : /\ place'.region = c => match' # Unknown /\ match'.image = c
                                     /\ known'[c] = known[c]
  <2>1. PICK r \in Candidates : \E i \in Instructions(guest[r]) :
          place' = [region |-> r, index |-> i] /\ Resolved(r, InMemory(r, i)) /\ UNCHANGED guest /\ Truthful
    BY <1>1, StepsTruly
  <2>2. PICK i : place' = [region |-> r, index |-> i] /\ Resolved(r, InMemory(r, i)) /\ UNCHANGED guest /\ Truthful
    BY <2>1
  <2>3. place'.region = r /\ TrueMatch(r, InMemory(r, i)).image = r
    BY <2>2 DEF TrueMatch
  <2> QED BY <2>2, <2>3 DEF Resolved, Truthful
<1>2. ImagesInv => \A c \in DOMAIN known : Step /\ place'.region = c => match' # Unknown /\ match'.image = c
  BY <1>1
<1>3. ImagesInv => (Step => \A c \in DOMAIN known : known'[c] = known[c])
  BY <1>1
<1>4. ImagesSpec => KnownStaysResolved
  BY <1>2, ImagesInvariance, PTL DEF KnownStaysResolved
<1>5. ImagesSpec => KnownIsKept
  BY <1>3, ImagesInvariance, PTL DEF KnownIsKept
<1> QED BY <1>4, <1>5, PTL DEF ImagesStayKnown
================================================================================
