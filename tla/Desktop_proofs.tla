--------------------------- MODULE Desktop_proofs ---------------------------
(***************************************************************************)
(* The loaded threads are those with a row, and an invite outlives the     *)
(* joining of its thread; the window of the desktop lists what was         *)
(* announced or found, each for one cause once.  For any number of         *)
(* threads, invites, goroutines, errors, clicks and calls.                 *)
(***************************************************************************)
EXTENDS Desktop, WellFoundedInduction, TLAPS

\* somebody has a row for t and is on the way to have it loaded
Adding(a, t) == apc[a] \in {"load", "append", "write"} /\ Wanted(a) = t

\* the row of t is gone and its place in the slice is not yet
Splicing(t) == \E r \in Remover : vpc[r] = "splice" /\ leaving[r] = t

Accounted(t) ==
  t \in joined \cup failed \/ \E a \in Adder : Wanted(a) = t /\ apc[a] \in {"update", "join"}

JobsOK ==
  /\ \A a \in Adder :
       /\ apc[a] # "idle" => job[a] \in Invite \cup Fresh
       /\ apc[a] = "update" /\ job[a] \in Fresh => Wanted(a) \in joined
  /\ \A r \in Remover : vpc[r] # "idle" => leaving[r] \in Thread

\* whoever has seen a thread in the slice can rely on its JOIN
AccountedOK ==
  /\ \A t \in ToSet(loaded) : Accounted(t)
  /\ \A a \in Adder : /\ \A t \in ToSet(slice[a]) : Accounted(t)
                      /\ apc[a] = "ignore" => Accounted(Wanted(a))
  /\ \A i \in Invite \ (invites \cup ignored) : Accounted(ThreadOf[i])

LeavingOK ==
  /\ \A r \in Remover : vpc[r] \in {"leave", "deleteRow", "splice"} => leaving[r] \in ToSet(loaded)
  /\ \A r, v \in Remover : vpc[r] # "idle" /\ leaving[v] = leaving[r] => v = r

\* a row belongs to one adder at a time
AddingOK ==
  \A a \in Adder, t \in Thread : Adding(a, t) =>
    /\ t \in rows \ half
    /\ t \in ToSet(loaded) => apc[a] = "load" /\ Splicing(t)
    /\ \A b \in Adder : Adding(b, t) => b = a

RowsOK ==
  /\ \A t \in ToSet(loaded) : t \in rows \ half \/ Splicing(t)
  /\ \A t \in rows : \/ t \in half \/ \E a \in Adder : Adding(a, t)
                     \/ t \in ToSet(loaded) /\ ~Splicing(t)
  /\ half \subseteq rows

Matching == IsInjective(loaded) /\ LeavingOK /\ AddingOK /\ RowsOK

IInv == /\ RegistryTypeOK /\ JobsOK /\ AccountedOK
        /\ ~clashed /\ ~broken /\ ~raced => Matching
-----------------------------------------------------------------------------
LEMMA SetOfSeq ==
  ASSUME NEW s \in Seq(Thread)
  PROVE  ToSet(s) = {s[n] : n \in 1..Len(s)} /\ ToSet(s) \subseteq Thread /\ Len(s) \in Nat
BY DEF ToSet

LEMMA AddedToSet ==
  ASSUME NEW s \in Seq(Thread), NEW t \in Thread
  PROVE  /\ Append(s, t) \in Seq(Thread)
         /\ ToSet(Append(s, t)) = ToSet(s) \cup {t}
         /\ IsInjective(s) /\ t \notin ToSet(s) => IsInjective(Append(s, t))
<1> DEFINE u == Append(s, t)
<1>1. /\ u \in Seq(Thread) /\ Len(u) = Len(s) + 1 /\ Len(s) \in Nat
      /\ u[Len(s) + 1] = t /\ \A n \in 1..Len(s) : u[n] = s[n]
  OBVIOUS
<1> HIDE DEF u
<1>2. \A n \in 1..(Len(s) + 1) : n \in 1..Len(s) \/ n = Len(s) + 1
  BY <1>1
<1>3. ToSet(u) = {u[n] : n \in 1..(Len(s) + 1)} /\ ToSet(s) = {s[n] : n \in 1..Len(s)}
  BY <1>1, SetOfSeq
<1>4. ToSet(u) = ToSet(s) \cup {t}
  <2>1. ASSUME NEW e \in ToSet(u) PROVE e \in ToSet(s) \cup {t}
    BY <2>1, <1>1, <1>2, <1>3
  <2>2. ASSUME NEW e \in ToSet(s) \cup {t} PROVE e \in ToSet(u)
    <3>1. \A n \in 1..Len(s) : n \in 1..(Len(s) + 1)
      BY <1>1
    <3>2. Len(s) + 1 \in 1..(Len(s) + 1)
      BY <1>1
    <3> QED BY <2>2, <3>1, <3>2, <1>1, <1>3
  <2> QED BY <2>1, <2>2
<1>5. ASSUME IsInjective(s), t \notin ToSet(s) PROVE IsInjective(u)
  <2>1. DOMAIN u = 1..(Len(s) + 1) /\ DOMAIN s = 1..Len(s)
    BY <1>1
  <2>2. \A m, n \in 1..Len(s) : s[m] = s[n] => m = n
    BY <1>5, <2>1 DEF IsInjective
  <2>3. \A n \in 1..Len(s) : s[n] # t
    BY <1>5, <1>3
  <2>4. ASSUME NEW m \in 1..(Len(s) + 1), NEW n \in 1..(Len(s) + 1), u[m] = u[n] PROVE m = n
    <3>1. CASE m \in 1..Len(s) /\ n \in 1..Len(s)
      BY <3>1, <2>2, <2>4, <1>1
    <3>2. CASE m = Len(s) + 1 \/ n = Len(s) + 1
      BY <3>2, <2>3, <2>4, <1>1, <1>2
    <3> QED BY <3>1, <3>2, <1>2
  <2> QED BY <2>1, <2>4 DEF IsInjective
<1> QED BY <1>1, <1>4, <1>5 DEF u

LEMMA RemovedFromSet ==
  ASSUME NEW s \in Seq(Thread), NEW k \in 1..Len(s)
  PROVE  /\ RemoveAt(s, k) \in Seq(Thread)
         /\ ToSet(RemoveAt(s, k)) \subseteq ToSet(s)
         /\ IsInjective(s) =>
              IsInjective(RemoveAt(s, k)) /\ ToSet(RemoveAt(s, k)) = ToSet(s) \ {s[k]}
<1> DEFINE v == SubSeq(s, 1, k - 1)
           w == SubSeq(s, k + 1, Len(s))
           u == RemoveAt(s, k)
           at(n) == IF n < k THEN n ELSE n + 1
<1>1. PICK l \in Nat : l = Len(s) /\ k \in 1..l
  OBVIOUS
<1>2. v \in Seq(Thread) /\ Len(v) = k - 1 /\ \A n \in 1..(k - 1) : v[n] = s[n]
  BY <1>1
<1>3. w \in Seq(Thread) /\ Len(w) = l - k /\ \A n \in 1..(l - k) : w[n] = s[n + k]
  BY <1>1
<1>4. u = v \o w
  BY DEF RemoveAt
<1> HIDE DEF v, w, u
<1>5. u \in Seq(Thread) /\ Len(u) = l - 1 /\ \A n \in 1..(l - 1) : u[n] = s[at(n)]
  <2>1. u \in Seq(Thread) /\ Len(u) = (k - 1) + (l - k)
    <3>1. v \in Seq(Thread) /\ w \in Seq(Thread)
      BY <1>2, <1>3
    <3>2. v \o w \in Seq(Thread) /\ Len(v \o w) = Len(v) + Len(w)
      BY <3>1
    <3> QED BY <3>2, <1>2, <1>3, <1>4
  <2>2. ASSUME NEW n \in 1..(l - 1) PROVE u[n] = s[at(n)]
    <3>1. CASE n < k
      BY <3>1, <1>1, <1>2, <1>3, <1>4
    <3>2. CASE n >= k
      <4>1. n - (k - 1) \in 1..(l - k) /\ n > Len(v) /\ n <= Len(v) + Len(w)
        BY <3>2, <1>1, <1>2, <1>3
      <4>2. u[n] = w[n - (k - 1)]
        BY <4>1, <1>1, <1>2, <1>3, <1>4
      <4>3. w[n - (k - 1)] = s[(n - (k - 1)) + k] /\ (n - (k - 1)) + k = n + 1
        BY <4>1, <1>1, <1>3
      <4> QED BY <3>2, <4>2, <4>3, <1>1
    <3> QED BY <3>1, <3>2, <1>1
  <2> QED BY <2>1, <2>2, <1>1
<1>6. /\ \A n \in 1..(l - 1) : at(n) \in 1..l /\ at(n) # k
      /\ \A n \in 1..l : n # k => \E m \in 1..(l - 1) : at(m) = n
      /\ \A m, n \in 1..(l - 1) : at(m) = at(n) => m = n
  <2>1. ASSUME NEW n \in 1..l, n # k PROVE \E m \in 1..(l - 1) : at(m) = n
    <3>1. CASE n < k
      <4>1. n \in 1..(l - 1) /\ at(n) = n
        BY <3>1, <1>1
      <4> QED BY <4>1
    <3>2. CASE n > k
      <4>1. n - 1 \in 1..(l - 1) /\ at(n - 1) = n
        BY <3>2, <1>1
      <4> QED BY <4>1
    <3> QED BY <2>1, <3>1, <3>2, <1>1
  <2> QED BY <2>1, <1>1
<1> HIDE DEF at
<1>7. ToSet(u) = {u[n] : n \in 1..(l - 1)} /\ ToSet(s) = {s[n] : n \in 1..l}
  BY <1>1, <1>5, SetOfSeq
<1>8. ToSet(u) \subseteq ToSet(s)
  BY <1>5, <1>6, <1>7
<1>9. ASSUME IsInjective(s) PROVE IsInjective(u) /\ ToSet(u) = ToSet(s) \ {s[k]}
  <2>1. \A m, n \in 1..l : s[m] = s[n] => m = n
    BY <1>1, <1>9 DEF IsInjective
  <2>2. DOMAIN u = 1..(l - 1)
    BY <1>1, <1>5
  <2>3. ASSUME NEW m \in 1..(l - 1), NEW n \in 1..(l - 1), u[m] = u[n] PROVE m = n
    BY <2>1, <2>3, <1>5, <1>6
  <2>4. IsInjective(u)
    BY <2>2, <2>3 DEF IsInjective
  <2>5. s[k] \notin ToSet(u)
    BY <2>1, <1>1, <1>5, <1>6, <1>7
  <2>6. ASSUME NEW e \in ToSet(s), e # s[k] PROVE e \in ToSet(u)
    <3>1. PICK n \in 1..l : e = s[n] /\ n # k
      BY <2>6, <1>7
    <3>2. PICK m \in 1..(l - 1) : at(m) = n
      BY <3>1, <1>6
    <3> QED BY <3>1, <3>2, <1>5, <1>7
  <2> QED BY <2>4, <2>5, <2>6, <1>8
<1> QED BY <1>5, <1>8, <1>9 DEF u

LEMMA OverlaidCells ==
  ASSUME NEW u \in Seq(Thread), NEW s \in Seq(Thread)
  PROVE  /\ Overlaid(u, s) \in Seq(Thread) /\ Len(Overlaid(u, s)) = Len(u)
         /\ \A n \in 1..Len(u) : \/ n \in 1..Len(u) /\ Overlaid(u, s)[n] = u[n]
                                 \/ n \in 1..Len(s) /\ Overlaid(u, s)[n] = s[n]
         /\ ToSet(Overlaid(u, s)) \subseteq ToSet(u) \cup ToSet(s)
         /\ Overlaid(u, u) = u
<1> DEFINE v == Overlaid(u, s)
<1>1. PICK k \in Nat, l \in Nat : k = Len(u) /\ l = Len(s)
  OBVIOUS
<1>2. /\ \A n \in 1..k : v[n] = IF n <= l THEN s[n] ELSE u[n]
      /\ v = [n \in 1..k |-> v[n]]
  BY <1>1 DEF Overlaid
<1>3. /\ \A n \in 1..k : u[n] \in Thread
      /\ \A n \in 1..l : s[n] \in Thread
      /\ \A n \in 1..k : n <= l => n \in 1..l
  BY <1>1
<1>4. Overlaid(u, u) = u
  <2>1. Overlaid(u, u) = [n \in 1..k |-> u[n]]
    BY <1>1 DEF Overlaid
  <2> QED BY <1>1, <2>1
<1> HIDE DEF v
<1>5. \A n \in 1..k : \/ v[n] = u[n]
                      \/ n \in 1..l /\ v[n] = s[n]
  BY <1>2, <1>3
<1>6. v \in Seq(Thread) /\ Len(v) = k
  <2>1. \A n \in 1..k : v[n] \in Thread
    BY <1>3, <1>5
  <2> QED BY <1>1, <1>2, <2>1
<1>7. ToSet(v) \subseteq ToSet(u) \cup ToSet(s)
  <2>1. /\ ToSet(v) = {v[n] : n \in 1..k} /\ ToSet(u) = {u[n] : n \in 1..k}
        /\ ToSet(s) = {s[n] : n \in 1..l}
    BY <1>1, <1>6, SetOfSeq
  <2> QED BY <1>5, <2>1
<1> QED BY <1>1, <1>4, <1>5, <1>6, <1>7 DEF v

LEMMA WantedType ==
  ASSUME NEW a \in Adder, job[a] \in Invite \cup Fresh
  PROVE  Wanted(a) \in Thread
BY RegistryConstants DEF Wanted

LEMMA StartInv ==
  ASSUME RegistryStart, updates \in Seq([type : {"added", "removed"}, id : Thread]),
         Len(updates) <= UpdatesSize
  PROVE  IInv
<1>1. loaded \in Seq(Thread) /\ IsInjective(loaded)
  BY RegistryConstants DEF RegistryStart
<1>2. ToSet(loaded) \subseteq Thread /\ ToSet(<<>>) = {}
  BY <1>1, SetOfSeq DEF ToSet
<1>3. <<>> \in Seq(Thread)
  OBVIOUS
<1>4. RegistryTypeOK
  <2>1. /\ rows \subseteq Thread /\ loaded \in Seq(Thread) /\ invites \subseteq Invite
        /\ joined \subseteq Thread /\ half \subseteq Thread /\ failed \subseteq Thread
        /\ ignored \subseteq Invite
        /\ clashed \in BOOLEAN /\ raced \in BOOLEAN /\ broken \in BOOLEAN
        /\ errors \in 0..MaxErrors /\ called \in 0..MaxCalls
    <3>1. 0 \in 0..MaxErrors /\ 0 \in 0..MaxCalls
      BY RegistryConstants
    <3> QED BY <3>1, <1>1, <1>2 DEF RegistryStart
  <2>2. /\ apc \in [Adder -> AdderLabel] /\ job \in [Adder -> Invite \cup Fresh \cup {Nothing}]
        /\ slice \in [Adder -> Seq(Thread)]
        /\ vpc \in [Remover -> {"idle", "leave", "deleteRow", "splice", "update"}]
        /\ index \in [Remover -> Nat] /\ leaving \in [Remover -> Thread \cup {Nothing}]
    BY <1>3 DEF RegistryStart, AdderLabel
  <2> QED BY <2>1, <2>2 DEF RegistryTypeOK
<1>5. JobsOK
  BY DEF RegistryStart, JobsOK
<1>6. AccountedOK
  BY <1>2 DEF RegistryStart, AccountedOK, Accounted
<1>7. LeavingOK /\ AddingOK /\ RowsOK
  BY <1>2 DEF RegistryStart, LeavingOK, AddingOK, RowsOK, Adding, Splicing
<1> QED BY <1>1, <1>4, <1>5, <1>6, <1>7 DEF IInv, Matching


\* A call that joins a thread can be relied on until it has joined or failed.
LEMMA AccountedStays ==
  ASSUME joined \subseteq joined', failed \subseteq failed',
         \A b \in Adder : apc[b] \in {"update", "join"} =>
           \/ apc'[b] \in {"update", "join"} /\ job'[b] = job[b]
           \/ Wanted(b) \in joined' \cup failed'
  PROVE  \A t : Accounted(t) => Accounted(t)'
BY DEF Accounted, Wanted

LEMMA AccountedKept ==
  ASSUME AccountedOK,
         \A t : Accounted(t) => Accounted(t)',
         \A t \in ToSet(loaded') : t \in ToSet(loaded) \/ Accounted(t)',
         \A a \in Adder : ToSet(slice'[a]) \subseteq ToSet(loaded) \cup ToSet(slice[a]),
         \A a \in Adder : apc'[a] = "ignore" =>
           (apc[a] = "ignore" /\ job'[a] = job[a]) \/ Accounted(Wanted(a))',
         \A i \in Invite \ (invites' \cup ignored') :
           i \notin invites \cup ignored \/ Accounted(ThreadOf[i])'
  PROVE  AccountedOK'
<1>1. \A t \in ToSet(loaded') : Accounted(t)'
  BY DEF AccountedOK
<1>2. \A a \in Adder : \A t \in ToSet(slice'[a]) : Accounted(t)'
  BY DEF AccountedOK
<1>3. \A a \in Adder : apc'[a] = "ignore" => Accounted(Wanted(a))'
  BY DEF AccountedOK, Wanted, Accounted
<1>4. \A i \in Invite \ (invites' \cup ignored') : Accounted(ThreadOf[i])'
  BY DEF AccountedOK
<1> QED BY <1>1, <1>2, <1>3, <1>4 DEF AccountedOK, Accounted

\* Nobody starts or stops adding a thread, and a thread goes to the slice only
\* if it is not there.
LEMMA MatchingKept ==
  ASSUME Matching, UNCHANGED <<rows, loaded, half, removers>>,
         \A a \in Adder, t \in Thread : Adding(a, t)' <=> Adding(a, t),
         \A a \in Adder : apc'[a] \in {"append", "write"} =>
           apc[a] \in {"append", "write"} \/ Wanted(a) \notin ToSet(loaded),
         rows \subseteq Thread
  PROVE  Matching'
<1>0. UNCHANGED <<vpc, index, leaving>>
  BY DEF removers
<1>1. IsInjective(loaded)' /\ LeavingOK'
  BY <1>0 DEF Matching, LeavingOK, IsInjective
<1>2. \A t : Splicing(t)' <=> Splicing(t)
  BY <1>0 DEF Splicing
<1>3. RowsOK'
  BY <1>2 DEF Matching, RowsOK
<1>4. AddingOK'
  <2> SUFFICES ASSUME NEW a \in Adder, NEW t \in Thread, Adding(a, t)'
               PROVE  /\ t \in rows \ half
                      /\ t \in ToSet(loaded) => apc'[a] = "load" /\ Splicing(t)
                      /\ \A b \in Adder : Adding(b, t)' => b = a
    BY <1>2 DEF AddingOK
  <2>1. Adding(a, t)
    OBVIOUS
  <2>2. t \in ToSet(loaded) => apc'[a] = "load"
    BY <2>1 DEF Matching, AddingOK, Adding
  <2> QED BY <2>1, <2>2 DEF Matching, AddingOK
<1> QED BY <1>1, <1>3, <1>4 DEF Matching

LEMMA AcceptInv ==
  ASSUME IInv, NEW a \in Adder, NEW i \in invites, Accept(a, i) PROVE IInv'
<1> USE DEF Accept, GotoA, Called, tables, history, bounds, removers
<1>1. RegistryTypeOK'
  BY RegistryConstants DEF IInv, RegistryTypeOK, AdderLabel
<1>2. JobsOK'
  BY DEF IInv, RegistryTypeOK, JobsOK, Wanted
<1>3. AccountedOK'
  <2>1. \A t : Accounted(t) => Accounted(t)'
    BY AccountedStays DEF IInv, RegistryTypeOK
  <2> QED BY <2>1, AccountedKept DEF IInv, RegistryTypeOK
<1>4. ~clashed' /\ ~broken' /\ ~raced' => Matching'
  <2>1. \A b \in Adder, t \in Thread : Adding(b, t)' <=> Adding(b, t)
    BY DEF IInv, RegistryTypeOK, Adding, Wanted
  <2> QED BY <2>1, MatchingKept DEF IInv, RegistryTypeOK
<1> QED BY <1>1, <1>2, <1>3, <1>4 DEF IInv

LEMMA CreateInv ==
  ASSUME IInv, NEW a \in Adder, NEW t \in Fresh, Create(a, t) PROVE IInv'
<1> USE DEF Create, GotoA, Returns, Errs, Called, tables, history, bounds, removers, adders
<1>1. RegistryTypeOK'
  BY WantedType, RegistryConstants DEF IInv, JobsOK, RegistryTypeOK, AdderLabel
<1>2. JobsOK'
  BY DEF IInv, RegistryTypeOK, JobsOK, Wanted
<1>3. AccountedOK'
  <2>1. \A u : Accounted(u) => Accounted(u)'
    BY AccountedStays DEF IInv, RegistryTypeOK, JobsOK, Wanted
  <2> QED BY <2>1, AccountedKept DEF IInv, RegistryTypeOK
<1>4. ~clashed' /\ ~broken' /\ ~raced' => Matching'
  <2>1. \A b \in Adder, u \in Thread : Adding(b, u)' <=> Adding(b, u)
    BY DEF IInv, RegistryTypeOK, Adding, Wanted
  <2> QED BY <2>1, MatchingKept DEF IInv, RegistryTypeOK
<1> QED BY <1>1, <1>2, <1>3, <1>4 DEF IInv

LEMMA CheckInv ==
  ASSUME IInv, NEW a \in Adder, Check(a) PROVE IInv'
<1> USE DEF Check, GotoA, Returns, Errs, Called, tables, history, bounds, removers, adders
<1>1. RegistryTypeOK'
  BY WantedType, RegistryConstants DEF IInv, JobsOK, RegistryTypeOK, AdderLabel
<1>2. JobsOK'
  BY DEF IInv, RegistryTypeOK, JobsOK, Wanted
<1>3. AccountedOK'
  <2>1. \A t : Accounted(t) => Accounted(t)'
    BY AccountedStays DEF IInv, RegistryTypeOK, JobsOK, Wanted
  <2>2. apc'[a] = "ignore" => Accounted(Wanted(a))'
    <3>1. apc'[a] = "ignore" => Accounted(Wanted(a))
      BY DEF IInv, RegistryTypeOK, AccountedOK, Loaded
    <3>2. Wanted(a)' = Wanted(a)
      BY DEF Wanted
    <3> QED BY <2>1, <3>1, <3>2 DEF Accounted
  <2> QED BY <2>1, <2>2, AccountedKept DEF IInv, RegistryTypeOK
<1>4. ~clashed' /\ ~broken' /\ ~raced' => Matching'
  <2>1. \A b \in Adder, t \in Thread : Adding(b, t)' <=> Adding(b, t)
    BY DEF IInv, RegistryTypeOK, Adding, Wanted
  <2> QED BY <2>1, MatchingKept DEF IInv, RegistryTypeOK
<1> QED BY <1>1, <1>2, <1>3, <1>4 DEF IInv

LEMMA LoadInv ==
  ASSUME IInv, NEW a \in Adder, Load(a) PROVE IInv'
<1> USE DEF Load, GotoA, Returns, Errs, Called, tables, history, bounds, removers, adders, Loaded
<1>1. RegistryTypeOK'
  BY WantedType, RegistryConstants DEF IInv, JobsOK, RegistryTypeOK, AdderLabel
<1>2. JobsOK'
  BY DEF IInv, RegistryTypeOK, JobsOK, Wanted
<1>3. AccountedOK'
  <2>1. \A t : Accounted(t) => Accounted(t)'
    BY AccountedStays DEF IInv, RegistryTypeOK, JobsOK, Wanted
  <2> QED BY <2>1, AccountedKept DEF IInv, RegistryTypeOK
<1>4. ~clashed' /\ ~broken' /\ ~raced' => Matching'
  <2>1. \A b \in Adder, t \in Thread : Adding(b, t)' <=> Adding(b, t)
    BY DEF IInv, RegistryTypeOK, Adding, Wanted
  <2> QED BY <2>1, MatchingKept DEF IInv, RegistryTypeOK
<1> QED BY <1>1, <1>2, <1>3, <1>4 DEF IInv

LEMMA Append1Inv ==
  ASSUME IInv, NEW a \in Adder, Append1(a) PROVE IInv'
<1> USE DEF Append1, GotoA, Returns, Errs, Called, tables, history, bounds, removers, adders
<1>1. RegistryTypeOK'
  BY WantedType, RegistryConstants DEF IInv, JobsOK, RegistryTypeOK, AdderLabel
<1>2. JobsOK'
  BY DEF IInv, RegistryTypeOK, JobsOK, Wanted
<1>3. AccountedOK'
  <2>1. \A t : Accounted(t) => Accounted(t)'
    BY AccountedStays DEF IInv, RegistryTypeOK, JobsOK, Wanted
  <2> QED BY <2>1, AccountedKept DEF IInv, RegistryTypeOK
<1>4. ~clashed' /\ ~broken' /\ ~raced' => Matching'
  <2>1. \A b \in Adder, t \in Thread : Adding(b, t)' <=> Adding(b, t)
    BY DEF IInv, RegistryTypeOK, Adding, Wanted
  <2> QED BY <2>1, MatchingKept DEF IInv, RegistryTypeOK
<1> QED BY <1>1, <1>2, <1>3, <1>4 DEF IInv

LEMMA AnnounceAddedInv ==
  ASSUME IInv, NEW a \in Adder, AnnounceAdded(a) PROVE IInv'
<1> USE DEF AnnounceAdded, GotoA, Returns, Errs, Called, tables, history, bounds, removers, adders
<1>1. RegistryTypeOK'
  <2>1. Wanted(a) \in Thread
    BY WantedType DEF IInv, JobsOK
  <2>2. /\ updates' \in Seq([type : {"added", "removed"}, id : Thread])
        /\ Len(updates') <= UpdatesSize
    BY <2>1, RegistryConstants DEF IInv, RegistryTypeOK
  <2>3. /\ apc' \in [Adder -> AdderLabel] /\ job' \in [Adder -> Invite \cup Fresh \cup {Nothing}]
    BY DEF IInv, RegistryTypeOK, AdderLabel
  <2> QED BY <2>2, <2>3 DEF IInv, RegistryTypeOK
<1>2. JobsOK'
  BY DEF IInv, RegistryTypeOK, JobsOK, Wanted
<1>3. AccountedOK'
  <2>1. \A t : Accounted(t) => Accounted(t)'
    BY AccountedStays DEF IInv, RegistryTypeOK, JobsOK, Wanted
  <2> QED BY <2>1, AccountedKept DEF IInv, RegistryTypeOK
<1>4. ~clashed' /\ ~broken' /\ ~raced' => Matching'
  <2>1. \A b \in Adder, t \in Thread : Adding(b, t)' <=> Adding(b, t)
    BY DEF IInv, RegistryTypeOK, Adding, Wanted
  <2> QED BY <2>1, MatchingKept DEF IInv, RegistryTypeOK
<1> QED BY <1>1, <1>2, <1>3, <1>4 DEF IInv

LEMMA JoinInv ==
  ASSUME IInv, NEW a \in Adder, Join(a) PROVE IInv'
<1> USE DEF Join, GotoA, Returns, Errs, Called, tables, history, bounds, removers, adders
<1>1. RegistryTypeOK'
  BY WantedType, RegistryConstants DEF IInv, JobsOK, RegistryTypeOK, AdderLabel
<1>2. JobsOK'
  BY DEF IInv, RegistryTypeOK, JobsOK, Wanted
<1>3. AccountedOK'
  <2>1. \A t : Accounted(t) => Accounted(t)'
    BY AccountedStays DEF IInv, RegistryTypeOK, JobsOK, Wanted
  <2>2. apc'[a] = "ignore" => Accounted(Wanted(a))'
    BY DEF IInv, RegistryTypeOK, Wanted, Accounted
  <2> QED BY <2>1, <2>2, AccountedKept DEF IInv, RegistryTypeOK
<1>4. ~clashed' /\ ~broken' /\ ~raced' => Matching'
  <2>1. \A b \in Adder, t \in Thread : Adding(b, t)' <=> Adding(b, t)
    BY DEF IInv, RegistryTypeOK, Adding, Wanted
  <2> QED BY <2>1, MatchingKept DEF IInv, RegistryTypeOK
<1> QED BY <1>1, <1>2, <1>3, <1>4 DEF IInv

LEMMA JoinFailsInv ==
  ASSUME IInv, NEW a \in Adder, JoinFails(a) PROVE IInv'
<1> USE DEF JoinFails, GotoA, Returns, Errs, Called, tables, history, bounds, removers, adders
<1>1. RegistryTypeOK'
  BY WantedType, RegistryConstants DEF IInv, JobsOK, RegistryTypeOK, AdderLabel
<1>2. JobsOK'
  BY DEF IInv, RegistryTypeOK, JobsOK, Wanted
<1>3. AccountedOK'
  <2>1. \A t : Accounted(t) => Accounted(t)'
    BY AccountedStays DEF IInv, RegistryTypeOK, JobsOK, Wanted
  <2> QED BY <2>1, AccountedKept DEF IInv, RegistryTypeOK
<1>4. ~clashed' /\ ~broken' /\ ~raced' => Matching'
  <2>1. \A b \in Adder, t \in Thread : Adding(b, t)' <=> Adding(b, t)
    BY DEF IInv, RegistryTypeOK, Adding, Wanted
  <2> QED BY <2>1, MatchingKept DEF IInv, RegistryTypeOK
<1> QED BY <1>1, <1>2, <1>3, <1>4 DEF IInv

LEMMA DeleteInviteInv ==
  ASSUME IInv, NEW a \in Adder, DeleteInvite(a) PROVE IInv'
<1> USE DEF DeleteInvite, GotoA, Returns, Errs, Called, tables, history, bounds, removers, adders
<1>1. RegistryTypeOK'
  BY WantedType, RegistryConstants DEF IInv, JobsOK, RegistryTypeOK, AdderLabel
<1>2. JobsOK'
  BY DEF IInv, RegistryTypeOK, JobsOK, Wanted
<1>3. AccountedOK'
  <2>1. \A t : Accounted(t) => Accounted(t)'
    BY AccountedStays DEF IInv, RegistryTypeOK, JobsOK, Wanted
  <2>2. job[a] \in Invite => Accounted(ThreadOf[job[a]])
    BY DEF IInv, AccountedOK, Wanted
  <2>3. \A i \in Invite \ (invites' \cup ignored') :
          i \notin invites \cup ignored \/ Accounted(ThreadOf[i])'
    BY <2>1, <2>2
  <2> QED BY <2>1, <2>3, AccountedKept DEF IInv, RegistryTypeOK
<1>4. ~clashed' /\ ~broken' /\ ~raced' => Matching'
  <2>1. \A b \in Adder, t \in Thread : Adding(b, t)' <=> Adding(b, t)
    BY DEF IInv, RegistryTypeOK, Adding, Wanted
  <2> QED BY <2>1, MatchingKept DEF IInv, RegistryTypeOK
<1> QED BY <1>1, <1>2, <1>3, <1>4 DEF IInv

LEMMA IgnoreInv ==
  ASSUME IInv, NEW i \in invites, Ignore(i) PROVE IInv'
<1> USE DEF Ignore, GotoA, Returns, Errs, Called, tables, history, bounds, removers, adders
<1>1. RegistryTypeOK'
  BY WantedType, RegistryConstants DEF IInv, JobsOK, RegistryTypeOK, AdderLabel
<1>2. JobsOK'
  BY DEF IInv, RegistryTypeOK, JobsOK, Wanted
<1>3. AccountedOK'
  <2>1. \A t : Accounted(t) => Accounted(t)'
    BY AccountedStays DEF IInv, RegistryTypeOK, JobsOK, Wanted
  <2> QED BY <2>1, AccountedKept DEF IInv, RegistryTypeOK
<1>4. ~clashed' /\ ~broken' /\ ~raced' => Matching'
  <2>1. \A b \in Adder, t \in Thread : Adding(b, t)' <=> Adding(b, t)
    BY DEF IInv, RegistryTypeOK, Adding, Wanted
  <2> QED BY <2>1, MatchingKept DEF IInv, RegistryTypeOK
<1> QED BY <1>1, <1>2, <1>3, <1>4 DEF IInv

LEMMA TakeUpdateInv ==
  ASSUME IInv, TakeUpdate PROVE IInv'
<1> USE DEF TakeUpdate, GotoA, Returns, Errs, Called, tables, history, bounds, removers, adders
<1>1. RegistryTypeOK'
  BY WantedType, RegistryConstants DEF IInv, JobsOK, RegistryTypeOK, AdderLabel
<1>2. JobsOK'
  BY DEF IInv, RegistryTypeOK, JobsOK, Wanted
<1>3. AccountedOK'
  <2>1. \A t : Accounted(t) => Accounted(t)'
    BY AccountedStays DEF IInv, RegistryTypeOK, JobsOK, Wanted
  <2> QED BY <2>1, AccountedKept DEF IInv, RegistryTypeOK
<1>4. ~clashed' /\ ~broken' /\ ~raced' => Matching'
  <2>1. \A b \in Adder, t \in Thread : Adding(b, t)' <=> Adding(b, t)
    BY DEF IInv, RegistryTypeOK, Adding, Wanted
  <2> QED BY <2>1, MatchingKept DEF IInv, RegistryTypeOK
<1> QED BY <1>1, <1>2, <1>3, <1>4 DEF IInv


LEMMA AddRowInv ==
  ASSUME IInv, NEW a \in Adder, AddRow(a) PROVE IInv'
<1> USE DEF AddRow, GotoA, Returns, tables, history, bounds, removers
<1>0. Wanted(a) \in Thread
  BY WantedType DEF IInv, JobsOK
<1>1. RegistryTypeOK'
  BY <1>0 DEF IInv, RegistryTypeOK, AdderLabel
<1>2. JobsOK'
  BY DEF IInv, RegistryTypeOK, JobsOK, Wanted
<1>3. AccountedOK'
  <2>1. \A t : Accounted(t) => Accounted(t)'
    BY AccountedStays DEF IInv, RegistryTypeOK, JobsOK, Wanted
  <2> QED BY <2>1, AccountedKept DEF IInv, RegistryTypeOK
<1>4. ASSUME ~clashed', ~broken', ~raced' PROVE Matching'
  <2>0. Matching
    BY <1>4 DEF IInv
  <2>1. CASE Wanted(a) \notin rows /\ rows' = rows \cup {Wanted(a)} /\ apc' = [apc EXCEPT ![a] = "load"]
    <3>1. \A b \in Adder, t \in Thread : Adding(b, t)' <=> Adding(b, t) \/ (b = a /\ t = Wanted(a))
      BY <2>1 DEF IInv, RegistryTypeOK, Adding, Wanted
    <3>2. Wanted(a) \notin half /\ \A b \in Adder : ~Adding(b, Wanted(a))
      BY <2>0, <2>1, <1>0 DEF Matching, AddingOK, RowsOK
    <3>3. Wanted(a) \in ToSet(loaded) => Splicing(Wanted(a))
      BY <2>0, <2>1 DEF Matching, RowsOK
    <3>4. \A t : Splicing(t)' <=> Splicing(t)
      BY DEF Splicing
    <3>5. AddingOK'
      <4> SUFFICES ASSUME NEW b \in Adder, NEW t \in Thread, Adding(b, t)'
                   PROVE  /\ t \in rows' \ half
                          /\ t \in ToSet(loaded) => apc'[b] = "load" /\ Splicing(t)
                          /\ \A c \in Adder : Adding(c, t)' => c = b
        BY <3>4 DEF AddingOK
      <4>1. CASE b = a /\ t = Wanted(a)
        BY <4>1, <2>1, <3>1, <3>2, <3>3 DEF IInv, RegistryTypeOK
      <4>2. CASE Adding(b, t)
        <5>1. t # Wanted(a) /\ b # a
          BY <4>2, <3>2 DEF Adding
        <5>2. apc'[b] = apc[b]
          BY <5>1, <2>1 DEF IInv, RegistryTypeOK
        <5> QED BY <4>2, <5>1, <5>2, <2>0, <2>1, <3>1 DEF Matching, AddingOK
      <4> QED BY <3>1, <4>1, <4>2
    <3>6. RowsOK'
      <4>1. \A t \in rows' : \/ t \in half \/ \E b \in Adder : Adding(b, t)'
                             \/ t \in ToSet(loaded) /\ ~Splicing(t)
        BY <2>0, <2>1, <3>1, <1>0 DEF Matching, RowsOK, IInv, RegistryTypeOK
      <4>2. \A t \in ToSet(loaded) : t \in rows' \ half \/ Splicing(t)
        BY <2>0, <2>1 DEF Matching, RowsOK
      <4>3. half \subseteq rows'
        BY <2>0, <2>1 DEF Matching, RowsOK
      <4> QED BY <3>4, <4>1, <4>2, <4>3 DEF RowsOK
    <3> QED BY <2>0, <3>5, <3>6 DEF Matching, LeavingOK
  <2>2. CASE rows' = rows /\ apc' = [apc EXCEPT ![a] = "idle"]
    <3>1. \A b \in Adder, t \in Thread : Adding(b, t)' <=> Adding(b, t)
      BY <2>2 DEF IInv, RegistryTypeOK, Adding, Wanted
    <3> QED BY <2>0, <2>2, <3>1, MatchingKept DEF IInv, RegistryTypeOK
  <2> QED BY <2>1, <2>2
<1> QED BY <1>1, <1>2, <1>3, <1>4 DEF IInv

LEMMA LoadFailsInv ==
  ASSUME IInv, NEW a \in Adder, LoadFails(a) PROVE IInv'
<1> USE DEF LoadFails, GotoA, Returns, Errs, tables, bounds, removers
<1>0. Wanted(a) \in Thread
  BY WantedType DEF IInv, JobsOK
<1>1. RegistryTypeOK'
  BY <1>0, RegistryConstants DEF IInv, RegistryTypeOK, AdderLabel
<1>2. JobsOK'
  BY DEF IInv, RegistryTypeOK, JobsOK, Wanted
<1>3. AccountedOK'
  <2>1. \A t : Accounted(t) => Accounted(t)'
    BY AccountedStays DEF IInv, RegistryTypeOK, JobsOK, Wanted
  <2> QED BY <2>1, AccountedKept DEF IInv, RegistryTypeOK
<1>4. ASSUME ~clashed', ~broken', ~raced' PROVE Matching'
  <2>0. Matching
    BY <1>4 DEF IInv
  <2>1. Adding(a, Wanted(a)) /\ half' = half \cup {Wanted(a)}
    BY DEF Adding
  <2>2. \A b \in Adder, t \in Thread : Adding(b, t)' <=> Adding(b, t) /\ b # a
    BY DEF IInv, RegistryTypeOK, Adding, Wanted
  <2>3. \A t : Splicing(t)' <=> Splicing(t)
    BY DEF Splicing
  <2>4. /\ Wanted(a) \in rows /\ (Wanted(a) \in ToSet(loaded) => Splicing(Wanted(a)))
        /\ \A b \in Adder : Adding(b, Wanted(a)) => b = a
    BY <1>0, <2>0, <2>1 DEF Matching, AddingOK
  <2>5. AddingOK'
    <3> SUFFICES ASSUME NEW b \in Adder, NEW t \in Thread, Adding(b, t)'
                 PROVE  /\ t \in rows \ half'
                        /\ t \in ToSet(loaded) => apc'[b] = "load" /\ Splicing(t)
                        /\ \A c \in Adder : Adding(c, t)' => c = b
      BY <2>3 DEF AddingOK
    <3>1. Adding(b, t) /\ b # a /\ t # Wanted(a)
      BY <2>2, <2>4
    <3>2. apc'[b] = apc[b]
      BY <3>1 DEF IInv, RegistryTypeOK
    <3> QED BY <3>1, <3>2, <2>0, <2>1, <2>2 DEF Matching, AddingOK
  <2>6. RowsOK'
    <3>1. ASSUME NEW t \in rows
          PROVE  \/ t \in half' \/ \E b \in Adder : Adding(b, t)'
                 \/ t \in ToSet(loaded) /\ ~Splicing(t)
      <4>1. CASE t = Wanted(a)
        BY <4>1, <2>1
      <4>2. CASE t # Wanted(a)
        <5>1. t \in Thread
          BY DEF IInv, RegistryTypeOK
        <5>2. ~Adding(a, t)
          BY <4>2 DEF Adding
        <5> QED BY <5>1, <5>2, <2>0, <2>1, <2>2 DEF Matching, RowsOK
      <4> QED BY <4>1, <4>2
    <3>2. \A t \in ToSet(loaded) : t \in rows \ half' \/ Splicing(t)
      BY <2>0, <2>1, <2>4 DEF Matching, RowsOK
    <3>3. half' \subseteq rows
      BY <2>0, <2>1, <2>4 DEF Matching, RowsOK
    <3> QED BY <2>3, <3>1, <3>2, <3>3 DEF RowsOK
  <2> QED BY <2>0, <2>5, <2>6 DEF Matching, LeavingOK, IsInjective
<1> QED BY <1>1, <1>2, <1>3, <1>4 DEF IInv

\* What the write of an append leaves in the slice.
LEMMA Written ==
  ASSUME IInv, NEW a \in Adder, Append2(a)
  PROVE  /\ Wanted(a) \in Thread /\ loaded' \in Seq(Thread)
         /\ ToSet(loaded') \subseteq ToSet(slice[a]) \cup ToSet(loaded) \cup {Wanted(a)}
         /\ ~broken /\ ~broken' /\ ~raced' =>
              slice[a] = loaded /\ loaded' = Append(loaded, Wanted(a))
<1>1. Wanted(a) \in Thread /\ slice[a] \in Seq(Thread) /\ loaded \in Seq(Thread)
  BY WantedType DEF IInv, JobsOK, RegistryTypeOK, Append2
<1>2. \A u \in Seq(Thread) :
        /\ Append(u, Wanted(a)) \in Seq(Thread)
        /\ ToSet(Append(u, Wanted(a))) = ToSet(u) \cup {Wanted(a)}
  BY <1>1, AddedToSet
<1>3. CASE loaded' = Append(slice[a], Wanted(a))
  BY <1>1, <1>2, <1>3 DEF Append2, IInv, RegistryTypeOK
<1>4. CASE loaded' = Append(Overlaid(slice[a], loaded), Wanted(a))
  <2>1. /\ Overlaid(slice[a], loaded) \in Seq(Thread) /\ Overlaid(loaded, loaded) = loaded
        /\ ToSet(Overlaid(slice[a], loaded)) \subseteq ToSet(slice[a]) \cup ToSet(loaded)
    BY <1>1, OverlaidCells
  <2>2. ~raced' => slice[a] = loaded
    BY DEF Append2, IInv, RegistryTypeOK
  <2> QED BY <1>1, <1>2, <1>4, <2>1, <2>2
<1>5. CASE loaded' = loaded /\ broken' = TRUE
  BY <1>1, <1>5
<1> QED BY <1>3, <1>4, <1>5 DEF Append2

LEMMA Append2Inv ==
  ASSUME IInv, ~broken, NEW a \in Adder, Append2(a) PROVE IInv'
<1> USE DEF GotoA, tables, history, bounds, removers
<1>0. /\ Wanted(a) \in Thread /\ loaded' \in Seq(Thread)
      /\ ToSet(loaded') \subseteq ToSet(slice[a]) \cup ToSet(loaded) \cup {Wanted(a)}
      /\ ~broken' /\ ~raced' => slice[a] = loaded /\ loaded' = Append(loaded, Wanted(a))
  BY Written
<1>a. /\ apc[a] = "write" /\ slice' = [slice EXCEPT ![a] = <<>>]
      /\ apc' = [apc EXCEPT ![a] = IF job[a] \in Fresh THEN "join" ELSE "update"]
      /\ broken' \in BOOLEAN /\ raced' \in BOOLEAN /\ (~raced' => ~raced)
      /\ UNCHANGED <<rows, invites, updates, job, vpc, index, leaving>>
      /\ UNCHANGED <<joined, half, failed, ignored, clashed, errors, called>>
  BY DEF Append2, IInv, RegistryTypeOK
<1>1. RegistryTypeOK'
  <2>1. <<>> \in Seq(Thread)
    OBVIOUS
  <2> QED BY <1>0, <1>a, <2>1 DEF IInv, RegistryTypeOK, AdderLabel
<1>2. JobsOK'
  BY <1>a DEF IInv, RegistryTypeOK, JobsOK, Wanted
<1>3. AccountedOK'
  <2>1. \A t : Accounted(t) => Accounted(t)'
    BY <1>a, AccountedStays DEF IInv, RegistryTypeOK, JobsOK, Wanted
  <2>2. Accounted(Wanted(a))'
    BY <1>a DEF IInv, RegistryTypeOK, Accounted, Wanted
  <2>3. \A t \in ToSet(loaded') : Accounted(t)'
    <3>1. Wanted(a)' = Wanted(a)
      BY <1>a DEF Wanted
    <3> QED BY <1>0, <2>1, <2>2, <3>1 DEF IInv, AccountedOK, Accounted
  <2>4. \A b \in Adder : ToSet(slice'[b]) \subseteq ToSet(slice[b])
    <3>1. ToSet(<<>>) = {}
      BY DEF ToSet
    <3>2. \A b \in Adder : slice'[b] = IF b = a THEN <<>> ELSE slice[b]
      BY <1>a DEF IInv, RegistryTypeOK
    <3> QED BY <3>1, <3>2
  <2> QED BY <1>a, <2>1, <2>3, <2>4, AccountedKept DEF IInv, RegistryTypeOK
<1>4. ASSUME ~clashed', ~broken', ~raced' PROVE Matching'
  <2>0. Matching /\ loaded \in Seq(Thread) /\ loaded' = Append(loaded, Wanted(a))
    BY <1>0, <1>4, <1>a DEF IInv, RegistryTypeOK
  <2>1. Adding(a, Wanted(a)) /\ apc[a] = "write"
    BY <1>a DEF Adding
  <2>2. /\ Wanted(a) \in rows \ half /\ Wanted(a) \notin ToSet(loaded)
        /\ \A b \in Adder : Adding(b, Wanted(a)) => b = a
    BY <1>0, <2>0, <2>1 DEF Matching, AddingOK
  <2>3. IsInjective(loaded') /\ ToSet(loaded') = ToSet(loaded) \cup {Wanted(a)}
    BY <1>0, <2>0, <2>2, AddedToSet DEF Matching
  <2>4. \A b \in Adder, t \in Thread : Adding(b, t)' <=> Adding(b, t) /\ b # a
    BY <1>a DEF IInv, RegistryTypeOK, Adding, Wanted
  <2>5. (\A t : Splicing(t)' <=> Splicing(t)) /\ ~Splicing(Wanted(a))
    BY <1>a, <2>0, <2>2 DEF Splicing, Matching, LeavingOK
  <2>6. LeavingOK'
    BY <1>a, <2>0, <2>3 DEF Matching, LeavingOK
  <2>7. AddingOK'
    <3> SUFFICES ASSUME NEW b \in Adder, NEW t \in Thread, Adding(b, t)'
                 PROVE  /\ t \in rows \ half
                        /\ t \in ToSet(loaded') => apc'[b] = "load" /\ Splicing(t)
                        /\ \A c \in Adder : Adding(c, t)' => c = b
      BY <1>a, <2>5 DEF AddingOK
    <3>1. Adding(b, t) /\ b # a /\ t # Wanted(a)
      BY <2>2, <2>4
    <3>2. apc'[b] = apc[b] /\ (t \in ToSet(loaded') => t \in ToSet(loaded))
      BY <1>a, <3>1, <2>3 DEF IInv, RegistryTypeOK
    <3> QED BY <3>1, <3>2, <2>0, <2>4 DEF Matching, AddingOK
  <2>8. RowsOK'
    <3>1. ASSUME NEW t \in rows
          PROVE  \/ t \in half \/ \E b \in Adder : Adding(b, t)'
                 \/ t \in ToSet(loaded') /\ ~Splicing(t)
      <4>1. CASE t = Wanted(a)
        BY <4>1, <2>3, <2>5
      <4>2. CASE t # Wanted(a)
        <5>1. t \in Thread
          BY DEF IInv, RegistryTypeOK
        <5>2. ~Adding(a, t)
          BY <4>2 DEF Adding
        <5> QED BY <5>1, <5>2, <2>0, <2>3, <2>4 DEF Matching, RowsOK
      <4> QED BY <4>1, <4>2
    <3>2. \A t \in ToSet(loaded') : t \in rows \ half \/ Splicing(t)
      BY <2>0, <2>2, <2>3 DEF Matching, RowsOK
    <3>3. half \subseteq rows
      BY <2>0 DEF Matching, RowsOK
    <3> QED BY <1>a, <2>5, <3>1, <3>2, <3>3 DEF RowsOK
  <2> QED BY <2>3, <2>6, <2>7, <2>8 DEF Matching
<1> QED BY <1>1, <1>2, <1>3, <1>4 DEF IInv

LEMMA FindInv ==
  ASSUME IInv, NEW r \in Remover, NEW k \in DOMAIN loaded, Find(r, k) PROVE IInv'
<1> USE DEF Find, GotoR, Called, tables, adders
<1>0. k \in 1..Len(loaded) /\ loaded[k] \in Thread /\ loaded[k] \in ToSet(loaded)
  BY SetOfSeq DEF IInv, RegistryTypeOK
<1>1. RegistryTypeOK'
  BY <1>0, RegistryConstants DEF IInv, RegistryTypeOK
<1>2. JobsOK'
  BY <1>0 DEF IInv, RegistryTypeOK, JobsOK, Wanted
<1>3. AccountedOK'
  BY AccountedStays, AccountedKept DEF IInv
<1>4. ASSUME ~clashed', ~broken', ~raced' PROVE Matching'
  <2>0. Matching /\ \A v \in Remover : leaving[v] # loaded[k]
    BY <1>4 DEF IInv
  <2>1. LeavingOK'
    BY <2>0, <1>0 DEF Matching, LeavingOK, IInv, RegistryTypeOK
  <2>2. \A t : Splicing(t)' <=> Splicing(t)
    BY DEF Splicing, IInv, RegistryTypeOK
  <2>3. \A b \in Adder, t \in Thread : Adding(b, t)' <=> Adding(b, t)
    BY DEF Adding, Wanted
  <2>4. AddingOK' /\ RowsOK'
    BY <2>0, <2>2, <2>3 DEF Matching, AddingOK, RowsOK, Adding, Wanted
  <2> QED BY <2>0, <2>1, <2>4 DEF Matching, IsInjective
<1> QED BY <1>1, <1>2, <1>3, <1>4 DEF IInv

\* The thread is left or not, or its removal was announced.
LEMMA LeavesInv ==
  ASSUME IInv, NEW r \in Remover, LeaveThread(r) \/ AnnounceRemoved(r) PROVE IInv'
<1> USE DEF LeaveThread, AnnounceRemoved, GotoR, ReturnsR, Errs, tables, adders, history, bounds
<1>1. RegistryTypeOK'
  <2>1. vpc[r] # "idle" /\ leaving[r] \in Thread
    BY DEF IInv, JobsOK
  <2>2. /\ updates' \in Seq([type : {"added", "removed"}, id : Thread])
        /\ Len(updates') <= UpdatesSize
    <3>1. CASE LeaveThread(r)
      BY <3>1 DEF IInv, RegistryTypeOK
    <3>2. CASE AnnounceRemoved(r)
      <4>1. /\ updates \in Seq([type : {"added", "removed"}, id : Thread]) /\ Len(updates) < UpdatesSize
            /\ updates' = Append(updates, [type |-> "removed", id |-> leaving[r]])
        BY <3>2 DEF IInv, RegistryTypeOK
      <4>2. Len(updates') = Len(updates) + 1 /\ Len(updates) \in Nat
        BY <4>1
      <4> QED BY <2>1, <4>1, <4>2, RegistryConstants
    <3> QED BY <3>1, <3>2
  <2>3. /\ vpc' \in [Remover -> {"idle", "leave", "deleteRow", "splice", "update"}]
        /\ index' \in [Remover -> Nat] /\ leaving' \in [Remover -> Thread \cup {Nothing}]
        /\ errors' \in 0..MaxErrors /\ called' \in 0..MaxCalls
    <3>1. errors' \in 0..MaxErrors /\ called' \in 0..MaxCalls
      BY RegistryConstants DEF IInv, RegistryTypeOK
    <3>2. /\ vpc' \in [Remover -> {"idle", "leave", "deleteRow", "splice", "update"}]
          /\ index' \in [Remover -> Nat] /\ leaving' \in [Remover -> Thread \cup {Nothing}]
      <4>1. CASE UNCHANGED <<index, leaving>> /\ vpc' = [vpc EXCEPT ![r] = "deleteRow"]
        BY <4>1 DEF IInv, RegistryTypeOK
      <4>2. CASE /\ index' = [index EXCEPT ![r] = 0] /\ leaving' = [leaving EXCEPT ![r] = Nothing]
                 /\ vpc' = [vpc EXCEPT ![r] = "idle"]
        <5> HIDE DEF LeaveThread, AnnounceRemoved
        <5> QED BY <4>2 DEF IInv, RegistryTypeOK
      <4> QED BY <4>1, <4>2
    <3> QED BY <3>1, <3>2
  <2> QED BY <2>2, <2>3 DEF IInv, RegistryTypeOK
<1>2. JobsOK'
  BY DEF IInv, RegistryTypeOK, JobsOK, Wanted
<1>3. AccountedOK'
  BY AccountedStays, AccountedKept DEF IInv
<1>4. ASSUME ~clashed', ~broken', ~raced' PROVE Matching'
  <2>0. Matching
    BY <1>4 DEF IInv
  <2>1. LeavingOK'
    <3>1. \A v \in Remover : vpc'[v] # "idle" => vpc[v] # "idle" /\ leaving'[v] = leaving[v] /\ leaving[v] \in Thread
      BY DEF IInv, RegistryTypeOK, JobsOK
    <3>2. \A v \in Remover : vpc'[v] \in {"leave", "deleteRow", "splice"} =>
                               vpc[v] \in {"leave", "deleteRow", "splice"}
      BY DEF IInv, RegistryTypeOK
    <3>3. \A v \in Remover : leaving'[v] = leaving[v] \/ leaving'[v] = Nothing
      BY DEF IInv, RegistryTypeOK
    <3> HIDE DEF LeaveThread, AnnounceRemoved
    <3>4. loaded' = loaded
      BY DEF LeaveThread, AnnounceRemoved
    <3> QED BY <2>0, <3>1, <3>2, <3>3, <3>4, RegistryConstants DEF Matching, LeavingOK
  <2>2. \A t : Splicing(t)' <=> Splicing(t)
    BY DEF Splicing, IInv, RegistryTypeOK
  <2>3. \A b \in Adder, t \in Thread : Adding(b, t)' <=> Adding(b, t)
    BY DEF Adding, Wanted
  <2>4. AddingOK' /\ RowsOK'
    BY <2>0, <2>2, <2>3 DEF Matching, AddingOK, RowsOK, Adding, Wanted
  <2> QED BY <2>0, <2>1, <2>4 DEF Matching, IsInjective
<1> QED BY <1>1, <1>2, <1>3, <1>4 DEF IInv

LEMMA DeleteThreadRowInv ==
  ASSUME IInv, NEW r \in Remover, DeleteThreadRow(r) PROVE IInv'
<1> USE DEF DeleteThreadRow, GotoR, tables, adders, history, bounds
<1>1. RegistryTypeOK'
  BY DEF IInv, RegistryTypeOK
<1>2. JobsOK'
  BY DEF IInv, RegistryTypeOK, JobsOK, Wanted
<1>3. AccountedOK'
  BY AccountedStays, AccountedKept DEF IInv
<1>4. ASSUME ~clashed', ~broken', ~raced' PROVE Matching'
  <2>0. Matching /\ vpc[r] = "deleteRow" /\ leaving[r] \in Thread /\ leaving[r] \in ToSet(loaded)
    BY <1>4 DEF IInv, Matching, LeavingOK, JobsOK
  <2>1. \A t : Splicing(t)' <=> Splicing(t) \/ t = leaving[r]
    BY DEF Splicing, IInv, RegistryTypeOK
  <2>2. ~Splicing(leaving[r])
    BY <2>0 DEF Splicing, Matching, LeavingOK
  <2>3. leaving[r] \notin half /\ \A b \in Adder : ~Adding(b, leaving[r])
    BY <2>0, <2>2 DEF Matching, RowsOK, AddingOK
  <2>4. \A b \in Adder, t \in Thread : Adding(b, t)' <=> Adding(b, t)
    BY DEF Adding, Wanted
  <2>5. LeavingOK'
    BY <2>0 DEF Matching, LeavingOK, IInv, RegistryTypeOK
  <2>6. AddingOK'
    BY <2>0, <2>1, <2>3, <2>4 DEF Matching, AddingOK
  <2>7. RowsOK'
    <3>1. \A t \in rows' : \/ t \in half \/ \E b \in Adder : Adding(b, t)'
                           \/ t \in ToSet(loaded) /\ ~Splicing(t)'
      BY <2>0, <2>1, <2>4 DEF Matching, RowsOK, IInv, RegistryTypeOK
    <3>2. \A t \in ToSet(loaded) : t \in rows' \ half \/ Splicing(t)'
      BY <2>0, <2>1 DEF Matching, RowsOK
    <3>3. half \subseteq rows'
      BY <2>0, <2>3 DEF Matching, RowsOK
    <3> QED BY <3>1, <3>2, <3>3 DEF RowsOK
  <2> QED BY <2>0, <2>5, <2>6, <2>7 DEF Matching, IsInjective
<1> QED BY <1>1, <1>2, <1>3, <1>4 DEF IInv

LEMMA SpliceInv ==
  ASSUME IInv, ~broken, NEW r \in Remover, Splice(r) PROVE IInv'
<1> USE DEF Splice, GotoR, tables, adders, bounds
<1>0. /\ loaded \in Seq(Thread) /\ index[r] \in Nat
      /\ loaded' \in Seq(Thread) /\ ToSet(loaded') \subseteq ToSet(loaded)
      /\ ~clashed' /\ ~broken' /\ IsInjective(loaded) =>
           IsInjective(loaded') /\ ToSet(loaded') = ToSet(loaded) \ {leaving[r]}
  <2>1. loaded \in Seq(Thread) /\ index[r] \in Nat
    BY DEF IInv, RegistryTypeOK
  <2>2. CASE index[r] \in DOMAIN loaded
    <3>1. index[r] \in 1..Len(loaded) /\ loaded' = RemoveAt(loaded, index[r])
      BY <2>1, <2>2
    <3>2. ~clashed' => loaded[index[r]] = leaving[r]
      BY <2>2
    <3> QED BY <2>1, <3>1, <3>2, RemovedFromSet
  <2>3. CASE index[r] \notin DOMAIN loaded
    BY <2>1, <2>3
  <2> QED BY <2>1, <2>2, <2>3
<1>1. RegistryTypeOK'
  BY <1>0 DEF IInv, RegistryTypeOK
<1>2. JobsOK'
  BY DEF IInv, RegistryTypeOK, JobsOK, Wanted
<1>3. AccountedOK'
  BY <1>0, AccountedStays, AccountedKept DEF IInv
<1>4. ASSUME ~clashed', ~broken', ~raced' PROVE Matching'
  <2>0. Matching /\ vpc[r] = "splice" /\ leaving[r] \in Thread
    BY <1>4 DEF IInv, JobsOK
  <2>1. IsInjective(loaded') /\ ToSet(loaded') = ToSet(loaded) \ {leaving[r]}
    BY <1>0, <1>4, <2>0 DEF Matching
  <2>2. \A t : Splicing(t)' <=> Splicing(t) /\ t # leaving[r]
    BY <2>0 DEF Splicing, IInv, RegistryTypeOK, Matching, LeavingOK
  <2>3. Splicing(leaving[r])
    BY <2>0 DEF Splicing
  <2>4. \A b \in Adder, t \in Thread : Adding(b, t)' <=> Adding(b, t)
    BY DEF Adding, Wanted
  <2>5. LeavingOK'
    <3>1. \A v \in Remover : vpc'[v] \in {"leave", "deleteRow", "splice"} =>
            vpc[v] \in {"leave", "deleteRow", "splice"} /\ v # r
      BY <2>0 DEF IInv, RegistryTypeOK
    <3>2. \A v \in Remover : v # r => leaving[v] # leaving[r]
      BY <2>0 DEF Matching, LeavingOK
    <3>3. \A v \in Remover : vpc'[v] # "idle" => vpc[v] # "idle"
      BY <2>0 DEF IInv, RegistryTypeOK
    <3> QED BY <2>0, <2>1, <3>1, <3>2, <3>3 DEF Matching, LeavingOK
  <2>6. AddingOK'
    <3>1. UNCHANGED <<rows, half, apc>>
      OBVIOUS
    <3> QED BY <2>0, <2>1, <2>2, <2>4, <3>1 DEF Matching, AddingOK
  <2>7. RowsOK'
    <3>1. UNCHANGED <<rows, half>>
      OBVIOUS
    <3>2. \A t \in rows : \/ t \in half \/ \E b \in Adder : Adding(b, t)'
                          \/ t \in ToSet(loaded') /\ ~Splicing(t)'
      BY <2>0, <2>1, <2>2, <2>3, <2>4 DEF Matching, RowsOK, IInv, RegistryTypeOK
    <3>3. \A t \in ToSet(loaded') : t \in rows \ half \/ Splicing(t)'
      BY <2>0, <2>1, <2>2 DEF Matching, RowsOK
    <3> QED BY <2>0, <3>1, <3>2, <3>3 DEF Matching, RowsOK
  <2> QED BY <2>1, <2>5, <2>6, <2>7 DEF Matching
<1> QED BY <1>1, <1>2, <1>3, <1>4 DEF IInv

LEMMA StutterInv ==
  ASSUME IInv, UNCHANGED registryVars PROVE IInv'
<1> USE DEF registryVars, tables, adders, removers, history, bounds
<1>1. RegistryTypeOK' /\ JobsOK'
  BY DEF IInv, RegistryTypeOK, JobsOK, Wanted
<1>2. AccountedOK'
  BY AccountedStays, AccountedKept DEF IInv
<1>3. ~clashed' /\ ~broken' /\ ~raced' => Matching'
  <2>1. \A b \in Adder, t \in Thread : Adding(b, t)' <=> Adding(b, t)
    BY DEF Adding, Wanted
  <2> QED BY <2>1, MatchingKept DEF IInv, RegistryTypeOK
<1> QED BY <1>1, <1>2, <1>3 DEF IInv

LEMMA NextInv == IInv /\ [RegistryNext]_registryVars => IInv'
<1> SUFFICES ASSUME IInv, [RegistryNext]_registryVars PROVE IInv'
  OBVIOUS
<1>1. ASSUME ~broken, NEW a \in Adder, AdderStep(a) PROVE IInv'
  <2>1. CASE Check(a) \/ AddRow(a) \/ Load(a) \/ LoadFails(a) \/ Append1(a)
    BY <2>1, CheckInv, AddRowInv, LoadInv, LoadFailsInv, Append1Inv
  <2>2. CASE Append2(a) \/ AnnounceAdded(a) \/ Join(a) \/ JoinFails(a) \/ DeleteInvite(a)
    BY <2>2, <1>1, Append2Inv, AnnounceAddedInv, JoinInv, JoinFailsInv, DeleteInviteInv
  <2> QED BY <1>1, <2>1, <2>2 DEF AdderStep
<1>2. ASSUME ~broken, NEW r \in Remover, RemoverStep(r) PROVE IInv'
  BY <1>2, FindInv, LeavesInv, DeleteThreadRowInv, SpliceInv DEF RemoverStep
<1>3. ASSUME CallsNext PROVE IInv'
  BY <1>1, <1>2, <1>3, AcceptInv, CreateInv, IgnoreInv DEF CallsNext
<1> QED BY <1>3, TakeUpdateInv, StutterInv DEF RegistryNext

LEMMA InitInv == RegistryInit => IInv
<1> SUFFICES ASSUME RegistryInit PROVE IInv
  OBVIOUS
<1>1. <<>> \in Seq([type : {"added", "removed"}, id : Thread]) /\ Len(<<>>) = 0
  OBVIOUS
<1> QED BY <1>1, StartInv, RegistryConstants DEF RegistryInit

LEMMA Invariant == RegistrySpec => []IInv
BY InitInv, NextInv, PTL DEF RegistrySpec
-----------------------------------------------------------------------------
\* The types of the tables, of Textile.threads and of the goroutines' state are
\* kept by every step of core/threads.go.
THEOREM RegistryTypeCorrect == RegistrySpec => []RegistryTypeOK
<1>1. IInv => RegistryTypeOK
  BY DEF IInv
<1> QED BY <1>1, Invariant, PTL

\* While nobody adds or removes a thread, Textile.threads holds each thread with a row once
\* and no other, but for those loadThread failed for: whatever calls of AddThread,
\* AcceptThreadInvite and RemoveThread came before, failed ones too.  Excused are calls of
\* RemoveThread for one thread, or that took out another's, appends that met another change
\* of the slice, and a process that has panicked.
THEOREM SliceMatchesTable == RegistrySpec => []LoadedMatchesRows
<1>1. IInv => LoadedMatchesRows
  <2> SUFFICES ASSUME IInv, Quiet, ~broken, ~clashed, ~raced
               PROVE  IsInjective(loaded) /\ ToSet(loaded) = rows \ half
    BY DEF LoadedMatchesRows
  <2>1. \A t : ~Splicing(t) /\ \A a \in Adder : ~Adding(a, t)
    BY DEF Quiet, Splicing, Adding
  <2> QED BY <2>1 DEF IInv, Matching, RowsOK
<1> QED BY <1>1, Invariant, PTL

\* AcceptThreadInvite deletes an invite only when its thread has been joined, or has been
\* loaded and its join has failed, or is loaded and still being joined by somebody.
THEOREM InviteOutlivesJoin == RegistrySpec => []AcceptedMeansJoined
<1>1. IInv => AcceptedMeansJoined
  BY DEF IInv, AccountedOK, Accounted, AcceptedMeansJoined
<1> QED BY <1>1, Invariant, PTL
-----------------------------------------------------------------------------
(* The desktop.  What Textile.Threads computes is a recursion over the      *)
(* loaded threads: its properties follow by minimal counterexample.         *)

\* A nonempty set of naturals has a least one.
LEMMA LeastNat ==
  ASSUME NEW T \in SUBSET Nat, T # {}
  PROVE  \E n \in T : \A m \in T : n <= m
<1> DEFINE less == {ss \in Nat \X Nat : ss[1] < ss[2]}
<1>1. IsWellFoundedOn(less, Nat)
  BY NatLessThanWellFounded, Zenon DEF OpToRel
<1>2. PICK n \in T : \A m \in T : <<m, n>> \notin less
  <2> HIDE DEF less
  <2> QED BY <1>1, WFMin
<1>3. ASSUME NEW m \in T PROVE n <= m
  <2>1. ~(m < n)
    BY <1>2
  <2> QED BY <2>1
<1> QED BY <1>3

\* Textile.Threads returns loaded threads, each once.
LEMMA ThreadsFound ==
  ASSUME loaded \in Seq(Thread), IsInjective(loaded)
  PROVE  /\ Threads \in Seq(Thread) /\ IsInjective(Threads)
         /\ ToSet(Threads) \subseteq ToSet(loaded)
<1>3. PICK l \in Nat : l = Len(loaded) /\ DOMAIN loaded = 1..l
  OBVIOUS
<1> DEFINE body(f, n) == IF n = 0 THEN <<>>
                         ELSE IF Visible(loaded[n]) THEN Append(f[n - 1], loaded[n]) ELSE f[n - 1]
           built(n, f) == /\ f = [m \in 0..n |-> body(f, m)]
                          /\ \A m \in 0..n : f[m] \in Seq(Thread)
           kept == CHOOSE f : f = [n \in 0..l |-> body(f, n)]
           upto(n) == {loaded[m] : m \in 1..n}
<1>1. Threads = kept[l]
  BY <1>3 DEF Threads
<1>2. \A n \in 1..l : loaded[n] \in Thread
  BY <1>3
<1>4. \A n \in 0..l : \E f : built(n, f)
  <2> SUFFICES ASSUME NEW n \in 0..l, ~\E f : built(n, f)
               PROVE  FALSE
    OBVIOUS
  <2> DEFINE T == {m \in 0..l : ~\E f : built(m, f)}
  <2> HIDE DEF built
  <2>1. n \in T /\ T \subseteq Nat
    OBVIOUS
  <2>2. PICK k \in T : \A m \in T : k <= m
    <3> HIDE DEF T
    <3> QED BY <2>1, LeastNat
  <2>3. CASE k = 0
    <3> DEFINE f == [m \in 0..0 |-> <<>>]
    <3>1. \A m \in 0..0 : body(f, m) = <<>> /\ f[m] = <<>> /\ f[m] \in Seq(Thread)
      OBVIOUS
    <3>2. f = [m \in 0..0 |-> body(f, m)]
      BY <3>1
    <3>3. built(0, f)
      BY <3>1, <3>2 DEF built
    <3> QED BY <2>3, <3>3
  <2>4. CASE k # 0
    <3>1. k \in 1..l /\ k - 1 \in 0..l /\ k - 1 \in Nat /\ ~(k <= k - 1)
      BY <1>3, <2>2, <2>4
    <3>0. k - 1 \notin T
      <4> HIDE DEF T
      <4> QED BY <2>2, <3>1
    <3>2. PICK f : built(k - 1, f)
      BY <3>0, <3>1
    <3> DEFINE g == [m \in 0..k |-> IF m < k THEN f[m] ELSE body(f, k)]
    <3>3. \A m \in 0..(k - 1) : g[m] = f[m] /\ f[m] = body(f, m) /\ f[m] \in Seq(Thread)
      <4>1. f = [m \in 0..(k - 1) |-> body(f, m)] /\ \A m \in 0..(k - 1) : f[m] \in Seq(Thread)
        BY <3>2 DEF built
      <4> DEFINE r == [m \in 0..(k - 1) |-> body(f, m)]
      <4> HIDE DEF body
      <4>2. \A m \in 0..(k - 1) : r[m] = body(f, m)
        OBVIOUS
      <4>3. f = r
        BY <4>1
      <4>4. \A m \in 0..(k - 1) : m \in 0..k /\ m < k
        BY <3>1
      <4>5. \A m \in 0..(k - 1) : g[m] = f[m]
        BY <4>4
      <4> HIDE DEF r, g
      <4> QED BY <4>1, <4>2, <4>3, <4>5
    <3>4. g[k] = body(f, k) /\ g[k] \in Seq(Thread) /\ body(g, k) = body(f, k)
      <4>1. f[k - 1] \in Seq(Thread) /\ g[k - 1] = f[k - 1]
        <5>1. k - 1 \in 0..(k - 1)
          BY <3>1
        <5> HIDE DEF g, body
        <5> QED BY <3>3, <5>1
      <4>2. Append(f[k - 1], loaded[k]) \in Seq(Thread)
        BY <1>2, <3>1, <4>1
      <4> QED BY <2>4, <3>1, <4>1, <4>2
    <3>5. \A m \in 0..(k - 1) : body(g, m) = body(f, m)
      BY <3>1, <3>3
    <3>6. \A m \in 0..k : g[m] = body(g, m) /\ g[m] \in Seq(Thread)
      <4> HIDE DEF g, body
      <4> QED BY <3>1, <3>3, <3>4, <3>5
    <3>7. g = [m \in 0..k |-> body(g, m)]
      <4>1. g = [m \in 0..k |-> g[m]]
        OBVIOUS
      <4> HIDE DEF g, body
      <4> QED BY <3>6, <4>1
    <3>8. built(k, g)
      BY <3>6, <3>7 DEF built
    <3> QED BY <2>2, <3>8
  <2> QED BY <2>3, <2>4
<1>5. kept = [n \in 0..l |-> body(kept, n)]
  <2>1. \E f : f = [n \in 0..l |-> body(f, n)]
    <3>1. l \in 0..l
      BY <1>3
    <3>2. PICK f : built(l, f)
      <4> HIDE DEF built
      <4> QED BY <1>4, <3>1
    <3> QED BY <3>2
  <2> HIDE DEF body
  <2> QED BY <2>1
<1> HIDE DEF kept, built
<1> DEFINE good(n) == /\ kept[n] \in Seq(Thread) /\ IsInjective(kept[n])
                      /\ ToSet(kept[n]) \subseteq upto(n)
<1>6. \A n \in 0..l : good(n)
  <2> SUFFICES ASSUME NEW n \in 0..l, ~good(n)
               PROVE  FALSE
    OBVIOUS
  <2> DEFINE T == {m \in 0..l : ~good(m)}
  <2> HIDE DEF good
  <2>1. n \in T /\ T \subseteq Nat
    OBVIOUS
  <2>2. PICK k \in T : \A m \in T : k <= m
    <3> HIDE DEF T
    <3> QED BY <2>1, LeastNat
  <2>3. kept[k] = body(kept, k)
    BY <1>5
  <2>4. CASE k = 0
    <3>1. kept[k] = <<>>
      BY <2>3, <2>4
    <3>2. <<>> \in Seq(Thread) /\ IsInjective(<<>>) /\ ToSet(<<>>) = {}
      BY DEF IsInjective, ToSet
    <3> QED BY <2>2, <3>1, <3>2 DEF good
  <2>5. CASE k # 0
    <3>1. k \in 1..l /\ k - 1 \in 0..l /\ k - 1 \in Nat /\ ~(k <= k - 1)
      BY <1>3, <2>2, <2>5
    <3>0. k - 1 \notin T
      <4> HIDE DEF T
      <4> QED BY <2>2, <3>1
    <3>2. good(k - 1)
      BY <3>0, <3>1
    <3>3. upto(k - 1) \subseteq upto(k) /\ loaded[k] \in upto(k)
      BY <3>1
    <3>4. loaded[k] \notin upto(k - 1)
      <4>1. \A m \in 1..(k - 1) : m \in DOMAIN loaded /\ k \in DOMAIN loaded /\ m # k
        BY <1>3, <3>1
      <4> QED BY <1>3, <4>1 DEF IsInjective
    <3>5. CASE Visible(loaded[k])
      <4>1. kept[k] = Append(kept[k - 1], loaded[k])
        BY <2>3, <2>5, <3>5
      <4> HIDE DEF upto
      <4>2. good(k)
        BY <1>2, <3>1, <3>2, <3>3, <3>4, <4>1, AddedToSet DEF good
      <4> QED BY <2>2, <4>2
    <3>6. CASE ~Visible(loaded[k])
      <4>1. kept[k] = kept[k - 1]
        BY <2>3, <2>5, <3>6
      <4> HIDE DEF upto
      <4> QED BY <2>2, <3>2, <3>3, <4>1 DEF good
    <3> QED BY <3>5, <3>6
  <2> QED BY <2>4, <2>5
<1>7. upto(l) = ToSet(loaded)
  BY <1>3, SetOfSeq
<1>8. good(l)
  <2>1. l \in 0..l
    BY <1>3
  <2> HIDE DEF good
  <2> QED BY <1>6, <2>1
<1> QED BY <1>1, <1>7, <1>8
-----------------------------------------------------------------------------
(* The invariant *)

\* a preready has hidden the setup page, or is on its way and will
Prepared == page = "hidden" \/ \E n \in DOMAIN window : window[n].name = "preready"

\* Whoever sets expanded has sent preready first, and nothing that shows .main comes
\* before it in the window's queue.
HiddenOK ==
  /\ mainShown => page = "hidden"
  /\ expanded \/ main \in {"expand", "ready"} \/ pump \in {"expand", "send"} => Prepared
  /\ \A n \in DOMAIN window : window[n].name \in {"ready", "wallet.update"} =>
       page = "hidden" \/ \E m \in 1..(n - 1) : window[m].name = "preready"

\* Of the loads without an answer the last is that of the active entry.
GridOK ==
  /\ loads # <<>> => active # 0
  /\ ~overtaken => IF loads # <<>> THEN loads[Len(loads)] = list[active]
                   ELSE active # 0 => grid = list[active]

\* A timer clicks the first entry, so it runs only once there is one.
TimersOK ==
  /\ timers > 0 => list # <<>>
  /\ main \in {"preready", "expand", "ready"} => snap # <<>>
  /\ \A n \in DOMAIN window : window[n].name \in {"ready", "wallet.update"} => window[n].threads # <<>>

\* adder a has the row of its thread and has yet to announce the thread
Due(a) ==
  apc[a] \in {"load", "append", "write", "update"} \/ (apc[a] = "join" /\ job[a] \in Fresh)

\* cell n of Textile.threads, or of what an adder read of it, holds t
Cell(t, n) ==
  \/ n \in DOMAIN loaded /\ loaded[n] = t
  \/ \E a \in Adder : n \in DOMAIN slice[a] /\ slice[a][n] = t

\* Rows stay, and one adder has that of a thread.  It appends the thread once: so whatever
\* appends lose or bring back, a thread is only ever in one cell.
PlacesOK ==
  /\ \A t, n : Cell(t, n) => t \in rows
  /\ \A t, m, n : Cell(t, m) /\ Cell(t, n) => m = n
  /\ \A a \in Adder : Due(a) =>
       /\ Wanted(a) \in rows
       /\ apc[a] \in {"load", "append", "write"} => \A n : ~Cell(Wanted(a), n)
       /\ \A b \in Adder : Due(b) /\ Wanted(b) = Wanted(a) => b = a

Queued(t) == \E n \in DOMAIN updates : updates[n].id = t

\* A thread that is to be announced is in one place on its way: with its adder, in the
\* updates channel, with the pump, or announced.
OnceOK ==
  /\ \A a \in Adder : Due(a) =>
       Wanted(a) \notin announced /\ Wanted(a) # held /\ ~Queued(Wanted(a))
  /\ \A n \in DOMAIN updates :
       /\ updates[n].id \in rows /\ updates[n].id \notin announced /\ updates[n].id # held
       /\ \A m \in DOMAIN updates : updates[m].id = updates[n].id => m = n
  /\ held # Nothing => held \in rows /\ held \notin announced
  /\ held = Nothing <=> pump = "take"
  /\ announced \subseteq rows

\* The main goroutine found threads, each once, and sends them in one message.
FoundOK ==
  /\ IsInjective(snap)
  /\ main = "snapshot" => snap = <<>>
  /\ \A n \in DOMAIN window : window[n].name = "ready" =>
       /\ window[n].threads = snap /\ main = "done"
       /\ \A m \in DOMAIN window : window[m].name = "ready" => m = n

\* Unless appends met, what was found, announced or will be announced is loaded.
ShownOK ==
  ~raced =>
    /\ ToSet(snap) \cup announced \subseteq ToSet(loaded)
    /\ held # Nothing => held \in ToSet(loaded)
    /\ \A n \in DOMAIN updates : updates[n].id \in ToSet(loaded)
    /\ \A a \in Adder : Due(a) /\ apc[a] \in {"update", "join"} => Wanted(a) \in ToSet(loaded)

\* the message that shows what the main goroutine found is yet to be handled
NotYet ==
  \/ main \in {"snapshot", "preready", "expand", "ready"}
  \/ \E n \in DOMAIN window : window[n].name = "ready"

\* The entries are announced or found threads; a second entry for a thread has both causes.
EntriesOK ==
  /\ \A t \in ToSet(list) : t \in announced \/ t \in ToSet(snap)
  /\ NotYet => ToSet(list) \subseteq announced
  /\ \A n \in DOMAIN window : window[n].name = "wallet.update" =>
       \E t \in announced :
         /\ window[n].threads = <<t>> /\ (t \in ToSet(list) => t \in ToSet(snap))
         /\ \A m \in DOMAIN window : window[m].name = "wallet.update" /\ window[m].threads = <<t>> => m = n
  /\ \A j, k \in DOMAIN list :
       list[j] = list[k] => j = k \/ list[j] \in ToSet(snap) \cap announced

ListOK == OnceOK /\ FoundOK /\ EntriesOK /\ ShownOK

DeskOK == DesktopTypeOK /\ HiddenOK /\ GridOK /\ TimersOK /\ ListOK

\* Nothing on the desktop removes threads: no two removers clash, and no cell of the slice
\* is nil.
DInv == IInv /\ ~clashed /\ ~broken /\ PlacesOK /\ DeskOK
-----------------------------------------------------------------------------
(* Helpers: the queue of messages and the list of entries as sequences *)

Message == [name : {"preready", "ready", "wallet.update", "setup"}, threads : Seq(Thread)]

LEMMA Appended ==
  ASSUME NEW S, NEW s \in Seq(S), NEW e \in S
  PROVE  /\ Append(s, e) \in Seq(S) /\ Len(s) \in Nat
         /\ Len(Append(s, e)) = Len(s) + 1
         /\ DOMAIN s = 1..Len(s) /\ DOMAIN Append(s, e) = 1..(Len(s) + 1)
         /\ Append(s, e)[Len(s) + 1] = e
         /\ \A n \in 1..Len(s) : Append(s, e)[n] = s[n]
OBVIOUS

LEMMA Taken ==
  ASSUME NEW S, NEW s \in Seq(S), s # <<>>
  PROVE  /\ Tail(s) \in Seq(S) /\ Len(s) \in Nat /\ 1 \in 1..Len(s) /\ DOMAIN s = 1..Len(s)
         /\ Head(s) = s[1] /\ s[1] \in S
         /\ Len(Tail(s)) = Len(s) - 1 /\ DOMAIN Tail(s) = 1..(Len(s) - 1)
         /\ \A n \in 1..(Len(s) - 1) : n + 1 \in 1..Len(s) /\ Tail(s)[n] = s[n + 1]
OBVIOUS

LEMMA Joined ==
  ASSUME NEW s \in Seq(Thread), NEW u \in Seq(Thread)
  PROVE  /\ s \o u \in Seq(Thread) /\ Len(s) \in Nat /\ Len(u) \in Nat
         /\ DOMAIN s = 1..Len(s) /\ DOMAIN u = 1..Len(u)
         /\ DOMAIN (s \o u) = 1..(Len(s) + Len(u)) /\ Len(s \o u) = Len(s) + Len(u)
         /\ \A n \in 1..Len(s) : (s \o u)[n] = s[n]
         /\ \A n \in 1..(Len(s) + Len(u)) : n \in 1..Len(s) \/ n - Len(s) \in 1..Len(u)
         /\ \A n \in 1..(Len(s) + Len(u)) : n \notin 1..Len(s) => (s \o u)[n] = u[n - Len(s)]
         /\ ToSet(s \o u) = ToSet(s) \cup ToSet(u)
<1>1. PICK k \in Nat, l \in Nat : k = Len(s) /\ l = Len(u)
  OBVIOUS
<1> DEFINE v == s \o u
<1>2. v \in Seq(Thread) /\ Len(v) = k + l /\ DOMAIN v = 1..(k + l)
  BY <1>1
<1>3. \A n \in 1..k : v[n] = s[n] /\ n \in 1..(k + l)
  BY <1>1
<1>4. \A n \in 1..(k + l) : n \in 1..k \/ n - k \in 1..l
  BY <1>1
<1>5. \A n \in 1..(k + l) : n \notin 1..k => v[n] = u[n - k]
  BY <1>1
<1>6. \A n \in 1..l : v[n + k] = u[n] /\ n + k \in 1..(k + l)
  BY <1>1
<1> HIDE DEF v
<1>7. /\ ToSet(v) = {v[n] : n \in 1..(k + l)}
      /\ ToSet(s) = {s[n] : n \in 1..k} /\ ToSet(u) = {u[n] : n \in 1..l}
  BY <1>1, <1>2, SetOfSeq
<1>8. ToSet(v) = ToSet(s) \cup ToSet(u)
  <2>1. ASSUME NEW e \in ToSet(v) PROVE e \in ToSet(s) \cup ToSet(u)
    BY <2>1, <1>3, <1>4, <1>5, <1>7
  <2>2. ASSUME NEW e \in ToSet(s) PROVE e \in ToSet(v)
    BY <2>2, <1>3, <1>7
  <2>3. ASSUME NEW e \in ToSet(u) PROVE e \in ToSet(v)
    BY <2>3, <1>6, <1>7
  <2> QED BY <2>1, <2>2, <2>3
<1>9. DOMAIN s = 1..k /\ DOMAIN u = 1..l
  BY <1>1
<1> QED BY <1>1, <1>2, <1>3, <1>4, <1>5, <1>8, <1>9 DEF v

\* what sendData does to the messages
LEMMA Sends ==
  ASSUME window \in Seq(Message), NEW name \in {"preready", "ready", "wallet.update", "setup"},
         NEW ts \in Seq(Thread), Sent(name, ts)
  PROVE  /\ window' \in Seq(Message) /\ Len(window) \in Nat
         /\ DOMAIN window = 1..Len(window) /\ DOMAIN window' = 1..(Len(window) + 1)
         /\ window'[Len(window) + 1].name = name /\ window'[Len(window) + 1].threads = ts
         /\ \A n \in 1..Len(window) : window'[n] = window[n] /\ n \in 1..(Len(window) + 1)
<1> DEFINE m == [name |-> name, threads |-> ts]
<1>1. m \in Message /\ m.name = name /\ m.threads = ts
  BY DEF Message
<1>2. window' = Append(window, m)
  BY DEF Sent
<1> HIDE DEF m, Message
<1> QED BY <1>1, <1>2, Appended

\* what the window does to them
LEMMA Takes ==
  ASSUME window \in Seq(Message), NEW name, Handled(name)
  PROVE  /\ window' \in Seq(Message) /\ Len(window) \in Nat
         /\ DOMAIN window = 1..Len(window) /\ DOMAIN window' = 1..(Len(window) - 1)
         /\ 1 \in 1..Len(window) /\ Head(window) = window[1] /\ window[1].name = name
         /\ window[1].threads \in Seq(Thread)
         /\ \A n \in 1..(Len(window) - 1) : n + 1 \in 1..Len(window) /\ window'[n] = window[n + 1]
<1>1. window # <<>> /\ window' = Tail(window) /\ Head(window).name = name
  BY DEF Handled
<1>2. window[1] \in Message => window[1].threads \in Seq(Thread)
  BY DEF Message
<1> HIDE DEF Message
<1> QED BY <1>1, <1>2, Taken

-----------------------------------------------------------------------------
(* Every step preserves the invariant *)

\* the main goroutine and the pump leave the grid alone
LEMMA GridKept ==
  ASSUME GridOK, UNCHANGED <<list, active, loads, grid, overtaken>>
  PROVE  GridOK'
BY DEF GridOK

LEMMA SnapshotInv ==
  ASSUME DInv, Snapshot PROVE DeskOK'
<1>1. /\ main = "snapshot" /\ snap' = Threads
      /\ main' = IF snap' = <<>> THEN "setup" ELSE "preready"
      /\ UNCHANGED <<expanded, pump, held, announced, window, list, timers, page, mainShown>>
      /\ UNCHANGED <<active, loads, grid, overtaken, clicks>>
      /\ UNCHANGED <<rows, loaded, updates, apc, job, raced>>
  BY DEF Snapshot, registryVars, tables, adders, history, entries, content
<1>2. /\ IInv /\ PlacesOK /\ DesktopTypeOK /\ HiddenOK /\ GridOK /\ TimersOK
      /\ OnceOK /\ FoundOK /\ EntriesOK /\ ShownOK
  BY DEF DInv, DeskOK, ListOK
<1>3. /\ Threads \in Seq(Thread) /\ IsInjective(Threads)
      /\ ToSet(Threads) \subseteq ToSet(loaded)
  <2>1. loaded \in Seq(Thread) /\ IsInjective(loaded)
    BY <1>2 DEF IInv, RegistryTypeOK, PlacesOK, Cell, IsInjective
  <2> QED BY <2>1, ThreadsFound
<1>4. DesktopTypeOK'
  BY <1>1, <1>2, <1>3 DEF DesktopTypeOK
<1>5. HiddenOK'
  BY <1>1, <1>2 DEF HiddenOK, Prepared
<1>6. GridOK'
  BY <1>1, <1>2, GridKept
<1>7. TimersOK'
  BY <1>1, <1>2 DEF TimersOK
<1>8. OnceOK'
  BY <1>1, <1>2 DEF OnceOK, Due, Queued, Wanted
<1>9. FoundOK'
  BY <1>1, <1>2, <1>3 DEF FoundOK
<1>10. EntriesOK'
  <2>1. snap = <<>> /\ ToSet(snap) = {}
    BY <1>1, <1>2 DEF FoundOK, ToSet
  <2>2. NotYet
    BY <1>1 DEF NotYet
  <2> QED BY <1>1, <1>2, <2>1, <2>2 DEF EntriesOK
<1>11. ShownOK'
  BY <1>1, <1>2, <1>3 DEF ShownOK, Due, Wanted
<1> QED BY <1>4, <1>5, <1>6, <1>7, <1>8, <1>9, <1>10, <1>11 DEF DeskOK, ListOK

\* a step of the main goroutine or of the pump after that, which sends nothing
LEMMA ExpandInv ==
  ASSUME DInv, MainExpand \/ PumpExpand PROVE DeskOK'
<1>1. /\ \/ main = "expand" /\ main' = "ready" /\ pump' = pump
         \/ pump = "expand" /\ pump' = "send" /\ main' = main
      /\ expanded' = TRUE
      /\ UNCHANGED <<snap, held, announced, window, list, timers, page, mainShown>>
      /\ UNCHANGED <<active, loads, grid, overtaken, clicks>>
      /\ UNCHANGED <<rows, loaded, updates, apc, job, raced>>
  BY DEF MainExpand, PumpExpand, registryVars, tables, adders, history, entries, content
<1>2. /\ DesktopTypeOK /\ HiddenOK /\ GridOK /\ TimersOK
      /\ OnceOK /\ FoundOK /\ EntriesOK /\ ShownOK
  BY DEF DInv, DeskOK, ListOK
<1>3. DesktopTypeOK'
  BY <1>1, <1>2 DEF DesktopTypeOK
<1>4. HiddenOK'
  BY <1>1, <1>2 DEF HiddenOK, Prepared
<1>5. GridOK'
  BY <1>1, <1>2, GridKept
<1>6. TimersOK'
  BY <1>1, <1>2 DEF TimersOK
<1>7. OnceOK'
  BY <1>1, <1>2 DEF OnceOK, Due, Queued, Wanted
<1>8. FoundOK'
  BY <1>1, <1>2 DEF FoundOK
<1>9. EntriesOK'
  BY <1>1, <1>2 DEF EntriesOK, NotYet
<1>10. ShownOK'
  BY <1>1, <1>2 DEF ShownOK, Due, Wanted
<1> QED BY <1>3, <1>4, <1>5, <1>6, <1>7, <1>8, <1>9, <1>10 DEF DeskOK, ListOK

\* one that tells the window to hide its setup page
LEMMA PreReadyInv ==
  ASSUME DInv, MainPreReady \/ PumpPreReady PROVE DeskOK'
<1>1. /\ \/ main = "preready" /\ main' = "expand" /\ pump' = pump
         \/ pump = "preready" /\ pump' = "expand" /\ main' = main
      /\ Sent("preready", <<>>)
      /\ UNCHANGED <<expanded, snap, held, announced, list, timers, page, mainShown>>
      /\ UNCHANGED <<active, loads, grid, overtaken, clicks>>
      /\ UNCHANGED <<rows, loaded, updates, apc, job, raced>>
  BY DEF MainPreReady, PumpPreReady, registryVars, tables, adders, history, entries, content
<1>2. /\ DesktopTypeOK /\ HiddenOK /\ GridOK /\ TimersOK
      /\ OnceOK /\ FoundOK /\ EntriesOK /\ ShownOK
  BY DEF DInv, DeskOK, ListOK
<1>3. /\ window' \in Seq(Message) /\ Len(window) \in Nat
      /\ DOMAIN window = 1..Len(window) /\ DOMAIN window' = 1..(Len(window) + 1)
      /\ window'[Len(window) + 1].name = "preready"
      /\ \A n \in 1..Len(window) : window'[n] = window[n] /\ n \in 1..(Len(window) + 1)
  <2>1. window \in Seq(Message) /\ <<>> \in Seq(Thread)
    BY <1>2 DEF DesktopTypeOK, Message
  <2> QED BY <1>1, <2>1, Sends
<1>4. \A n \in 1..(Len(window) + 1) : n \in 1..Len(window) \/ n = Len(window) + 1
  BY <1>3
<1>5. DesktopTypeOK'
  BY <1>1, <1>2, <1>3 DEF DesktopTypeOK, Message
<1>6. HiddenOK'
  <2>1. Prepared'
    <3>1. Len(window) + 1 \in DOMAIN window'
      BY <1>3
    <3> QED BY <1>3, <3>1 DEF Prepared
  <2>2. ASSUME NEW n \in DOMAIN window', window'[n].name \in {"ready", "wallet.update"}, page # "hidden"
        PROVE  \E m \in 1..(n - 1) : window'[m].name = "preready"
    <3>1. n \in 1..Len(window)
      BY <1>3, <1>4, <2>2
    <3>2. PICK m \in 1..(n - 1) : window[m].name = "preready"
      BY <1>2, <1>3, <2>2, <3>1 DEF HiddenOK
    <3>3. m \in 1..Len(window)
      BY <1>3, <3>1
    <3> QED BY <1>3, <3>2, <3>3
  <2> QED BY <1>1, <1>2, <2>1, <2>2 DEF HiddenOK
<1>7. GridOK'
  BY <1>1, <1>2, GridKept
<1>8. TimersOK'
  BY <1>1, <1>2, <1>3, <1>4 DEF TimersOK
<1>9. OnceOK'
  BY <1>1, <1>2 DEF OnceOK, Due, Queued, Wanted
<1>10. FoundOK'
  BY <1>1, <1>2, <1>3, <1>4 DEF FoundOK
<1>11. EntriesOK'
  <2>1. NotYet' => NotYet
    BY <1>1, <1>3, <1>4 DEF NotYet
  <2>2. \A n \in DOMAIN window' : window'[n].name = "wallet.update" =>
          n \in DOMAIN window /\ window'[n] = window[n]
    BY <1>3, <1>4
  <2> QED BY <1>1, <1>2, <2>1, <2>2 DEF EntriesOK
<1>12. ShownOK'
  BY <1>1, <1>2 DEF ShownOK, Due, Wanted
<1> QED BY <1>5, <1>6, <1>7, <1>8, <1>9, <1>10, <1>11, <1>12 DEF DeskOK, ListOK

LEMMA MainReadyInv ==
  ASSUME DInv, MainReady PROVE DeskOK'
<1>1. /\ main = "ready" /\ main' = "done"
      /\ Sent("ready", snap)
      /\ UNCHANGED <<expanded, snap, pump, held, announced, list, timers, page, mainShown>>
      /\ UNCHANGED <<active, loads, grid, overtaken, clicks>>
      /\ UNCHANGED <<rows, loaded, updates, apc, job, raced>>
  BY DEF MainReady, registryVars, tables, adders, history, entries, content
<1>2. /\ DesktopTypeOK /\ HiddenOK /\ GridOK /\ TimersOK
      /\ OnceOK /\ FoundOK /\ EntriesOK /\ ShownOK
  BY DEF DInv, DeskOK, ListOK
<1>3. /\ window' \in Seq(Message) /\ Len(window) \in Nat
      /\ DOMAIN window = 1..Len(window) /\ DOMAIN window' = 1..(Len(window) + 1)
      /\ window'[Len(window) + 1].name = "ready" /\ window'[Len(window) + 1].threads = snap
      /\ \A n \in 1..Len(window) : window'[n] = window[n] /\ n \in 1..(Len(window) + 1)
  <2>1. window \in Seq(Message) /\ snap \in Seq(Thread)
    BY <1>2 DEF DesktopTypeOK, Message
  <2> QED BY <1>1, <2>1, Sends
<1>4. \A n \in 1..(Len(window) + 1) : n \in 1..Len(window) \/ n = Len(window) + 1
  BY <1>3
<1>5. DesktopTypeOK'
  BY <1>1, <1>2, <1>3 DEF DesktopTypeOK, Message
<1>6. HiddenOK'
  <2>1. /\ Prepared
        /\ expanded \/ pump \in {"expand", "send"} => Prepared'
    BY <1>1, <1>2, <1>3 DEF HiddenOK, Prepared
  <2>2. ASSUME NEW n \in DOMAIN window', window'[n].name \in {"ready", "wallet.update"}, page # "hidden"
        PROVE  \E m \in 1..(n - 1) : window'[m].name = "preready"
    <3>1. CASE n \in 1..Len(window)
      <4>1. PICK m \in 1..(n - 1) : window[m].name = "preready"
        BY <1>2, <1>3, <2>2, <3>1 DEF HiddenOK
      <4>2. m \in 1..Len(window)
        BY <1>3, <3>1
      <4> QED BY <1>3, <4>1, <4>2
    <3>2. CASE n = Len(window) + 1
      BY <1>3, <2>1, <2>2, <3>2 DEF Prepared
    <3> QED BY <1>3, <1>4, <3>1, <3>2
  <2> QED BY <1>1, <1>2, <2>1, <2>2 DEF HiddenOK
<1>7. GridOK'
  BY <1>1, <1>2, GridKept
<1>8. TimersOK'
  BY <1>1, <1>2, <1>3, <1>4 DEF TimersOK
<1>9. OnceOK'
  BY <1>1, <1>2 DEF OnceOK, Due, Queued, Wanted
<1>10. FoundOK'
  <2>1. \A n \in DOMAIN window : window[n].name # "ready"
    BY <1>1, <1>2 DEF FoundOK
  <2> QED BY <1>1, <1>2, <1>3, <1>4, <2>1 DEF FoundOK
<1>11. EntriesOK'
  <2>1. NotYet
    BY <1>1 DEF NotYet
  <2>2. \A n \in DOMAIN window' : window'[n].name = "wallet.update" =>
          n \in DOMAIN window /\ window'[n] = window[n]
    BY <1>3, <1>4
  <2> QED BY <1>1, <1>2, <2>1, <2>2 DEF EntriesOK
<1>12. ShownOK'
  BY <1>1, <1>2 DEF ShownOK, Due, Wanted
<1> QED BY <1>5, <1>6, <1>7, <1>8, <1>9, <1>10, <1>11, <1>12 DEF DeskOK, ListOK

LEMMA MainSetupInv ==
  ASSUME DInv, MainSetup PROVE DeskOK'
<1>1. /\ main = "setup" /\ main' = "done"
      /\ Sent("setup", <<>>)
      /\ UNCHANGED <<expanded, snap, pump, held, announced, list, timers, page, mainShown>>
      /\ UNCHANGED <<active, loads, grid, overtaken, clicks>>
      /\ UNCHANGED <<rows, loaded, updates, apc, job, raced>>
  BY DEF MainSetup, registryVars, tables, adders, history, entries, content
<1>2. /\ DesktopTypeOK /\ HiddenOK /\ GridOK /\ TimersOK
      /\ OnceOK /\ FoundOK /\ EntriesOK /\ ShownOK
  BY DEF DInv, DeskOK, ListOK
<1>3. /\ window' \in Seq(Message) /\ Len(window) \in Nat
      /\ DOMAIN window = 1..Len(window) /\ DOMAIN window' = 1..(Len(window) + 1)
      /\ window'[Len(window) + 1].name = "setup"
      /\ \A n \in 1..Len(window) : window'[n] = window[n] /\ n \in 1..(Len(window) + 1)
  <2>1. window \in Seq(Message) /\ <<>> \in Seq(Thread)
    BY <1>2 DEF DesktopTypeOK, Message
  <2> QED BY <1>1, <2>1, Sends
<1>4. \A n \in 1..(Len(window) + 1) : n \in 1..Len(window) \/ n = Len(window) + 1
  BY <1>3
<1>5. DesktopTypeOK'
  BY <1>1, <1>2, <1>3 DEF DesktopTypeOK, Message
<1>6. HiddenOK'
  <2>1. expanded \/ pump \in {"expand", "send"} => Prepared'
    BY <1>1, <1>2, <1>3 DEF HiddenOK, Prepared
  <2>2. ASSUME NEW n \in DOMAIN window', window'[n].name \in {"ready", "wallet.update"}, page # "hidden"
        PROVE  \E m \in 1..(n - 1) : window'[m].name = "preready"
    <3>1. n \in 1..Len(window)
      BY <1>3, <1>4, <2>2
    <3>2. PICK m \in 1..(n - 1) : window[m].name = "preready"
      BY <1>2, <1>3, <2>2, <3>1 DEF HiddenOK
    <3>3. m \in 1..Len(window)
      BY <1>3, <3>1
    <3> QED BY <1>3, <3>2, <3>3
  <2> QED BY <1>1, <1>2, <2>1, <2>2 DEF HiddenOK
<1>7. GridOK'
  BY <1>1, <1>2, GridKept
<1>8. TimersOK'
  BY <1>1, <1>2, <1>3, <1>4 DEF TimersOK
<1>9. OnceOK'
  BY <1>1, <1>2 DEF OnceOK, Due, Queued, Wanted
<1>10. FoundOK'
  BY <1>1, <1>2, <1>3, <1>4 DEF FoundOK
<1>11. EntriesOK'
  <2>1. NotYet' => NotYet
    BY <1>1, <1>3, <1>4 DEF NotYet
  <2>2. \A n \in DOMAIN window' : window'[n].name = "wallet.update" =>
          n \in DOMAIN window /\ window'[n] = window[n]
    BY <1>3, <1>4
  <2> QED BY <1>1, <1>2, <2>1, <2>2 DEF EntriesOK
<1>12. ShownOK'
  BY <1>1, <1>2 DEF ShownOK, Due, Wanted
<1> QED BY <1>5, <1>6, <1>7, <1>8, <1>9, <1>10, <1>11, <1>12 DEF DeskOK, ListOK

LEMMA PumpTakeInv ==
  ASSUME DInv, PumpTake PROVE DeskOK'
<1>1. /\ pump = "take" /\ updates # <<>>
      /\ held' = Head(updates).id /\ updates' = Tail(updates)
      /\ pump' = IF expanded THEN "send" ELSE "preready"
      /\ UNCHANGED <<expanded, main, snap, announced, window, list, timers, page, mainShown>>
      /\ UNCHANGED <<active, loads, grid, overtaken, clicks>>
      /\ UNCHANGED <<rows, loaded, apc, job, raced>>
  BY DEF PumpTake, tables, adders, history, entries, content
<1>2. /\ IInv /\ DesktopTypeOK /\ HiddenOK /\ GridOK /\ TimersOK
      /\ OnceOK /\ FoundOK /\ EntriesOK /\ ShownOK
  BY DEF DInv, DeskOK, ListOK
<1>3. /\ Len(updates) \in Nat /\ 1 \in 1..Len(updates) /\ DOMAIN updates = 1..Len(updates)
      /\ held' = updates[1].id /\ held' \in Thread
      /\ DOMAIN updates' = 1..(Len(updates) - 1)
      /\ \A n \in 1..(Len(updates) - 1) : n + 1 \in 1..Len(updates) /\ updates'[n] = updates[n + 1]
  <2> DEFINE Update == [type : {"added", "removed"}, id : Thread]
  <2>1. updates \in Seq(Update)
    BY <1>2 DEF IInv, RegistryTypeOK
  <2>2. \A u \in Update : u.id \in Thread
    OBVIOUS
  <2> HIDE DEF Update
  <2> QED BY <1>1, <2>1, <2>2, Taken
<1>4. DesktopTypeOK'
  BY <1>1, <1>2, <1>3 DEF DesktopTypeOK
<1>5. HiddenOK'
  BY <1>1, <1>2 DEF HiddenOK, Prepared
<1>6. GridOK'
  BY <1>1, <1>2, GridKept
<1>7. TimersOK'
  BY <1>1, <1>2 DEF TimersOK
<1>8. OnceOK'
  <2>1. held' \in rows /\ held' \notin announced /\ held' # Nothing /\ Queued(held')
    BY <1>2, <1>3, RegistryConstants DEF OnceOK, Queued
  <2>2. \A n \in DOMAIN updates' : /\ n + 1 \in DOMAIN updates /\ updates'[n] = updates[n + 1]
                                   /\ updates[n + 1].id # held'
    <3> SUFFICES ASSUME NEW n \in 1..(Len(updates) - 1)
                 PROVE  updates[n + 1].id # updates[1].id
      BY <1>3
    <3>1. n + 1 \in 1..Len(updates) /\ n + 1 # 1
      BY <1>3
    <3> QED BY <1>2, <1>3, <3>1 DEF OnceOK
  <2>3. \A m, n \in DOMAIN updates' : updates'[m].id = updates'[n].id => m = n
    <3> SUFFICES ASSUME NEW m \in 1..(Len(updates) - 1), NEW n \in 1..(Len(updates) - 1),
                        updates'[m].id = updates'[n].id
                 PROVE  m = n
      BY <1>3
    <3>1. m + 1 = n + 1
      BY <1>2, <1>3 DEF OnceOK
    <3> QED BY <1>3, <3>1
  <2>4. \A t : Queued(t)' => Queued(t)
    BY <2>2 DEF Queued
  <2>5. \A a \in Adder : Due(a)' = Due(a) /\ Wanted(a)' = Wanted(a)
    BY <1>1 DEF Due, Wanted
  <2>6. \A a \in Adder : Due(a) => Wanted(a) # held'
    BY <1>2, <2>1 DEF OnceOK
  <2> QED BY <1>1, <1>2, <2>1, <2>2, <2>3, <2>4, <2>5, <2>6 DEF OnceOK
<1>9. FoundOK'
  BY <1>1, <1>2 DEF FoundOK
<1>10. EntriesOK'
  BY <1>1, <1>2 DEF EntriesOK, NotYet
<1>11. ShownOK'
  BY <1>1, <1>2, <1>3 DEF ShownOK, Due, Wanted
<1> QED BY <1>4, <1>5, <1>6, <1>7, <1>8, <1>9, <1>10, <1>11 DEF DeskOK, ListOK

LEMMA PumpSendInv ==
  ASSUME DInv, PumpSend PROVE DeskOK'
<1>1. /\ pump = "send" /\ Sent("wallet.update", <<held>>)
      /\ announced' = announced \cup {held} /\ pump' = "take" /\ held' = Nothing
      /\ UNCHANGED <<expanded, main, snap, list, timers, page, mainShown>>
      /\ UNCHANGED <<active, loads, grid, overtaken, clicks>>
      /\ UNCHANGED <<rows, loaded, updates, apc, job, raced>>
  BY DEF PumpSend, registryVars, tables, adders, history, entries, content
<1>2. /\ IInv /\ PlacesOK /\ DesktopTypeOK /\ HiddenOK /\ GridOK /\ TimersOK
      /\ OnceOK /\ FoundOK /\ EntriesOK /\ ShownOK
  BY DEF DInv, DeskOK, ListOK
<1>3. held \in Thread /\ held \in rows /\ held \notin announced
  BY <1>1, <1>2 DEF DesktopTypeOK, OnceOK
<1>4. /\ window' \in Seq(Message) /\ Len(window) \in Nat
      /\ DOMAIN window = 1..Len(window) /\ DOMAIN window' = 1..(Len(window) + 1)
      /\ window'[Len(window) + 1].name = "wallet.update"
      /\ window'[Len(window) + 1].threads = <<held>>
      /\ \A n \in 1..Len(window) : window'[n] = window[n] /\ n \in 1..(Len(window) + 1)
  <2>1. window \in Seq(Message) /\ <<held>> \in Seq(Thread)
    BY <1>2, <1>3 DEF DesktopTypeOK, Message
  <2> QED BY <1>1, <2>1, Sends
<1>5. \A n \in 1..(Len(window) + 1) : n \in 1..Len(window) \/ n = Len(window) + 1
  BY <1>4
<1>6. DesktopTypeOK'
  BY <1>1, <1>2, <1>3, <1>4 DEF DesktopTypeOK, Message
<1>7. HiddenOK'
  <2>1. Prepared /\ Prepared'
    BY <1>1, <1>2, <1>4 DEF HiddenOK, Prepared
  <2>2. ASSUME NEW n \in DOMAIN window', window'[n].name \in {"ready", "wallet.update"}, page # "hidden"
        PROVE  \E m \in 1..(n - 1) : window'[m].name = "preready"
    <3>1. CASE n \in 1..Len(window)
      <4>1. PICK m \in 1..(n - 1) : window[m].name = "preready"
        BY <1>2, <1>4, <2>2, <3>1 DEF HiddenOK
      <4>2. m \in 1..Len(window)
        BY <1>4, <3>1
      <4> QED BY <1>4, <4>1, <4>2
    <3>2. CASE n = Len(window) + 1
      BY <1>4, <2>1, <2>2, <3>2 DEF Prepared
    <3> QED BY <1>4, <1>5, <3>1, <3>2
  <2> QED BY <1>1, <1>2, <2>1, <2>2 DEF HiddenOK
<1>8. GridOK'
  BY <1>1, <1>2, GridKept
<1>9. TimersOK'
  <2>1. <<held>> # <<>>
    OBVIOUS
  <2> QED BY <1>1, <1>2, <1>4, <1>5, <2>1 DEF TimersOK
<1>10. OnceOK'
  <2>1. \A a \in Adder : Due(a)' = Due(a) /\ Wanted(a)' = Wanted(a)
    BY <1>1 DEF Due, Wanted
  <2>2. \A a \in Adder : Due(a) => Wanted(a) # Nothing
    BY <1>2, RegistryConstants DEF PlacesOK, IInv, RegistryTypeOK
  <2>3. \A n \in DOMAIN updates : updates[n].id # Nothing
    BY <1>2, RegistryConstants DEF OnceOK, IInv, RegistryTypeOK
  <2> QED BY <1>1, <1>2, <1>3, <2>1, <2>2, <2>3 DEF OnceOK, Queued
<1>11. FoundOK'
  BY <1>1, <1>2, <1>4, <1>5 DEF FoundOK
<1>12. EntriesOK'
  <2>1. NotYet' => NotYet
    BY <1>1, <1>4, <1>5 DEF NotYet
  <2>2. held \in ToSet(list) => held \in ToSet(snap)
    BY <1>2, <1>3 DEF EntriesOK
  <2>3. \A n \in 1..Len(window) : window[n].name = "wallet.update" => window[n].threads # <<held>>
    <3> SUFFICES ASSUME NEW n \in 1..Len(window), window[n].name = "wallet.update",
                        window[n].threads = <<held>>
                 PROVE  FALSE
      OBVIOUS
    <3>1. PICK t \in announced : <<t>> = <<held>>
      BY <1>2, <1>4 DEF EntriesOK
    <3>2. <<t>>[1] = <<held>>[1]
      BY <3>1
    <3> QED BY <1>3, <3>2
  <2>4. ASSUME NEW n \in 1..(Len(window) + 1), window'[n].name = "wallet.update"
        PROVE  \E t \in announced' :
                 /\ window'[n].threads = <<t>> /\ (t \in ToSet(list) => t \in ToSet(snap))
                 /\ \A m \in 1..(Len(window) + 1) :
                      window'[m].name = "wallet.update" /\ window'[m].threads = <<t>> => m = n
    <3>1. CASE n \in 1..Len(window)
      <4>1. PICK t \in announced :
              /\ window[n].threads = <<t>> /\ (t \in ToSet(list) => t \in ToSet(snap))
              /\ \A m \in DOMAIN window :
                   window[m].name = "wallet.update" /\ window[m].threads = <<t>> => m = n
        BY <1>2, <1>4, <2>4, <3>1 DEF EntriesOK
      <4>2. window'[Len(window) + 1].threads # <<t>>
        BY <1>4, <2>3, <2>4, <3>1, <4>1
      <4> QED BY <1>1, <1>4, <1>5, <3>1, <4>1, <4>2
    <3>2. CASE n = Len(window) + 1
      BY <1>1, <1>4, <1>5, <2>2, <2>3, <3>2
    <3> QED BY <1>5, <3>1, <3>2
  <2> QED BY <1>1, <1>2, <1>4, <2>1, <2>4 DEF EntriesOK
<1>13. ShownOK'
  BY <1>1, <1>2, <1>3, RegistryConstants DEF ShownOK, Due, Wanted
<1> QED BY <1>6, <1>7, <1>8, <1>9, <1>10, <1>11, <1>12, <1>13 DEF DeskOK, ListOK

-----------------------------------------------------------------------------
\* the goroutines do not look at what the window does
LEMMA OnceKept ==
  ASSUME OnceOK, UNCHANGED <<updates, held, announced>>, rows \subseteq rows',
         pump' = pump, \A a \in Adder : Due(a)' => Due(a) /\ Wanted(a)' = Wanted(a)
  PROVE  OnceOK'
BY DEF OnceOK, Queued

\* what is said of the messages on their way holds when the first one is gone
LEMMA RestOK ==
  ASSUME FoundOK, EntriesOK, UNCHANGED <<main, snap, announced>>,
         DOMAIN window = 1..Len(window), DOMAIN window' = 1..(Len(window) - 1), Len(window) \in Nat,
         \A n \in 1..(Len(window) - 1) : n + 1 \in 1..Len(window) /\ window'[n] = window[n + 1]
  PROVE  /\ FoundOK' /\ (NotYet' => NotYet)
         /\ \A n \in DOMAIN window' : window'[n].name = "wallet.update" =>
              \E t \in announced :
                /\ window'[n].threads = <<t>> /\ window[n + 1].threads = <<t>>
                /\ t \in ToSet(list) => t \in ToSet(snap)
                /\ \A m \in DOMAIN window' :
                     window'[m].name = "wallet.update" /\ window'[m].threads = <<t>> => m = n
<1>1. \A m, n \in 1..(Len(window) - 1) : m + 1 = n + 1 => m = n
  OBVIOUS
<1>2. FoundOK'
  <2>1. ASSUME NEW n \in DOMAIN window', window'[n].name = "ready"
        PROVE  /\ window'[n].threads = snap /\ main = "done"
               /\ \A m \in DOMAIN window' : window'[m].name = "ready" => m = n
    <3>1. n + 1 \in DOMAIN window /\ window[n + 1].name = "ready"
      BY <2>1
    <3>2. /\ window[n + 1].threads = snap /\ main = "done"
          /\ \A m \in DOMAIN window : window[m].name = "ready" => m = n + 1
      BY <3>1 DEF FoundOK
    <3>3. ASSUME NEW m \in DOMAIN window', window'[m].name = "ready" PROVE m = n
      <4>1. m + 1 = n + 1
        BY <3>2, <3>3
      <4> QED BY <1>1, <4>1
    <3> QED BY <3>2, <3>3
  <2> QED BY <2>1 DEF FoundOK
<1>3. NotYet' => NotYet
  BY DEF NotYet
<1>4. ASSUME NEW n \in DOMAIN window', window'[n].name = "wallet.update"
      PROVE  \E t \in announced :
               /\ window'[n].threads = <<t>> /\ window[n + 1].threads = <<t>>
               /\ t \in ToSet(list) => t \in ToSet(snap)
               /\ \A m \in DOMAIN window' :
                    window'[m].name = "wallet.update" /\ window'[m].threads = <<t>> => m = n
  <2>1. n + 1 \in DOMAIN window /\ window'[n] = window[n + 1]
    OBVIOUS
  <2>2. PICK t \in announced :
          /\ window[n + 1].threads = <<t>> /\ (t \in ToSet(list) => t \in ToSet(snap))
          /\ \A m \in DOMAIN window :
               window[m].name = "wallet.update" /\ window[m].threads = <<t>> => m = n + 1
    BY <1>4, <2>1 DEF EntriesOK
  <2>3. ASSUME NEW m \in DOMAIN window', window'[m].name = "wallet.update",
               window'[m].threads = <<t>>
        PROVE  m = n
    <3>1. m + 1 = n + 1
      BY <2>2, <2>3
    <3> QED BY <1>1, <3>1
  <2> QED BY <2>1, <2>2, <2>3
<1> QED BY <1>2, <1>3, <1>4

LEMMA HandlePreReadyInv ==
  ASSUME DInv, HandlePreReady PROVE DeskOK'
<1>1. /\ Handled("preready") /\ page' = "hidden"
      /\ UNCHANGED <<expanded, main, snap, pump, held, announced, list, timers, mainShown>>
      /\ UNCHANGED <<active, loads, grid, overtaken, clicks>>
      /\ UNCHANGED <<rows, loaded, updates, apc, job, raced>>
  BY DEF HandlePreReady, registryVars, tables, adders, history, goroutines, content
<1>2. /\ DesktopTypeOK /\ HiddenOK /\ GridOK /\ TimersOK
      /\ OnceOK /\ FoundOK /\ EntriesOK /\ ShownOK
  BY DEF DInv, DeskOK, ListOK
<1>3. /\ window' \in Seq(Message) /\ Len(window) \in Nat
      /\ DOMAIN window = 1..Len(window) /\ DOMAIN window' = 1..(Len(window) - 1)
      /\ \A n \in 1..(Len(window) - 1) : n + 1 \in 1..Len(window) /\ window'[n] = window[n + 1]
  <2>1. window \in Seq(Message)
    BY <1>2 DEF DesktopTypeOK, Message
  <2> QED BY <1>1, <2>1, Takes
<1>5. DesktopTypeOK'
  BY <1>1, <1>2, <1>3 DEF DesktopTypeOK, Message
<1>6. HiddenOK'
  BY <1>1 DEF HiddenOK, Prepared
<1>7. GridOK'
  BY <1>1, <1>2, GridKept
<1>8. TimersOK'
  BY <1>1, <1>2, <1>3 DEF TimersOK
<1>9. OnceOK'
  BY <1>1, <1>2, OnceKept DEF Due, Wanted
<1>10. FoundOK'
  BY <1>1, <1>2, <1>3, RestOK
<1>11. EntriesOK'
  <2>1. /\ NotYet' => NotYet
        /\ \A n \in DOMAIN window' : window'[n].name = "wallet.update" =>
             \E t \in announced :
               /\ window'[n].threads = <<t>> /\ (t \in ToSet(list) => t \in ToSet(snap))
               /\ \A m \in DOMAIN window' :
                    window'[m].name = "wallet.update" /\ window'[m].threads = <<t>> => m = n
    BY <1>1, <1>2, <1>3, RestOK
  <2> QED BY <1>1, <1>2, <2>1 DEF EntriesOK
<1>12. ShownOK'
  BY <1>1, <1>2 DEF ShownOK, Due, Wanted
<1> QED BY <1>5, <1>6, <1>7, <1>8, <1>9, <1>10, <1>11, <1>12 DEF DeskOK, ListOK

LEMMA HandleSetupInv ==
  ASSUME DInv, HandleSetup PROVE DeskOK'
<1>1. /\ Handled("setup") /\ page' = IF page = "hidden" THEN page ELSE "code"
      /\ UNCHANGED <<expanded, main, snap, pump, held, announced, list, timers, mainShown>>
      /\ UNCHANGED <<active, loads, grid, overtaken, clicks>>
      /\ UNCHANGED <<rows, loaded, updates, apc, job, raced>>
  BY DEF HandleSetup, registryVars, tables, adders, history, goroutines, content
<1>2. /\ DesktopTypeOK /\ HiddenOK /\ GridOK /\ TimersOK
      /\ OnceOK /\ FoundOK /\ EntriesOK /\ ShownOK
  BY DEF DInv, DeskOK, ListOK
<1>3. /\ window' \in Seq(Message) /\ Len(window) \in Nat
      /\ DOMAIN window = 1..Len(window) /\ DOMAIN window' = 1..(Len(window) - 1)
      /\ window[1].name = "setup"
      /\ \A n \in 1..(Len(window) - 1) : n + 1 \in 1..Len(window) /\ window'[n] = window[n + 1]
  <2>1. window \in Seq(Message)
    BY <1>2 DEF DesktopTypeOK, Message
  <2> QED BY <1>1, <2>1, Takes
<1>4. \A n \in 1..Len(window) : n # 1 => n - 1 \in 1..(Len(window) - 1) /\ (n - 1) + 1 = n
  BY <1>3
<1>5. DesktopTypeOK'
  BY <1>1, <1>2, <1>3 DEF DesktopTypeOK, Message
<1>6. HiddenOK'
  <2>1. Prepared => Prepared'
    <3> SUFFICES ASSUME NEW n \in 1..Len(window), window[n].name = "preready"
                 PROVE  Prepared'
      BY <1>1, <1>3 DEF Prepared
    <3>1. n # 1
      BY <1>3
    <3>2. n - 1 \in DOMAIN window' /\ window'[n - 1] = window[n]
      BY <1>3, <1>4, <3>1
    <3> QED BY <3>2 DEF Prepared
  <2>2. ASSUME NEW n \in DOMAIN window', window'[n].name \in {"ready", "wallet.update"}, page # "hidden"
        PROVE  \E m \in 1..(n - 1) : window'[m].name = "preready"
    <3>1. PICK m \in 1..((n + 1) - 1) : window[m].name = "preready"
      BY <1>2, <1>3, <2>2 DEF HiddenOK
    <3>2. m # 1
      BY <1>3, <3>1
    <3>3. m \in 1..Len(window) /\ m - 1 \in 1..(n - 1)
      BY <1>3, <3>2
    <3>4. window'[m - 1] = window[m]
      BY <1>3, <1>4, <3>2, <3>3
    <3> QED BY <3>1, <3>3, <3>4
  <2> QED BY <1>1, <1>2, <2>1, <2>2 DEF HiddenOK
<1>7. GridOK'
  BY <1>1, <1>2, GridKept
<1>8. TimersOK'
  BY <1>1, <1>2, <1>3 DEF TimersOK
<1>9. OnceOK'
  BY <1>1, <1>2, OnceKept DEF Due, Wanted
<1>10. FoundOK'
  BY <1>1, <1>2, <1>3, RestOK
<1>11. EntriesOK'
  <2>1. /\ NotYet' => NotYet
        /\ \A n \in DOMAIN window' : window'[n].name = "wallet.update" =>
             \E t \in announced :
               /\ window'[n].threads = <<t>> /\ (t \in ToSet(list) => t \in ToSet(snap))
               /\ \A m \in DOMAIN window' :
                    window'[m].name = "wallet.update" /\ window'[m].threads = <<t>> => m = n
    BY <1>1, <1>2, <1>3, RestOK
  <2> QED BY <1>1, <1>2, <2>1 DEF EntriesOK
<1>12. ShownOK'
  BY <1>1, <1>2 DEF ShownOK, Due, Wanted
<1> QED BY <1>5, <1>6, <1>7, <1>8, <1>9, <1>10, <1>11, <1>12 DEF DeskOK, ListOK

\* the entries of the threads the main goroutine found
LEMMA HandleReadyInv ==
  ASSUME DInv, HandleReady PROVE DeskOK'
<1>1. /\ Handled("ready") /\ list' = list \o Head(window).threads /\ mainShown' = TRUE
      /\ timers' = timers + IF list = <<>> THEN 2 ELSE 1
      /\ UNCHANGED <<expanded, main, snap, pump, held, announced, page>>
      /\ UNCHANGED <<active, loads, grid, overtaken, clicks>>
      /\ UNCHANGED <<rows, loaded, updates, apc, job, raced>>
  BY DEF HandleReady, AddThreads, registryVars, tables, adders, history, goroutines, content
<1>2. /\ DesktopTypeOK /\ HiddenOK /\ GridOK /\ TimersOK
      /\ OnceOK /\ FoundOK /\ EntriesOK /\ ShownOK
  BY DEF DInv, DeskOK, ListOK
<1>3. /\ window' \in Seq(Message) /\ Len(window) \in Nat
      /\ DOMAIN window = 1..Len(window) /\ DOMAIN window' = 1..(Len(window) - 1)
      /\ 1 \in 1..Len(window) /\ Head(window) = window[1] /\ window[1].name = "ready"
      /\ \A n \in 1..(Len(window) - 1) : n + 1 \in 1..Len(window) /\ window'[n] = window[n + 1]
  <2>1. window \in Seq(Message)
    BY <1>2 DEF DesktopTypeOK, Message
  <2> QED BY <1>1, <2>1, Takes
<1>4. /\ \A m, n \in 1..(Len(window) - 1) : m + 1 = n + 1 => m = n
      /\ \A n \in 1..(Len(window) - 1) : n + 1 # 1
  BY <1>3
<1>5. /\ window[1].threads = snap /\ main = "done" /\ NotYet /\ ToSet(list) \subseteq announced
      /\ \A n \in 1..(Len(window) - 1) : window'[n].name # "ready"
  <2>1. NotYet
    BY <1>3 DEF NotYet
  <2>2. /\ window[1].threads = snap /\ main = "done"
        /\ \A n \in 1..Len(window) : window[n].name = "ready" => n = 1
    BY <1>2, <1>3 DEF FoundOK
  <2>3. ToSet(list) \subseteq announced
    BY <1>2, <2>1 DEF EntriesOK
  <2> QED BY <1>3, <1>4, <2>1, <2>2, <2>3
<1>6. /\ list' \in Seq(Thread) /\ Len(list) \in Nat /\ Len(snap) \in Nat /\ snap # <<>>
      /\ DOMAIN list = 1..Len(list) /\ DOMAIN snap = 1..Len(snap)
      /\ DOMAIN list' = 1..(Len(list) + Len(snap)) /\ Len(list') = Len(list) + Len(snap)
      /\ \A n \in 1..Len(list) : list'[n] = list[n]
      /\ \A n \in 1..(Len(list) + Len(snap)) : n \in 1..Len(list) \/ n - Len(list) \in 1..Len(snap)
      /\ \A n \in 1..(Len(list) + Len(snap)) : n \notin 1..Len(list) => list'[n] = snap[n - Len(list)]
      /\ ToSet(list') = ToSet(list) \cup ToSet(snap)
  <2>1. list \in Seq(Thread) /\ snap \in Seq(Thread) /\ list' = list \o snap
    BY <1>1, <1>2, <1>3, <1>5 DEF DesktopTypeOK
  <2>2. snap # <<>>
    BY <1>2, <1>3, <1>5 DEF TimersOK
  <2> QED BY <2>1, <2>2, Joined
<1>7. DesktopTypeOK'
  <2>1. active \in 0..Len(list')
    BY <1>2, <1>6 DEF DesktopTypeOK
  <2>2. timers' \in Nat
    BY <1>1, <1>2 DEF DesktopTypeOK
  <2> QED BY <1>1, <1>2, <1>3, <1>6, <2>1, <2>2 DEF DesktopTypeOK, Message
<1>8. HiddenOK'
  <2>1. page = "hidden"
    BY <1>2, <1>3 DEF HiddenOK
  <2> QED BY <1>1, <2>1 DEF HiddenOK, Prepared
<1>9. GridOK'
  <2>1. active # 0 => active \in 1..Len(list)
    BY <1>2, <1>6 DEF DesktopTypeOK
  <2> QED BY <1>1, <1>2, <1>6, <2>1 DEF GridOK
<1>10. TimersOK'
  <2>1. list' # <<>>
    <3>1. Len(snap) # 0
      BY <1>2, <1>6 DEF DesktopTypeOK
    <3> QED BY <1>6, <3>1
  <2> QED BY <1>1, <1>2, <1>3, <2>1 DEF TimersOK
<1>11. OnceOK'
  BY <1>1, <1>2, OnceKept DEF Due, Wanted
<1>12. FoundOK'
  BY <1>1, <1>2, <1>3, <1>5 DEF FoundOK
<1>13. EntriesOK'
  <2>1. ~NotYet'
    BY <1>1, <1>3, <1>5 DEF NotYet
  <2>2. ASSUME NEW n \in DOMAIN window', window'[n].name = "wallet.update"
        PROVE  \E t \in announced :
                 /\ window'[n].threads = <<t>> /\ (t \in ToSet(list') => t \in ToSet(snap))
                 /\ \A m \in DOMAIN window' :
                      window'[m].name = "wallet.update" /\ window'[m].threads = <<t>> => m = n
    <3>1. PICK t \in announced :
            /\ window'[n].threads = <<t>> /\ (t \in ToSet(list) => t \in ToSet(snap))
            /\ \A m \in DOMAIN window' :
                 window'[m].name = "wallet.update" /\ window'[m].threads = <<t>> => m = n
      BY <1>1, <1>2, <1>3, <2>2, RestOK
    <3>2. t \in ToSet(list') => t \in ToSet(snap)
      BY <1>6, <3>1
    <3> QED BY <3>1, <3>2
  <2>3. ASSUME NEW j \in DOMAIN list', NEW k \in DOMAIN list', list'[j] = list'[k], j # k
        PROVE  list'[j] \in ToSet(snap) \cap announced
    <3>1. \A n \in 1..Len(list) : list[n] \in announced
      BY <1>2, <1>5, SetOfSeq DEF DesktopTypeOK
    <3>2. \A n \in 1..Len(snap) : snap[n] \in ToSet(snap)
      BY <1>2, SetOfSeq DEF DesktopTypeOK
    <3>3. CASE j \in 1..Len(list) /\ k \in 1..Len(list)
      BY <1>2, <1>6, <2>3, <3>3 DEF EntriesOK
    <3>4. CASE j \in 1..Len(list) /\ k \notin 1..Len(list)
      BY <1>6, <2>3, <3>1, <3>2, <3>4
    <3>5. CASE j \notin 1..Len(list) /\ k \in 1..Len(list)
      BY <1>6, <2>3, <3>1, <3>2, <3>5
    <3>6. CASE j \notin 1..Len(list) /\ k \notin 1..Len(list)
      <4>1. /\ j - Len(list) \in DOMAIN snap /\ k - Len(list) \in DOMAIN snap
            /\ snap[j - Len(list)] = snap[k - Len(list)]
        BY <1>6, <2>3, <3>6
      <4>2. j - Len(list) = k - Len(list)
        BY <1>2, <4>1 DEF FoundOK, IsInjective
      <4>3. j \in Nat /\ k \in Nat
        BY <1>6
      <4> QED BY <1>6, <2>3, <4>2, <4>3
    <3> QED BY <3>3, <3>4, <3>5, <3>6
  <2>4. \A t \in ToSet(list') : t \in announced \/ t \in ToSet(snap)
    BY <1>2, <1>6 DEF EntriesOK
  <2> QED BY <1>1, <2>1, <2>2, <2>3, <2>4 DEF EntriesOK
<1>14. ShownOK'
  BY <1>1, <1>2 DEF ShownOK, Due, Wanted
<1> QED BY <1>7, <1>8, <1>9, <1>10, <1>11, <1>12, <1>13, <1>14 DEF DeskOK, ListOK

\* the entry of a thread that was added
LEMMA HandleUpdateInv ==
  ASSUME DInv, HandleUpdate PROVE DeskOK'
<1>1. /\ Handled("wallet.update") /\ list' = list \o Head(window).threads /\ mainShown' = TRUE
      /\ timers' = timers + IF list = <<>> THEN 1 ELSE 0
      /\ UNCHANGED <<expanded, main, snap, pump, held, announced, page>>
      /\ UNCHANGED <<active, loads, grid, overtaken, clicks>>
      /\ UNCHANGED <<rows, loaded, updates, apc, job, raced>>
  BY DEF HandleUpdate, AddThreads, registryVars, tables, adders, history, goroutines, content
<1>2. /\ IInv /\ DesktopTypeOK /\ HiddenOK /\ GridOK /\ TimersOK
      /\ OnceOK /\ FoundOK /\ EntriesOK /\ ShownOK
  BY DEF DInv, DeskOK, ListOK
<1>3. /\ window' \in Seq(Message) /\ Len(window) \in Nat
      /\ DOMAIN window = 1..Len(window) /\ DOMAIN window' = 1..(Len(window) - 1)
      /\ 1 \in 1..Len(window) /\ Head(window) = window[1] /\ window[1].name = "wallet.update"
      /\ \A n \in 1..(Len(window) - 1) : n + 1 \in 1..Len(window) /\ window'[n] = window[n + 1]
  <2>1. window \in Seq(Message)
    BY <1>2 DEF DesktopTypeOK, Message
  <2> QED BY <1>1, <2>1, Takes
<1>4. /\ \A m, n \in 1..(Len(window) - 1) : m + 1 = n + 1 => m = n
      /\ \A n \in 1..(Len(window) - 1) : n + 1 # 1
  BY <1>3
<1>5. PICK t \in announced :
        /\ window[1].threads = <<t>> /\ (t \in ToSet(list) => t \in ToSet(snap))
        /\ \A m \in 1..Len(window) :
             window[m].name = "wallet.update" /\ window[m].threads = <<t>> => m = 1
  BY <1>2, <1>3 DEF EntriesOK
<1>6. /\ list' \in Seq(Thread) /\ Len(list) \in Nat /\ t \in Thread
      /\ DOMAIN list = 1..Len(list)
      /\ DOMAIN list' = 1..(Len(list) + 1) /\ Len(list') = Len(list) + 1
      /\ list'[Len(list) + 1] = t
      /\ \A n \in 1..Len(list) : list'[n] = list[n]
      /\ \A n \in 1..(Len(list) + 1) : n \in 1..Len(list) \/ n = Len(list) + 1
      /\ ToSet(list') = ToSet(list) \cup {t}
  <2>1. list \in Seq(Thread) /\ t \in Thread
    BY <1>2, <1>5 DEF DesktopTypeOK
  <2>2. list' = Append(list, t)
    <3>1. \A u \in Seq(Thread), e \in Thread : u \o <<e>> = Append(u, e)
      OBVIOUS
    <3> QED BY <1>1, <1>3, <1>5, <2>1, <3>1
  <2>3. \A n \in 1..(Len(list) + 1) : n \in 1..Len(list) \/ n = Len(list) + 1
    BY <2>1
  <2> QED BY <2>1, <2>2, <2>3, Appended, AddedToSet
<1>7. DesktopTypeOK'
  BY <1>1, <1>2, <1>3, <1>6 DEF DesktopTypeOK, Message
<1>8. HiddenOK'
  <2>1. page = "hidden"
    BY <1>2, <1>3 DEF HiddenOK
  <2> QED BY <1>1, <2>1 DEF HiddenOK, Prepared
<1>9. GridOK'
  <2>1. active # 0 => active \in 1..Len(list)
    BY <1>2, <1>6 DEF DesktopTypeOK
  <2> QED BY <1>1, <1>2, <1>6, <2>1 DEF GridOK
<1>10. TimersOK'
  <2>1. list' # <<>>
    BY <1>6
  <2> QED BY <1>1, <1>2, <1>3, <2>1 DEF TimersOK
<1>11. OnceOK'
  BY <1>1, <1>2, OnceKept DEF Due, Wanted
<1>12. FoundOK'
  BY <1>1, <1>2, <1>3, RestOK
<1>13. EntriesOK'
  <2>1. NotYet' => NotYet
    BY <1>1, <1>3 DEF NotYet
  <2>2. ASSUME NEW n \in DOMAIN window', window'[n].name = "wallet.update"
        PROVE  \E u \in announced :
                 /\ window'[n].threads = <<u>> /\ (u \in ToSet(list') => u \in ToSet(snap))
                 /\ \A m \in DOMAIN window' :
                      window'[m].name = "wallet.update" /\ window'[m].threads = <<u>> => m = n
    <3>1. PICK u \in announced :
            /\ window'[n].threads = <<u>> /\ window[n + 1].threads = <<u>>
            /\ u \in ToSet(list) => u \in ToSet(snap)
            /\ \A m \in DOMAIN window' :
                 window'[m].name = "wallet.update" /\ window'[m].threads = <<u>> => m = n
      BY <1>1, <1>2, <1>3, <2>2, RestOK
    <3>2. u # t
      BY <1>3, <1>4, <1>5, <2>2, <3>1
    <3> QED BY <1>3, <1>6, <3>1, <3>2
  <2>3. ASSUME NEW j \in DOMAIN list', NEW k \in DOMAIN list', list'[j] = list'[k], j # k
        PROVE  list'[j] \in ToSet(snap) \cap announced
    <3>1. \A n \in 1..Len(list) : list[n] \in ToSet(list)
      BY <1>2, SetOfSeq DEF DesktopTypeOK
    <3>2. CASE j \in 1..Len(list) /\ k \in 1..Len(list)
      BY <1>2, <1>6, <2>3, <3>2 DEF EntriesOK
    <3>3. CASE j \notin 1..Len(list) \/ k \notin 1..Len(list)
      BY <1>5, <1>6, <2>3, <3>1, <3>3
    <3> QED BY <3>2, <3>3
  <2>4. /\ \A u \in ToSet(list') : u \in announced \/ u \in ToSet(snap)
        /\ NotYet' => ToSet(list') \subseteq announced
    BY <1>2, <1>5, <1>6, <2>1 DEF EntriesOK
  <2> QED BY <1>1, <2>2, <2>3, <2>4 DEF EntriesOK
<1>14. ShownOK'
  BY <1>1, <1>2 DEF ShownOK, Due, Wanted
<1> QED BY <1>7, <1>8, <1>9, <1>10, <1>11, <1>12, <1>13, <1>14 DEF DeskOK, ListOK

\* a thread.load for entry k
LEMMA LoadThreadInv ==
  ASSUME DInv, NEW k \in 1..Len(list), LoadThread(k),
         timers' \in Nat, timers' > 0 => timers > 0, clicks' \in 0..MaxClicks,
         UNCHANGED <<expanded, main, snap, pump, held, announced, window, list, page, mainShown>>,
         UNCHANGED <<grid, overtaken, rows, loaded, updates, apc, job, raced>>
  PROVE  DeskOK'
<1>1. active' = k /\ loads' = Append(loads, list[k])
  BY DEF LoadThread
<1>2. /\ DesktopTypeOK /\ HiddenOK /\ GridOK /\ TimersOK
      /\ OnceOK /\ FoundOK /\ EntriesOK /\ ShownOK
  BY DEF DInv, DeskOK, ListOK
<1>3. /\ list[k] \in Thread /\ k \in 0..Len(list) /\ k # 0
      /\ loads' \in Seq(Thread) /\ loads' # <<>> /\ loads'[Len(loads')] = list[k]
  <2>1. list \in Seq(Thread) /\ loads \in Seq(Thread)
    BY <1>2 DEF DesktopTypeOK
  <2>2. list[k] \in Thread /\ k \in 0..Len(list) /\ k # 0
    BY <2>1
  <2> QED BY <1>1, <2>1, <2>2
<1>4. DesktopTypeOK'
  BY <1>1, <1>2, <1>3 DEF DesktopTypeOK
<1>5. HiddenOK'
  BY <1>2 DEF HiddenOK, Prepared
<1>6. GridOK'
  BY <1>1, <1>3 DEF GridOK
<1>7. TimersOK'
  BY <1>2 DEF TimersOK
<1>8. OnceOK'
  BY <1>2, OnceKept DEF Due, Wanted
<1>9. FoundOK'
  BY <1>2 DEF FoundOK
<1>10. EntriesOK'
  BY <1>2 DEF EntriesOK, NotYet
<1>11. ShownOK'
  BY <1>1, <1>2 DEF ShownOK, Due, Wanted
<1> QED BY <1>4, <1>5, <1>6, <1>7, <1>8, <1>9, <1>10, <1>11 DEF DeskOK, ListOK

LEMMA TimeoutInv ==
  ASSUME DInv, Timeout PROVE DeskOK'
<1>1. /\ timers > 0 /\ timers' = timers - 1 /\ LoadThread(1)
      /\ UNCHANGED <<expanded, main, snap, pump, held, announced, window, list, page, mainShown>>
      /\ UNCHANGED <<grid, overtaken, clicks, rows, loaded, updates, apc, job, raced>>
  BY DEF Timeout, registryVars, tables, adders, history, goroutines
<1>2. DesktopTypeOK /\ list # <<>>
  BY <1>1 DEF DInv, DeskOK, TimersOK
<1>3. timers' \in Nat /\ clicks' \in 0..MaxClicks
  BY <1>1, <1>2 DEF DesktopTypeOK
<1>4. 1 \in 1..Len(list)
  <2>1. list \in Seq(Thread)
    BY <1>2 DEF DesktopTypeOK
  <2> QED BY <1>2, <2>1
<1> QED BY <1>1, <1>3, <1>4, LoadThreadInv

LEMMA ClickInv ==
  ASSUME DInv, NEW k \in DOMAIN list, Click(k) PROVE DeskOK'
<1>1. /\ clicks < MaxClicks /\ clicks' = clicks + 1 /\ LoadThread(k)
      /\ UNCHANGED <<expanded, main, snap, pump, held, announced, window, list, timers, page, mainShown>>
      /\ UNCHANGED <<grid, overtaken, rows, loaded, updates, apc, job, raced>>
  BY DEF Click, registryVars, tables, adders, history, goroutines, entries
<1>2. DesktopTypeOK
  BY DEF DInv, DeskOK
<1>3. timers' \in Nat /\ clicks' \in 0..MaxClicks
  BY <1>1, <1>2, DesktopConstants DEF DesktopTypeOK
<1>4. k \in 1..Len(list)
  BY <1>2 DEF DesktopTypeOK
<1> QED BY <1>1, <1>3, <1>4, LoadThreadInv

LEMMA AnswerInv ==
  ASSUME DInv, NEW n \in DOMAIN loads, Answer(n) PROVE DeskOK'
<1>1. /\ grid' = loads[n] /\ loads' = RemoveAt(loads, n) /\ overtaken' = (overtaken \/ n # 1)
      /\ UNCHANGED <<expanded, main, snap, pump, held, announced, window, list, timers, page, mainShown>>
      /\ UNCHANGED <<active, clicks, rows, loaded, updates, apc, job, raced>>
  BY DEF Answer, registryVars, tables, adders, history, goroutines, entries
<1>2. /\ DesktopTypeOK /\ HiddenOK /\ GridOK /\ TimersOK
      /\ OnceOK /\ FoundOK /\ EntriesOK /\ ShownOK
  BY DEF DInv, DeskOK, ListOK
<1>3. loads \in Seq(Thread) /\ n \in 1..Len(loads) /\ loads # <<>>
  BY <1>2 DEF DesktopTypeOK
<1>4. loads' \in Seq(Thread) /\ loads[n] \in Thread
  BY <1>1, <1>3, RemovedFromSet
<1>5. DesktopTypeOK'
  BY <1>1, <1>2, <1>4 DEF DesktopTypeOK
<1>6. HiddenOK'
  BY <1>1, <1>2 DEF HiddenOK, Prepared
<1>7. GridOK'
  <2>1. active # 0 /\ (~overtaken => loads[Len(loads)] = list[active])
    BY <1>2, <1>3 DEF GridOK
  <2>2. ASSUME ~overtaken'
        PROVE  IF loads' # <<>> THEN loads'[Len(loads')] = list[active] ELSE grid' = list[active]
    <3>1. n = 1 /\ loads[Len(loads)] = list[active]
      BY <1>1, <2>1, <2>2
    <3>2. loads' = Tail(loads)
      <4>1. \A s \in Seq(Thread) : s # <<>> => SubSeq(s, 1, 0) \o SubSeq(s, 2, Len(s)) = Tail(s)
        OBVIOUS
      <4> QED BY <1>1, <1>3, <3>1, <4>1 DEF RemoveAt
    <3>3. CASE Len(loads) = 1
      <4>1. loads' = <<>>
        BY <1>3, <3>2, <3>3
      <4> QED BY <1>1, <3>1, <3>3, <4>1
    <3>4. CASE Len(loads) # 1
      <4>1. loads' # <<>> /\ loads'[Len(loads')] = loads[Len(loads)]
        <5>1. /\ Len(loads) \in Nat /\ Len(loads') = Len(loads) - 1
              /\ \A m \in 1..(Len(loads) - 1) : loads'[m] = loads[m + 1]
          BY <1>3, <3>2, Taken
        <5>2. Len(loads) - 1 \in 1..(Len(loads) - 1)
          BY <1>3, <3>4, <5>1
        <5>3. loads' # <<>>
          BY <5>1, <5>2
        <5> QED BY <5>1, <5>2, <5>3
      <4> QED BY <3>1, <4>1
    <3> QED BY <3>3, <3>4
  <2> QED BY <1>1, <2>1, <2>2 DEF GridOK
<1>8. TimersOK'
  BY <1>1, <1>2 DEF TimersOK
<1>9. OnceOK'
  BY <1>1, <1>2, OnceKept DEF Due, Wanted
<1>10. FoundOK'
  BY <1>1, <1>2 DEF FoundOK
<1>11. EntriesOK'
  BY <1>1, <1>2 DEF EntriesOK, NotYet
<1>12. ShownOK'
  BY <1>1, <1>2 DEF ShownOK, Due, Wanted
<1> QED BY <1>5, <1>6, <1>7, <1>8, <1>9, <1>10, <1>11, <1>12 DEF DeskOK, ListOK
-----------------------------------------------------------------------------
\* What an append found in the slice has a row.
LEMMA SliceInRows ==
  ASSUME IInv, PlacesOK, NEW a \in Adder
  PROVE  ToSet(slice[a]) \subseteq rows
<1>1. slice[a] \in Seq(Thread)
  BY DEF IInv, RegistryTypeOK
<1>2. ASSUME NEW t \in ToSet(slice[a]) PROVE t \in rows
  <2>1. PICK n \in 1..Len(slice[a]) : slice[a][n] = t
    BY <1>1, <1>2, SetOfSeq
  <2>2. Cell(t, n)
    BY <1>1, <2>1 DEF Cell
  <2> QED BY <2>2 DEF PlacesOK
<1> QED BY <1>2

\* A step of an accepting goroutine leaves the window alone.
LEMMA CallsKeep ==
  ASSUME DInv, UNCHANGED <<goroutines, window, entries, content, clicks>>, OnceOK', ShownOK'
  PROVE  DeskOK'
<1>1. /\ UNCHANGED <<expanded, main, snap, pump, held, announced, window>>
      /\ UNCHANGED <<list, timers, page, mainShown, active, loads, grid, overtaken, clicks>>
  BY DEF goroutines, entries, content
<1>2. /\ DesktopTypeOK /\ HiddenOK /\ GridOK /\ TimersOK /\ FoundOK /\ EntriesOK
  BY DEF DInv, DeskOK, ListOK
<1>3. DesktopTypeOK'
  BY <1>1, <1>2 DEF DesktopTypeOK
<1>4. HiddenOK'
  BY <1>1, <1>2 DEF HiddenOK, Prepared
<1>5. GridOK'
  BY <1>1, <1>2, GridKept
<1>6. TimersOK'
  BY <1>1, <1>2 DEF TimersOK
<1>7. FoundOK'
  BY <1>1, <1>2 DEF FoundOK
<1>8. EntriesOK'
  BY <1>1, <1>2 DEF EntriesOK, NotYet
<1> QED BY <1>3, <1>4, <1>5, <1>6, <1>7, <1>8 DEF DeskOK, ListOK

LEMMA AdderKeeps ==
  ASSUME DInv, NEW a \in Adder, Calls(AdderStep(a))
  PROVE  DeskOK'
<1>1. AdderStep(a) /\ UNCHANGED <<goroutines, window, entries, content, clicks>>
  BY DEF Calls
<1>2. UNCHANGED <<snap, pump, held, announced>>
  BY <1>1 DEF goroutines
<1>3. /\ IInv /\ RegistryTypeOK /\ JobsOK /\ PlacesOK /\ OnceOK /\ ShownOK /\ ~broken
      /\ apc \in [Adder -> AdderLabel] /\ job \in [Adder -> Invite \cup Fresh \cup {Nothing}]
  BY DEF DInv, DeskOK, ListOK, IInv, RegistryTypeOK
<1>4. ASSUME UNCHANGED <<rows, loaded, updates, raced>>,
             \A b \in Adder : Due(b)' => Due(b) /\ Wanted(b)' = Wanted(b),
             \A b \in Adder : Due(b)' /\ apc'[b] \in {"update", "join"} => apc[b] \in {"update", "join"}
      PROVE  DeskOK'
  <2>1. OnceOK'
    BY <1>2, <1>3, <1>4, OnceKept
  <2>2. ShownOK'
    BY <1>2, <1>3, <1>4 DEF ShownOK
  <2> QED BY <1>1, <2>1, <2>2, CallsKeep
<1>5. CASE Check(a) \/ Load(a) \/ LoadFails(a) \/ Append1(a) \/ JoinFails(a) \/ DeleteInvite(a)
  <2>1. UNCHANGED <<rows, loaded, updates, raced>>
    BY <1>5 DEF Check, Load, LoadFails, Append1, JoinFails, DeleteInvite, tables, history
  <2>2. \E label \in {"ignore", "addRow", "append", "write", "idle"} :
          /\ apc' = [apc EXCEPT ![a] = label] /\ (label # "idle" => job' = job)
          /\ \A b \in Adder \ {a} : job'[b] = job[b]
          /\ label \in {"append", "write"} => apc[a] \in {"load", "append"}
    BY <1>3, <1>5
      DEF Check, Load, LoadFails, Append1, JoinFails, DeleteInvite, GotoA, Returns
  <2>3. \A b \in Adder : Due(b)' => Due(b) /\ Wanted(b)' = Wanted(b)
    BY <1>3, <2>2 DEF Due, Wanted
  <2>4. \A b \in Adder : apc'[b] \in {"update", "join"} => apc[b] \in {"update", "join"}
    BY <1>3, <2>2
  <2> QED BY <1>4, <2>1, <2>3, <2>4
<1>6. CASE Join(a)
  <2>1. UNCHANGED <<rows, loaded, updates, raced, job>>
    BY <1>6 DEF Join, tables
  <2>2. /\ \A b \in Adder : Due(b)' => Due(b) /\ Wanted(b)' = Wanted(b)
        /\ \A b \in Adder : apc'[b] \in {"update", "join"} => apc[b] \in {"update", "join"}
    BY <1>3, <1>6 DEF Join, GotoA, Due, Wanted
  <2> QED BY <1>4, <2>1, <2>2
<1>7. CASE AddRow(a)
  <2>1. UNCHANGED <<loaded, updates, raced>> /\ rows \subseteq rows'
    BY <1>7 DEF AddRow, history
  <2>2. CASE /\ Wanted(a) \notin rows /\ UNCHANGED job /\ apc' = [apc EXCEPT ![a] = "load"]
    <3>1. /\ \A b \in Adder : Wanted(b)' = Wanted(b)
          /\ \A b \in Adder : Due(b)' => b = a \/ Due(b)
          /\ \A b \in Adder : Due(b)' /\ apc'[b] \in {"update", "join"} =>
               Due(b) /\ apc[b] \in {"update", "join"}
      BY <1>3, <2>2 DEF Due, Wanted
    <3>2. Wanted(a) # Nothing
      <4>1. Wanted(a) \in Thread
        BY <1>3, <1>7, WantedType DEF AddRow, JobsOK
      <4> QED BY <4>1, RegistryConstants
    <3>3. Wanted(a) \notin announced /\ Wanted(a) # held /\ ~Queued(Wanted(a))
      BY <1>3, <2>2, <3>2 DEF OnceOK, Queued
    <3>4. \A t : Queued(t)' = Queued(t)
      BY <2>1 DEF Queued
    <3>5. \A b \in Adder : Due(b)' =>
            Wanted(b) \notin announced /\ Wanted(b) # held /\ ~Queued(Wanted(b))
      BY <1>3, <3>1, <3>3 DEF OnceOK
    <3>6. OnceOK'
      BY <1>2, <1>3, <2>1, <3>1, <3>4, <3>5 DEF OnceOK
    <3>7. ShownOK'
      BY <1>2, <1>3, <2>1, <3>1 DEF ShownOK
    <3> QED BY <1>1, <3>6, <3>7, CallsKeep
  <2>3. CASE UNCHANGED rows /\ apc' = [apc EXCEPT ![a] = "idle"] /\ job' = [job EXCEPT ![a] = Nothing]
    <3>1. /\ \A b \in Adder : Due(b)' => Due(b) /\ Wanted(b)' = Wanted(b)
          /\ \A b \in Adder : apc'[b] \in {"update", "join"} => apc[b] \in {"update", "join"}
      BY <1>3, <2>3 DEF Due, Wanted
    <3> QED BY <1>4, <2>1, <2>3, <3>1
  <2> QED BY <1>7, <2>2, <2>3 DEF AddRow, GotoA, Returns
<1>8. CASE Append2(a)
  <2>1. /\ apc[a] = "write" /\ apc' = [apc EXCEPT ![a] = IF job[a] \in Fresh THEN "join" ELSE "update"]
        /\ UNCHANGED <<rows, updates, job>>
    BY <1>3, <1>8 DEF Append2, GotoA, tables
  <2>a. ~raced' => ~raced
    BY <1>3, <1>8 DEF Append2, RegistryTypeOK
  <2>2. \A b \in Adder : Due(b)' => Due(b) /\ Wanted(b)' = Wanted(b)
    BY <1>3, <2>1 DEF Due, Wanted
  <2>3. OnceOK'
    BY <1>2, <1>3, <2>1, <2>2, OnceKept
  <2>4. ShownOK'
    <3> SUFFICES ASSUME ~raced'
                 PROVE  /\ ToSet(snap) \cup announced \subseteq ToSet(loaded')
                        /\ held # Nothing => held \in ToSet(loaded')
                        /\ \A n \in DOMAIN updates : updates[n].id \in ToSet(loaded')
                        /\ \A b \in Adder : Due(b)' /\ apc'[b] \in {"update", "join"} =>
                             Wanted(b)' \in ToSet(loaded')
      BY <1>2, <2>1 DEF ShownOK
    <3>0. ~raced
      BY <2>a
    <3>1. ~broken'
      BY <1>3, <1>8, SliceInRows DEF Append2
    <3>2. ToSet(loaded') = ToSet(loaded) \cup {Wanted(a)}
      BY <1>3, <1>8, <3>1, Written, AddedToSet DEF RegistryTypeOK
    <3>3. \A b \in Adder : apc'[b] \in {"update", "join"} => b = a \/ apc[b] \in {"update", "join"}
      BY <1>3, <2>1
    <3> QED BY <1>3, <2>1, <2>2, <3>0, <3>2, <3>3 DEF ShownOK
  <2> QED BY <1>1, <2>3, <2>4, CallsKeep
<1>9. CASE AnnounceAdded(a)
  <2> DEFINE new == [type |-> "added", id |-> Wanted(a)]
  <2>1. /\ apc[a] = "update" /\ updates' = Append(updates, new)
        /\ UNCHANGED <<rows, loaded, raced>>
        /\ \/ job[a] \in Fresh /\ apc' = [apc EXCEPT ![a] = "idle"]
              /\ job' = [job EXCEPT ![a] = Nothing]
           \/ job[a] \notin Fresh /\ apc' = [apc EXCEPT ![a] = "join"] /\ job' = job
    BY <1>9 DEF AnnounceAdded, GotoA, Returns, tables, history
  <2>2. Wanted(a) \in Thread /\ Due(a)
    BY <1>3, <2>1, WantedType DEF JobsOK, Due
  <2>3. /\ ~Due(a)'
        /\ \A b \in Adder : b # a => Due(b)' = Due(b) /\ Wanted(b)' = Wanted(b) /\ apc'[b] = apc[b]
    BY <1>3, <2>1 DEF Due, Wanted
  <2>4. /\ Len(updates) \in Nat /\ DOMAIN updates = 1..Len(updates)
        /\ DOMAIN updates' = 1..(Len(updates) + 1)
        /\ updates'[Len(updates) + 1].id = Wanted(a)
        /\ \A n \in 1..Len(updates) : updates'[n] = updates[n]
        /\ \A n \in 1..(Len(updates) + 1) : n \in 1..Len(updates) \/ n = Len(updates) + 1
    <3> DEFINE Update == [type : {"added", "removed"}, id : Thread]
    <3>1. updates \in Seq(Update) /\ new \in Update /\ new.id = Wanted(a)
      BY <1>3, <2>2 DEF RegistryTypeOK
    <3>2. \A l \in Nat : \A n \in 1..(l + 1) : n \in 1..l \/ n = l + 1
      OBVIOUS
    <3> HIDE DEF Update, new
    <3> QED BY <2>1, <3>1, <3>2, Appended
  <2>5. /\ Wanted(a) \in rows /\ Wanted(a) \notin announced /\ Wanted(a) # held
        /\ \A n \in 1..Len(updates) : updates[n].id # Wanted(a)
        /\ \A b \in Adder : Due(b) /\ b # a => Wanted(b) # Wanted(a)
    BY <1>3, <2>2, <2>4 DEF OnceOK, PlacesOK, Queued
  <2>6. \A b \in Adder : Due(b)' => ~Queued(Wanted(b))'
    <3> SUFFICES ASSUME NEW b \in Adder, Due(b)', NEW n \in 1..(Len(updates) + 1)
                 PROVE  updates'[n].id # Wanted(b)'
      BY <2>4 DEF Queued
    <3>1. b # a /\ Due(b) /\ Wanted(b)' = Wanted(b)
      BY <2>3
    <3>2. ~Queued(Wanted(b))
      BY <1>3, <3>1 DEF OnceOK
    <3> QED BY <2>4, <2>5, <3>1, <3>2 DEF Queued
  <2>7. \A m, n \in 1..(Len(updates) + 1) : updates'[m].id = updates'[n].id => m = n
    BY <1>3, <2>4, <2>5 DEF OnceOK
  <2>8. \A n \in 1..(Len(updates) + 1) :
          /\ updates'[n].id \in rows /\ updates'[n].id \notin announced
          /\ updates'[n].id # held
    BY <1>3, <2>4, <2>5 DEF OnceOK
  <2>9. OnceOK'
    BY <1>2, <1>3, <2>1, <2>3, <2>4, <2>6, <2>7, <2>8 DEF OnceOK
  <2>10. ShownOK'
    <3>1. ~raced => Wanted(a) \in ToSet(loaded)
      BY <1>3, <2>1, <2>2 DEF ShownOK
    <3> QED BY <1>2, <1>3, <2>1, <2>3, <2>4, <3>1 DEF ShownOK
  <2> QED BY <1>1, <2>9, <2>10, CallsKeep
<1> QED BY <1>1, <1>5, <1>6, <1>7, <1>8, <1>9 DEF AdderStep

LEMMA AcceptKeeps ==
  ASSUME DInv, NEW a \in Adder, NEW i \in invites, Calls(Accept(a, i))
  PROVE  DeskOK'
<1>1. Accept(a, i) /\ UNCHANGED <<goroutines, window, entries, content, clicks>>
  BY DEF Calls
<1>2. OnceOK /\ ShownOK /\ UNCHANGED <<snap, pump, held, announced, rows, loaded, updates, raced>>
  BY <1>1 DEF DInv, DeskOK, ListOK, goroutines, Accept, tables, history
<1>3. apc \in [Adder -> AdderLabel] /\ job \in [Adder -> Invite \cup Fresh \cup {Nothing}]
  BY DEF DInv, IInv, RegistryTypeOK
<1>4. /\ \A b \in Adder : Due(b)' => Due(b) /\ Wanted(b)' = Wanted(b)
      /\ \A b \in Adder : apc'[b] \in {"update", "join"} => apc[b] \in {"update", "join"}
  BY <1>1, <1>3 DEF Accept, GotoA, Due, Wanted
<1>5. OnceOK' /\ ShownOK'
  BY <1>2, <1>4, OnceKept DEF ShownOK
<1> QED BY <1>1, <1>5, CallsKeep

-----------------------------------------------------------------------------
(* The cells of the slice *)

LEMMA PlacesKept ==
  ASSUME PlacesOK, rows \subseteq rows',
         \A t, n : Cell(t, n)' => Cell(t, n),
         \A b \in Adder : Due(b)' => Due(b) /\ Wanted(b)' = Wanted(b),
         \A b \in Adder : apc'[b] \in {"load", "append", "write"} =>
           apc[b] \in {"load", "append", "write"}
  PROVE  PlacesOK'
BY DEF PlacesOK

LEMMA AdderPlaces ==
  ASSUME IInv, PlacesOK, NEW a \in Adder, AdderStep(a)
  PROVE  PlacesOK'
<1>1. /\ RegistryTypeOK /\ JobsOK
      /\ apc \in [Adder -> AdderLabel] /\ job \in [Adder -> Invite \cup Fresh \cup {Nothing}]
      /\ slice \in [Adder -> Seq(Thread)] /\ loaded \in Seq(Thread)
  BY DEF IInv, RegistryTypeOK
<1>2. ASSUME UNCHANGED loaded, \A b \in Adder : slice'[b] = slice[b] \/ slice'[b] = loaded
      PROVE  \A t, n : Cell(t, n)' => Cell(t, n)
  BY <1>2 DEF Cell
<1>3. CASE \/ Check(a) \/ Load(a) \/ LoadFails(a) \/ Append1(a) \/ AnnounceAdded(a)
           \/ Join(a) \/ JoinFails(a) \/ DeleteInvite(a)
  <2>1. rows \subseteq rows' /\ UNCHANGED loaded
    BY <1>3 DEF Check, Load, LoadFails, Append1, AnnounceAdded, Join, JoinFails, DeleteInvite,
                tables
  <2>2. \A b \in Adder : slice'[b] = slice[b] \/ slice'[b] = loaded
    BY <1>1, <1>3
      DEF Check, Load, LoadFails, Append1, AnnounceAdded, Join, JoinFails, DeleteInvite, Returns
  <2>3. \E label \in {"ignore", "addRow", "append", "write", "join", "update", "idle"} :
          /\ apc' = [apc EXCEPT ![a] = label] /\ (label # "idle" => job' = job)
          /\ \A b \in Adder \ {a} : job'[b] = job[b]
          /\ label \in {"append", "write"} => apc[a] \in {"load", "append"}
          /\ label = "update" => apc[a] = "join" /\ job[a] \in Fresh
          /\ label = "join" => job[a] \notin Fresh
    BY <1>1, <1>3
      DEF Check, Load, LoadFails, Append1, AnnounceAdded, Join, JoinFails, DeleteInvite,
          GotoA, Returns
  <2>4. /\ \A b \in Adder : Due(b)' => Due(b) /\ Wanted(b)' = Wanted(b)
        /\ \A b \in Adder : apc'[b] \in {"load", "append", "write"} =>
             apc[b] \in {"load", "append", "write"}
    BY <1>1, <2>3 DEF Due, Wanted
  <2> QED BY <1>2, <2>1, <2>2, <2>4, PlacesKept
<1>4. CASE AddRow(a)
  <2>1. UNCHANGED <<loaded, slice>> /\ rows \subseteq rows'
    BY <1>4 DEF AddRow, Returns
  <2>2. \A t, n : Cell(t, n)' <=> Cell(t, n)
    BY <2>1 DEF Cell
  <2>3. CASE /\ Wanted(a) \notin rows /\ rows' = rows \cup {Wanted(a)}
             /\ UNCHANGED job /\ apc' = [apc EXCEPT ![a] = "load"]
    <3>1. /\ \A b \in Adder : Wanted(b)' = Wanted(b)
          /\ \A b \in Adder : b # a => (Due(b)' <=> Due(b)) /\ apc'[b] = apc[b]
      BY <1>1, <2>3 DEF Due, Wanted
    <3>2. \A b \in Adder : b # a /\ Due(b) => Wanted(b) # Wanted(a)
      BY <2>3 DEF PlacesOK
    <3>3. \A n : ~Cell(Wanted(a), n)
      BY <2>3 DEF PlacesOK
    <3> QED BY <2>1, <2>2, <2>3, <3>1, <3>2, <3>3 DEF PlacesOK
  <2>4. CASE UNCHANGED rows /\ apc' = [apc EXCEPT ![a] = "idle"] /\ job' = [job EXCEPT ![a] = Nothing]
    <3>1. /\ \A b \in Adder : Due(b)' => Due(b) /\ Wanted(b)' = Wanted(b)
          /\ \A b \in Adder : apc'[b] \in {"load", "append", "write"} =>
               apc[b] \in {"load", "append", "write"}
      BY <1>1, <2>4 DEF Due, Wanted
    <3> QED BY <2>1, <2>2, <3>1, PlacesKept
  <2> QED BY <1>4, <2>3, <2>4 DEF AddRow, GotoA, Returns
<1>5. CASE Append2(a)
  <2>1. /\ apc[a] = "write" /\ apc' = [apc EXCEPT ![a] = IF job[a] \in Fresh THEN "join" ELSE "update"]
        /\ UNCHANGED <<rows, job>> /\ slice' = [slice EXCEPT ![a] = <<>>]
        /\ Wanted(a) \in Thread /\ Due(a)
    BY <1>1, <1>5, WantedType DEF Append2, GotoA, tables, JobsOK, Due
  <2>2. PICK k \in Nat : k = Len(slice[a])
    BY <1>1
  <2>3. \A n \in DOMAIN loaded' : Cell(loaded'[n], n) \/ (loaded'[n] = Wanted(a) /\ n = k + 1)
    <3>1. ASSUME NEW u \in Seq(Thread), Len(u) = k, loaded' = Append(u, Wanted(a)),
                 \A n \in 1..k : Cell(u[n], n)
          PROVE  \A n \in DOMAIN loaded' : Cell(loaded'[n], n) \/ (loaded'[n] = Wanted(a) /\ n = k + 1)
      <4>1. /\ DOMAIN loaded' = 1..(k + 1) /\ loaded'[k + 1] = Wanted(a)
            /\ \A n \in 1..k : loaded'[n] = u[n]
        BY <2>1, <3>1, Appended
      <4>2. \A n \in 1..(k + 1) : n \in 1..k \/ n = k + 1
        BY <2>2
      <4> QED BY <3>1, <4>1, <4>2
    <3>2. CASE loaded' = Append(slice[a], Wanted(a))
      <4>1. slice[a] \in Seq(Thread) /\ \A n \in 1..k : Cell(slice[a][n], n)
        BY <1>1, <2>2 DEF Cell
      <4> QED BY <2>2, <3>1, <3>2, <4>1
    <3>3. CASE loaded' = Append(Overlaid(slice[a], loaded), Wanted(a))
      <4>1. /\ Overlaid(slice[a], loaded) \in Seq(Thread) /\ Len(Overlaid(slice[a], loaded)) = k
            /\ \A n \in 1..k : \/ Overlaid(slice[a], loaded)[n] = slice[a][n]
                               \/ n \in 1..Len(loaded) /\ Overlaid(slice[a], loaded)[n] = loaded[n]
        BY <1>1, <2>2, OverlaidCells
      <4>2. \A n \in 1..k : Cell(Overlaid(slice[a], loaded)[n], n)
        <5>1. DOMAIN loaded = 1..Len(loaded) /\ DOMAIN slice[a] = 1..k
          BY <1>1, <2>2
        <5> QED BY <4>1, <5>1 DEF Cell
      <4> QED BY <3>1, <3>3, <4>1, <4>2
    <3>4. CASE loaded' = loaded
      BY <3>4 DEF Cell
    <3> QED BY <1>5, <3>2, <3>3, <3>4 DEF Append2
  <2>4. \A t, n : Cell(t, n)' => Cell(t, n) \/ (t = Wanted(a) /\ n = k + 1)
    <3>1. \A b \in Adder : slice'[b] = IF b = a THEN <<>> ELSE slice[b]
      BY <1>1, <2>1
    <3>2. DOMAIN <<>> = {}
      OBVIOUS
    <3> QED BY <2>3, <3>1, <3>2 DEF Cell
  <2>5. /\ Wanted(a) \in rows /\ \A n : ~Cell(Wanted(a), n)
        /\ \A b \in Adder : Due(b) /\ b # a => Wanted(b) # Wanted(a)
    BY <2>1 DEF PlacesOK
  <2>6. /\ \A b \in Adder : Wanted(b)' = Wanted(b) /\ (Due(b)' => Due(b))
        /\ \A b \in Adder : apc'[b] \in {"load", "append", "write"} =>
             b # a /\ apc[b] \in {"load", "append", "write"}
    BY <1>1, <2>1 DEF Due, Wanted
  <2>7. \A t, n : Cell(t, n)' => t \in rows
    BY <2>4, <2>5 DEF PlacesOK
  <2>8. \A t, m, n : Cell(t, m)' /\ Cell(t, n)' => m = n
    BY <2>4, <2>5 DEF PlacesOK
  <2>9. \A b \in Adder : Due(b)' /\ apc'[b] \in {"load", "append", "write"} =>
          \A n : ~Cell(Wanted(b), n)'
    <3> SUFFICES ASSUME NEW b \in Adder, Due(b)', apc'[b] \in {"load", "append", "write"}, NEW n,
                        Cell(Wanted(b), n)'
                 PROVE  FALSE
      OBVIOUS
    <3>1. b # a /\ Due(b) /\ apc[b] \in {"load", "append", "write"} /\ Wanted(b)' = Wanted(b)
      BY <2>6
    <3>2. Wanted(b) # Wanted(a) /\ ~Cell(Wanted(b), n)
      BY <2>5, <3>1 DEF PlacesOK
    <3> QED BY <2>4, <3>1, <3>2
  <2> QED BY <2>1, <2>6, <2>7, <2>8, <2>9 DEF PlacesOK
<1> QED BY <1>3, <1>4, <1>5 DEF AdderStep

LEMMA DesktopStart == DesktopInit => DInv
<1> SUFFICES ASSUME DesktopInit PROVE DInv
  OBVIOUS
<1>1. /\ RegistryStart /\ expanded = FALSE /\ main = "snapshot" /\ snap = <<>>
      /\ pump = "take" /\ held = Nothing /\ announced = {} /\ window = <<>> /\ list = <<>>
      /\ timers = 0 /\ page = "logo" /\ mainShown = FALSE
      /\ active = 0 /\ loads = <<>> /\ grid = Nothing /\ overtaken = FALSE /\ clicks = 0
  BY DEF DesktopInit
<1>2. loaded \in Seq(Thread) /\ DOMAIN loaded = 1..Len(loaded)
  BY <1>1, RegistryConstants DEF RegistryStart
<1>3. /\ updates \in Seq([type : {"added", "removed"}, id : Thread]) /\ Len(updates) <= UpdatesSize
      /\ \A n \in DOMAIN updates : updates[n].id \in ToSet(loaded) /\ n = 1
  <2>1. CASE updates = <<>>
    BY <2>1, RegistryConstants
  <2>2. CASE loaded = <<Account>> /\ updates = <<[type |-> "added", id |-> Account]>>
    <3>1. Account \in Thread /\ Account \in ToSet(loaded)
      BY <1>2, <2>2 DEF ToSet
    <3> DEFINE new == [type |-> "added", id |-> Account]
    <3>2. new \in [type : {"added", "removed"}, id : Thread] /\ new.id = Account
      BY <3>1
    <3> HIDE DEF new
    <3>3. updates = <<new>>
      BY <2>2 DEF new
    <3> QED BY <3>1, <3>2, <3>3, RegistryConstants
  <2> QED BY <2>1, <2>2 DEF DesktopInit
<1>4. IInv /\ ~clashed /\ ~broken
  BY <1>1, <1>3, StartInv DEF RegistryStart
<1>a. PlacesOK
  <2>1. /\ rows = ToSet(loaded) /\ IsInjective(loaded)
        /\ \A a \in Adder : slice[a] = <<>> /\ ~Due(a)
    BY <1>1, RegistryConstants DEF RegistryStart, Due
  <2>2. \A t, n : Cell(t, n) => n \in 1..Len(loaded) /\ loaded[n] = t
    BY <1>2, <2>1 DEF Cell
  <2>3. \A n \in 1..Len(loaded) : loaded[n] \in ToSet(loaded)
    BY <1>2, SetOfSeq
  <2> QED BY <1>2, <2>1, <2>2, <2>3 DEF PlacesOK, IsInjective
<1>5. DesktopTypeOK
  <2>1. /\ snap \in Seq(Thread) /\ list \in Seq(Thread) /\ loads \in Seq(Thread)
        /\ window \in Seq(Message) /\ active \in 0..Len(list) /\ clicks \in 0..MaxClicks
    BY <1>1, DesktopConstants
  <2> QED BY <1>1, <2>1 DEF DesktopTypeOK, Message
<1>6. HiddenOK
  BY <1>1 DEF HiddenOK, Prepared
<1>7. GridOK /\ TimersOK
  BY <1>1 DEF GridOK, TimersOK
<1>8. OnceOK
  <2>1. \A a \in Adder : ~Due(a)
    BY <1>1 DEF RegistryStart, Due
  <2>2. ToSet(loaded) \subseteq Thread /\ Nothing \notin Thread /\ rows = ToSet(loaded)
    BY <1>1, <1>2, SetOfSeq, RegistryConstants DEF RegistryStart
  <2> QED BY <1>1, <1>3, <2>1, <2>2 DEF OnceOK
<1>9. FoundOK /\ EntriesOK /\ ShownOK
  <2>1. ToSet(<<>>) = {} /\ IsInjective(<<>>)
    BY DEF ToSet, IsInjective
  <2>2. \A a \in Adder : ~Due(a)
    BY <1>1 DEF RegistryStart, Due
  <2> QED BY <1>1, <1>3, <2>1, <2>2 DEF FoundOK, EntriesOK, ShownOK
<1> QED BY <1>4, <1>5, <1>6, <1>7, <1>8, <1>9, <1>a DEF DInv, DeskOK, ListOK

\* for the registry a step of the desktop is one of its own or none
LEMMA DesktopOfRegistry ==
  ASSUME DInv, DesktopNext
  PROVE  IInv' /\ ~clashed' /\ ~broken' /\ PlacesOK'
<1>1. /\ ~broken /\ IInv /\ ~clashed /\ PlacesOK
      /\ apc \in [Adder -> AdderLabel] /\ job \in [Adder -> Invite \cup Fresh \cup {Nothing}]
  BY DEF DInv, IInv, RegistryTypeOK
<1>2. CASE UNCHANGED registryVars
  <2>1. UNCHANGED <<rows, loaded, apc, job, slice, clashed, broken>>
    BY <1>2 DEF registryVars, tables, adders, history
  <2>2. PlacesOK'
    BY <1>1, <2>1, PlacesKept DEF Cell, Due, Wanted
  <2> QED BY <1>1, <1>2, <2>1, <2>2, StutterInv
<1>3. CASE PumpTake
  <2>1. UNCHANGED <<rows, loaded, apc, job, slice, clashed, broken>>
    BY <1>3 DEF PumpTake, tables, adders, history
  <2>2. PlacesOK'
    BY <1>1, <2>1, PlacesKept DEF Cell, Due, Wanted
  <2> QED BY <1>1, <1>3, <2>1, <2>2, TakeUpdateInv DEF PumpTake, TakeUpdate
<1>4. ASSUME NEW a \in Adder, Calls(AdderStep(a))
      PROVE  IInv' /\ ~clashed' /\ ~broken' /\ PlacesOK'
  <2>1. AdderStep(a)
    BY <1>4 DEF Calls
  <2>2. RegistryNext
    BY <1>1, <2>1 DEF RegistryNext, CallsNext
  <2>3. clashed' = clashed
    BY <2>1
      DEF AdderStep, Check, AddRow, Load, LoadFails, Append1, Append2, AnnounceAdded, Join,
       JoinFails, DeleteInvite, history
  <2>4. ToSet(slice[a]) \subseteq rows
    BY <1>1, SliceInRows
  <2>5. broken' = broken
    BY <2>1, <2>4
      DEF AdderStep, Check, AddRow, Load, LoadFails, Append1, Append2, AnnounceAdded, Join,
       JoinFails, DeleteInvite
  <2> QED BY <1>1, <2>1, <2>2, <2>3, <2>5, NextInv, AdderPlaces
<1>5. ASSUME NEW a \in Adder, NEW i \in invites, Calls(Accept(a, i))
      PROVE  IInv' /\ ~clashed' /\ ~broken' /\ PlacesOK'
  <2>1. Accept(a, i)
    BY <1>5 DEF Calls
  <2>2. UNCHANGED <<rows, loaded, slice, clashed, broken>>
    BY <2>1 DEF Accept, tables, history
  <2>3. /\ \A b \in Adder : Due(b)' => Due(b) /\ Wanted(b)' = Wanted(b)
        /\ \A b \in Adder : apc'[b] \in {"load", "append", "write"} =>
             apc[b] \in {"load", "append", "write"}
    BY <1>1, <2>1 DEF Accept, GotoA, Due, Wanted
  <2>4. PlacesOK'
    BY <1>1, <2>2, <2>3, PlacesKept DEF Cell
  <2> QED BY <1>1, <2>1, <2>2, <2>4, AcceptInv
<1>6. MainStep \/ (PumpStep /\ ~PumpTake) \/ Handle \/ Timeout => UNCHANGED registryVars
  BY DEF MainStep, Snapshot, MainPreReady, MainExpand, MainReady, MainSetup, PumpStep,
     PumpPreReady, PumpExpand, PumpSend, Handle, HandlePreReady, HandleReady, HandleUpdate,
     HandleSetup, Timeout
<1>7. (\E n \in DOMAIN loads : Answer(n)) \/ (\E k \in DOMAIN list : Click(k)) => UNCHANGED registryVars
  BY DEF Answer, Click
<1> QED BY <1>2, <1>3, <1>4, <1>5, <1>6, <1>7 DEF DesktopNext, SystemStep, PumpStep

LEMMA DesktopStep == DInv /\ [DesktopNext]_desktopVars => DInv'
<1>1. ASSUME DInv, DesktopNext PROVE DInv'
  <2>2. IInv' /\ ~clashed' /\ ~broken' /\ PlacesOK'
    BY <1>1, DesktopOfRegistry
  <2>3. CASE MainStep
    BY <1>1, <2>2, <2>3, SnapshotInv, PreReadyInv, ExpandInv, MainReadyInv, MainSetupInv
       DEF MainStep, DInv
  <2>4. CASE PumpStep
    BY <1>1, <2>2, <2>4, PumpTakeInv, PreReadyInv, ExpandInv, PumpSendInv
      DEF PumpStep, DInv
  <2>5. CASE Handle
    BY <1>1, <2>2, <2>5, HandlePreReadyInv, HandleReadyInv, HandleUpdateInv,
         HandleSetupInv
       DEF Handle, DInv
  <2>6. CASE Timeout
    BY <1>1, <2>2, <2>6, TimeoutInv DEF DInv
  <2>7. CASE \E n \in DOMAIN loads : Answer(n)
    BY <1>1, <2>2, <2>7, AnswerInv DEF DInv
  <2>8. CASE \E a \in Adder : Calls(AdderStep(a))
    BY <1>1, <2>2, <2>8, AdderKeeps DEF DInv
  <2>9. CASE \E a \in Adder, i \in invites : Calls(Accept(a, i))
    BY <1>1, <2>2, <2>9, AcceptKeeps DEF DInv
  <2>10. CASE \E k \in DOMAIN list : Click(k)
    BY <1>1, <2>2, <2>10, ClickInv DEF DInv
  <2> QED BY <1>1, <2>3, <2>4, <2>5, <2>6, <2>7, <2>8, <2>9, <2>10 DEF DesktopNext, SystemStep
<1>2. ASSUME DInv, UNCHANGED desktopVars PROVE DInv'
  <2>1. /\ UNCHANGED <<registryVars, goroutines, window, entries, content, clicks>>
        /\ UNCHANGED <<snap, pump, held, announced>>
        /\ UNCHANGED <<rows, loaded, updates, apc, job, slice, clashed, raced, broken>>
    BY <1>2 DEF desktopVars, goroutines, registryVars, tables, adders, history
  <2>2. IInv' /\ ~clashed' /\ ~broken'
    BY <1>2, <2>1, StutterInv DEF DInv
  <2>3. PlacesOK'
    BY <1>2, <2>1, PlacesKept DEF DInv, Cell, Due, Wanted
  <2>4. OnceOK' /\ ShownOK'
    BY <1>2, <2>1, OnceKept DEF DInv, DeskOK, ListOK, ShownOK, Due, Wanted
  <2> QED BY <1>2, <2>1, <2>2, <2>3, <2>4, CallsKeep DEF DInv
<1> QED BY <1>1, <1>2

LEMMA DesktopInvariant == DesktopSpec => []DInv
BY DesktopStart, DesktopStep, PTL DEF DesktopSpec

\* Every variable of the desktop keeps its type, for any number of threads, invites,
\* clicks and goroutines.
THEOREM DesktopTypeCorrect == DesktopSpec => []DesktopTypeOK
<1>1. DInv => DesktopTypeOK
  BY DEF DInv, DeskOK
<1> QED BY <1>1, DesktopInvariant, PTL

\* Unless appends to Textile.threads met, an entry of .threads is that of a loaded thread;
\* and also then only a thread that was both announced by the pump and found by the main
\* goroutine may have two (desktop/main.go start and the updates loop, textile.js
\* wallet.update and ready).
THEOREM ThreadsListedOnce == DesktopSpec => []ListedOnce
<1>1. ASSUME DInv PROVE ListedOnce
  <2>1. EntriesOK /\ ShownOK
    BY <1>1 DEF DInv, DeskOK, ListOK
  <2> QED BY <2>1 DEF ListedOnce, EntriesOK, ShownOK
<1> QED BY <1>1, DesktopInvariant, PTL

\* .main is shown only when the setup page is hidden, whichever of the main goroutine and
\* the pump expands the window (desktop/main.go, textile.js preready).
THEOREM SetupIsHidden == DesktopSpec => []MainHidesSetup
<1>1. DInv => MainHidesSetup
  BY DEF DInv, DeskOK, HiddenOK, MainHidesSetup
<1> QED BY <1>1, DesktopInvariant, PTL

\* The grid ends up as that of the active entry, unless answers overtook each other
\* (textile.js loadThread).
THEOREM GridIsOfActive == DesktopSpec => []GridFollowsActive
<1>1. DInv => GridFollowsActive
  BY DEF DInv, DeskOK, GridOK, GridFollowsActive
<1> QED BY <1>1, DesktopInvariant, PTL
=============================================================================
