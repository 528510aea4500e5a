-------------------------- MODULE AppSessionProofs --------------------------
(***************************************************************************)
(* Theorems about the application's state and its tasks, for any number of *)
(* tasks, sessions and requests: the types, the connection the window      *)
(* shows, the session and the upload a recording belongs to, and what a    *)
(* session is lost to.                                                     *)
(*                                                                         *)
(* First, where the tasks are.  Each is in one place: ready to run, in a   *)
(* session's queue, parked by the session, or waiting for something        *)
(* outside; and it is in the line of the stream gate exactly when its      *)
(* station says so.  InPlace says this of a loop, of the queues and of the *)
(* parked calls, but for the tasks T that are just being moved, so that a  *)
(* turn can be followed from one assignment to the next.                   *)
(*                                                                         *)
(* The invariant is IInv.  A step is quiet if it only ends or moves tasks, *)
(* forgets ids or answers calls: such a step keeps the invariant whatever  *)
(* else it does, and most steps are quiet.  The others (a connection that  *)
(* is made, installed or given up, an upload that begins, a task that is   *)
(* posted) are proved one by one.                                          *)
(***************************************************************************)
EXTENDS AppSession, SequenceTheorems, FiniteSetTheorems, NaturalRecursion

-----------------------------------------------------------------------------
(***************************************************************************)
(* What occurs in a sequence, and in which order.                          *)
(***************************************************************************)

(* An element occurs in a sequence, and one is before another in it. *)
Occurs(s, x) == \E i \in 1 .. Len(s) : s[i] = x
Before(s, x, y) == \E i, j \in 1 .. Len(s) : i < j /\ s[i] = x /\ s[j] = y

(* Without its head a sequence keeps its other elements, and their order. *)
LEMMA TailOccurs ==
    ASSUME NEW S, NEW s \in Seq(S), s # <<>>, IsInjective(s)
    PROVE  /\ Tail(s) \in Seq(S) /\ IsInjective(Tail(s))
           /\ \A x : Occurs(Tail(s), x) <=> Occurs(s, x) /\ x # s[1]
           /\ \A x, y : x # s[1] /\ Before(s, x, y) => Before(Tail(s), x, y)
<1>1. Tail(s) \in Seq(S) /\ Len(s) \in Nat \ {0} /\ Len(Tail(s)) = Len(s) - 1
      /\ \A i \in 1 .. Len(s) - 1 : Tail(s)[i] = s[i + 1]
  BY EmptySeq, HeadTailProperties
<1>2. DOMAIN s = 1 .. Len(s) /\ DOMAIN Tail(s) = 1 .. Len(s) - 1
  BY <1>1
<1>3. \A i, j \in 1 .. Len(s) : s[i] = s[j] => i = j
  BY <1>2 DEF IsInjective
<1>4. IsInjective(Tail(s))
  <2> SUFFICES ASSUME NEW i \in 1 .. Len(s) - 1, NEW j \in 1 .. Len(s) - 1,
                      Tail(s)[i] = Tail(s)[j]
               PROVE i = j
    BY <1>2 DEF IsInjective
  <2>1. s[i + 1] = s[j + 1] /\ i + 1 \in 1 .. Len(s) /\ j + 1 \in 1 .. Len(s)
    BY <1>1
  <2> QED BY <2>1, <1>3
<1>5. ASSUME NEW x PROVE Occurs(Tail(s), x) <=> Occurs(s, x) /\ x # s[1]
  <2>1. ASSUME Occurs(Tail(s), x) PROVE Occurs(s, x) /\ x # s[1]
    <3>1. PICK i \in 1 .. Len(s) - 1 : Tail(s)[i] = x
      BY <2>1, <1>1 DEF Occurs
    <3>2. s[i + 1] = x /\ i + 1 \in 1 .. Len(s) /\ i + 1 # 1 /\ 1 \in 1 .. Len(s)
      BY <3>1, <1>1
    <3> QED BY <3>2, <1>3 DEF Occurs
  <2>2. ASSUME Occurs(s, x), x # s[1] PROVE Occurs(Tail(s), x)
    <3>1. PICK i \in 1 .. Len(s) : s[i] = x
      BY <2>2 DEF Occurs
    <3>2. i # 1 /\ i - 1 \in 1 .. Len(s) - 1 /\ (i - 1) + 1 = i
      BY <3>1, <2>2, <1>1
    <3>3. Tail(s)[i - 1] = x
      BY <3>1, <3>2, <1>1
    <3> QED BY <3>2, <3>3, <1>1 DEF Occurs
  <2> QED BY <2>1, <2>2
<1>6. ASSUME NEW x, NEW y, x # s[1], Before(s, x, y) PROVE Before(Tail(s), x, y)
  <2>1. PICK i \in 1 .. Len(s), j \in 1 .. Len(s) : i < j /\ s[i] = x /\ s[j] = y
    BY <1>6 DEF Before
  <2>2. i # 1 /\ i - 1 \in 1 .. Len(s) - 1 /\ j - 1 \in 1 .. Len(s) - 1 /\ i - 1 < j - 1
        /\ (i - 1) + 1 = i /\ (j - 1) + 1 = j
    BY <2>1, <1>6, <1>1
  <2>3. Tail(s)[i - 1] = x /\ Tail(s)[j - 1] = y
    BY <2>1, <2>2, <1>1
  <2> QED BY <2>2, <2>3, <1>1 DEF Before
<1> QED BY <1>1, <1>4, <1>5, <1>6

(* What is appended comes after all the others, which stay as they are. *)
LEMMA AppendOccurs ==
    ASSUME NEW S, NEW s \in Seq(S), NEW x \in S
    PROVE  /\ Append(s, x) \in Seq(S)
           /\ IsInjective(s) /\ ~Occurs(s, x) => IsInjective(Append(s, x))
           /\ \A y : Occurs(Append(s, x), y) <=> Occurs(s, y) \/ y = x
           /\ \A y, z : Before(s, y, z) => Before(Append(s, x), y, z)
           /\ \A y : Occurs(s, y) => Before(Append(s, x), y, x)
           /\ s # <<>> => Append(s, x)[1] = s[1]
           /\ Append(s, x) # <<>>
<1>1. Append(s, x) \in Seq(S) /\ Len(s) \in Nat /\ Len(Append(s, x)) = Len(s) + 1
      /\ (\A i \in 1 .. Len(s) : Append(s, x)[i] = s[i]) /\ Append(s, x)[Len(s) + 1] = x
      /\ (s # <<>> => Len(s) >= 1)
  BY EmptySeq, AppendProperties
<1>2. DOMAIN s = 1 .. Len(s) /\ DOMAIN Append(s, x) = 1 .. Len(s) + 1
  BY <1>1
<1>3. ASSUME IsInjective(s), ~Occurs(s, x) PROVE IsInjective(Append(s, x))
  BY <1>1, <1>2, <1>3 DEF IsInjective, Occurs
<1>4. ASSUME NEW y PROVE Occurs(Append(s, x), y) <=> Occurs(s, y) \/ y = x
  BY <1>1 DEF Occurs
<1>5. ASSUME NEW y, NEW z, Before(s, y, z) PROVE Before(Append(s, x), y, z)
  BY <1>1, <1>5 DEF Before
<1>6. ASSUME NEW y, Occurs(s, y) PROVE Before(Append(s, x), y, x)
  BY <1>1, <1>6 DEF Before, Occurs
<1>7. s # <<>> => Append(s, x)[1] = s[1]
  BY <1>1
<1>8. Append(s, x) # <<>>
  BY <1>1, EmptySeq
<1> QED BY <1>1, <1>3, <1>4, <1>5, <1>6, <1>7, <1>8

(* Two sequences one after the other hold what either holds, in order. *)
LEMMA ConcatOccurs ==
    ASSUME NEW S, NEW s \in Seq(S), NEW r \in Seq(S)
    PROVE  /\ s \o r \in Seq(S)
           /\ IsInjective(s) /\ IsInjective(r) /\ (\A x : ~(Occurs(s, x) /\ Occurs(r, x)))
                => IsInjective(s \o r)
           /\ \A y : Occurs(s \o r, y) <=> Occurs(s, y) \/ Occurs(r, y)
           /\ \A y, z : Before(s, y, z) \/ Before(r, y, z) => Before(s \o r, y, z)
           /\ s # <<>> => (s \o r)[1] = s[1]
<1>1. s \o r \in Seq(S) /\ Len(s) \in Nat /\ Len(r) \in Nat /\ Len(s \o r) = Len(s) + Len(r)
      /\ (s # <<>> => Len(s) >= 1)
  BY EmptySeq, ConcatProperties
<1>2. \A i \in 1 .. Len(s) + Len(r) : (s \o r)[i] = IF i <= Len(s) THEN s[i] ELSE r[i - Len(s)]
  BY ConcatProperties, <1>1
<1>3. \A i \in 1 .. Len(s) : i \in 1 .. Len(s) + Len(r) /\ (s \o r)[i] = s[i]
  BY <1>1, <1>2
<1>4. \A i \in 1 .. Len(r) : i + Len(s) \in 1 .. Len(s) + Len(r) /\ (s \o r)[i + Len(s)] = r[i]
  <2> TAKE i \in 1 .. Len(r)
  <2>1. i + Len(s) \in 1 .. Len(s) + Len(r) /\ ~(i + Len(s) <= Len(s)) /\ (i + Len(s)) - Len(s) = i
    BY <1>1
  <2> QED BY <2>1, <1>2
<1>5. \A i \in 1 .. Len(s) + Len(r) :
        \/ i \in 1 .. Len(s) /\ (s \o r)[i] = s[i]
        \/ i - Len(s) \in 1 .. Len(r) /\ (s \o r)[i] = r[i - Len(s)]
  BY <1>1, <1>2
<1>6. ASSUME NEW y PROVE Occurs(s \o r, y) <=> Occurs(s, y) \/ Occurs(r, y)
  <2>1. Occurs(s \o r, y) => Occurs(s, y) \/ Occurs(r, y)
    BY <1>1, <1>5 DEF Occurs
  <2>2. Occurs(s, y) => Occurs(s \o r, y)
    BY <1>1, <1>3 DEF Occurs
  <2>3. Occurs(r, y) => Occurs(s \o r, y)
    BY <1>1, <1>4 DEF Occurs
  <2> QED BY <2>1, <2>2, <2>3
<1>7. ASSUME NEW y, NEW z, Before(s, y, z) \/ Before(r, y, z) PROVE Before(s \o r, y, z)
  <2>1. CASE Before(s, y, z)
    BY <1>1, <1>3, <2>1 DEF Before
  <2>2. CASE Before(r, y, z)
    <3>1. PICK i \in 1 .. Len(r), j \in 1 .. Len(r) : i < j /\ r[i] = y /\ r[j] = z
      BY <2>2 DEF Before
    <3>2. i + Len(s) < j + Len(s)
      BY <3>1, <1>1
    <3>3. i + Len(s) \in 1 .. Len(s \o r) /\ (s \o r)[i + Len(s)] = y
          /\ j + Len(s) \in 1 .. Len(s \o r) /\ (s \o r)[j + Len(s)] = z
      BY <3>1, <1>1, <1>4
    <3> QED BY <3>2, <3>3 DEF Before
  <2> QED BY <1>7, <2>1, <2>2
<1>8. ASSUME IsInjective(s), IsInjective(r), \A x : ~(Occurs(s, x) /\ Occurs(r, x))
      PROVE IsInjective(s \o r)
  <2>1. DOMAIN s = 1 .. Len(s) /\ DOMAIN r = 1 .. Len(r)
        /\ DOMAIN (s \o r) = 1 .. Len(s) + Len(r)
    BY <1>1
  <2> SUFFICES ASSUME NEW i \in 1 .. Len(s) + Len(r), NEW j \in 1 .. Len(s) + Len(r),
                      (s \o r)[i] = (s \o r)[j]
               PROVE i = j
    BY <2>1 DEF IsInjective
  <2>2. CASE i \in 1 .. Len(s) /\ (s \o r)[i] = s[i] /\ j \in 1 .. Len(s) /\ (s \o r)[j] = s[j]
    BY <2>1, <2>2, <1>8 DEF IsInjective
  <2>3. CASE i - Len(s) \in 1 .. Len(r) /\ (s \o r)[i] = r[i - Len(s)]
             /\ j - Len(s) \in 1 .. Len(r) /\ (s \o r)[j] = r[j - Len(s)]
    <3>1. i - Len(s) = j - Len(s)
      BY <2>1, <2>3, <1>8 DEF IsInjective
    <3> QED BY <3>1, <1>1
  <2>4. CASE i \in 1 .. Len(s) /\ (s \o r)[i] = s[i]
             /\ j - Len(s) \in 1 .. Len(r) /\ (s \o r)[j] = r[j - Len(s)]
    BY <2>4, <1>8 DEF Occurs
  <2>5. CASE i - Len(s) \in 1 .. Len(r) /\ (s \o r)[i] = r[i - Len(s)]
             /\ j \in 1 .. Len(s) /\ (s \o r)[j] = s[j]
    BY <2>5, <1>8 DEF Occurs
  <2> QED BY <1>5, <2>2, <2>3, <2>4, <2>5
<1>9. ASSUME s # <<>> PROVE (s \o r)[1] = s[1]
  BY <1>1, <1>3, <1>9
<1> QED BY <1>1, <1>6, <1>7, <1>8, <1>9

(* A sequence of one. *)
LEMMA SingletonOccurs ==
    ASSUME NEW S, NEW x \in S
    PROVE  /\ <<x>> \in Seq(S) /\ IsInjective(<<x>>) /\ <<x>> # <<>> /\ <<x>>[1] = x
           /\ \A y : Occurs(<<x>>, y) <=> y = x
BY DEF IsInjective, Occurs

(* What is put in front of a sequence changes nothing of the order behind it. *)
LEMMA PrependOccurs ==
    ASSUME NEW S, NEW s \in Seq(S), NEW x \in S
    PROVE  /\ <<x>> \o s \in Seq(S)
           /\ IsInjective(s) /\ ~Occurs(s, x) => IsInjective(<<x>> \o s)
           /\ \A y : Occurs(<<x>> \o s, y) <=> Occurs(s, y) \/ y = x
           /\ \A y, z : Before(s, y, z) => Before(<<x>> \o s, y, z)
<1>1. /\ <<x>> \in Seq(S) /\ IsInjective(<<x>>) /\ <<x>> # <<>> /\ <<x>>[1] = x
      /\ \A y : Occurs(<<x>>, y) <=> y = x
  BY SingletonOccurs
<1>2. /\ <<x>> \o s \in Seq(S)
      /\ IsInjective(<<x>>) /\ IsInjective(s) /\ (\A y : ~(Occurs(<<x>>, y) /\ Occurs(s, y)))
            => IsInjective(<<x>> \o s)
      /\ \A y : Occurs(<<x>> \o s, y) <=> Occurs(<<x>>, y) \/ Occurs(s, y)
      /\ \A y, z : Before(<<x>>, y, z) \/ Before(s, y, z) => Before(<<x>> \o s, y, z)
  BY <1>1, ConcatOccurs
<1>3. \A y : Occurs(<<x>> \o s, y) <=> Occurs(s, y) \/ y = x
  BY <1>1, <1>2
<1>4. IsInjective(s) /\ ~Occurs(s, x) => IsInjective(<<x>> \o s)
  BY <1>1, <1>2
<1> QED BY <1>2, <1>3, <1>4

(* Nothing occurs in the empty sequence. *)
LEMMA EmptyOccurs == ASSUME NEW x PROVE ~Occurs(<<>>, x)
BY DEF Occurs

(* The head of a sequence occurs in it. *)
LEMMA HeadOccurs ==
    ASSUME NEW S, NEW s \in Seq(S), s # <<>>
    PROVE  Occurs(s, s[1]) /\ s[1] \in S /\ Head(s) = s[1]
BY DEF Occurs

(* What occurs in a sequence of a set is of that set. *)
LEMMA OccursIn ==
    ASSUME NEW S, NEW s \in Seq(S), NEW x, Occurs(s, x)
    PROVE  x \in S
BY DEF Occurs

(* The set of a sequence is of what occurs in it. *)
LEMMA ToSetOccurs ==
    ASSUME NEW S, NEW s \in Seq(S)
    PROVE  \A x : x \in ToSet(s) <=> Occurs(s, x)
BY DEF ToSet, Occurs

(* A finite set laid out holds each of its elements once. *)
LEMMA SetToSeqOccurs ==
    ASSUME NEW S, IsFiniteSet(S)
    PROVE  /\ SetToSeq(S) \in Seq(S) /\ IsInjective(SetToSeq(S))
           /\ \A x : Occurs(SetToSeq(S), x) <=> x \in S
<1> DEFINE n == Cardinality(S)
<1>1. n \in Nat /\ ExistsBijection(1 .. n, S)
  BY FS_CardinalityType
<1>2. PICK f : f \in Bijection(1 .. n, S)
  BY <1>1 DEF ExistsBijection
<1>3. f \in [1 .. n -> S] /\ IsInjective(f)
  BY <1>2 DEF Bijection, Injection, IsInjective
<1>4. SetToSeq(S) \in [1 .. n -> S] /\ IsInjective(SetToSeq(S))
  BY <1>3 DEF SetToSeq
<1> HIDE DEF n
<1>5. SetToSeq(S) \in Seq(S) /\ Len(SetToSeq(S)) = n
  BY <1>4, <1>1
<1>6. ASSUME NEW x \in S PROVE Occurs(SetToSeq(S), x)
  <2>1. SetToSeq(S) \in Injection(1 .. n, S)
    BY <1>4 DEF Injection, IsInjective
  <2>2. Cardinality(1 .. n) = n
    BY <1>1, FS_Interval
  <2>3. SetToSeq(S) \in Surjection(1 .. n, S)
    BY <2>1, <2>2, FS_Injection DEF n
  <2> QED BY <2>3, <1>5 DEF Surjection, Occurs
<1>7. \A x : Occurs(SetToSeq(S), x) => x \in S
  BY <1>5, OccursIn
<1> QED BY <1>4, <1>5, <1>6, <1>7

(* Every command of a queue is of another task; shutdowns may repeat. *)
Once(q) == \A i, j \in 1 .. Len(q) : q[i] = q[j] /\ q[i] # Shutdown => i = j

\* The partial results of Awaited as a run of steps: step k looks at command k + 1.
AddCommand(q) ==
    [x \in Nat \X Seq(Tasks) |->
        IF x[1] < Len(q) /\ q[x[1] + 1] # Shutdown THEN Append(x[2], q[x[1] + 1]) ELSE x[2]]

(* The step of that recursion is well typed. *)
LEMMA AddCommandType ==
    ASSUME NEW q \in Seq(Tasks \cup {Shutdown}), NEW n \in Nat, n = Len(q)
    PROVE  \A k \in Nat, v \in Seq(Tasks) :
             /\ AddCommand(q)[<<k, v>>] \in Seq(Tasks)
             /\ k < n => AddCommand(q)[<<k, v>>] =
                            IF q[k + 1] = Shutdown THEN v ELSE Append(v, q[k + 1])
<1> TAKE k \in Nat, v \in Seq(Tasks)
<1>1. AddCommand(q)[<<k, v>>] =
        IF k < n /\ q[k + 1] # Shutdown THEN Append(v, q[k + 1]) ELSE v
  BY DEF AddCommand
<1>2. ASSUME k < n, q[k + 1] # Shutdown PROVE Append(v, q[k + 1]) \in Seq(Tasks)
  <2>1. k + 1 \in 1 .. Len(q)
    BY <1>2
  <2>2. q[k + 1] \in Tasks
    BY <2>1, <1>2
  <2> QED BY <2>2, AppendProperties
<1> QED BY <1>1, <1>2

(* Awaited is the result of all steps of that run. *)
LEMMA AwaitedRuns ==
    ASSUME NEW q \in Seq(Tasks \cup {Shutdown}), NEW n \in Nat, n = Len(q)
    PROVE  \E g \in [0 .. n -> Seq(Tasks)] :
              /\ g[0] = <<>>
              /\ \A k \in 0 .. n - 1 :
                    g[k + 1] = IF q[k + 1] = Shutdown THEN g[k] ELSE Append(g[k], q[k + 1])
              /\ Awaited(q) = g[n]
<1>1. PICK g \in [0 .. n -> Seq(Tasks)] : Runs(g, n, <<>>, AddCommand(q))
  <2>1. PICK V, step, base : V = Seq(Tasks) /\ step = AddCommand(q) /\ base = <<>>
    OBVIOUS
  <2>2. base \in V /\ \A k \in Nat, v \in V : step[<<k, v>>] \in V
    BY <2>1, AddCommandType, EmptySeq
  <2>3. \A k \in Nat : \E g \in [0 .. k -> V] : Runs(g, k, base, step)
    BY <2>2, RunExists
  <2> QED BY <2>1, <2>3
<1>2. g[0] = <<>>
  BY <1>1 DEF Runs
<1>3. ASSUME NEW k \in 0 .. n - 1
      PROVE  g[k + 1] = IF q[k + 1] = Shutdown THEN g[k] ELSE Append(g[k], q[k + 1])
  <2>1. g[k + 1] = AddCommand(q)[<<k, g[k]>>] /\ g[k] \in Seq(Tasks) /\ k \in Nat /\ k < n
    BY <1>1 DEF Runs
  <2> QED BY <2>1, AddCommandType
<1> DEFINE upto[k \in 0 .. n] ==
             IF k = 0 THEN <<>>
             ELSE IF q[k] = Shutdown THEN upto[k - 1] ELSE Append(upto[k - 1], q[k])
<1>4. upto = [k \in 0 .. n |-> IF k = 0 THEN <<>>
             ELSE IF q[k] = Shutdown THEN upto[k - 1] ELSE Append(upto[k - 1], q[k])]
  <2> SUFFICES \E u : u = [k \in 0 .. n |-> IF k = 0 THEN <<>>
             ELSE IF q[k] = Shutdown THEN u[k - 1] ELSE Append(u[k - 1], q[k])]
    OBVIOUS
  <2>1. ASSUME NEW k \in 0 .. n
        PROVE  g[k] = IF k = 0 THEN <<>>
                      ELSE IF q[k] = Shutdown THEN g[k - 1] ELSE Append(g[k - 1], q[k])
    <3>1. CASE k = 0
      BY <1>2, <3>1
    <3>2. CASE k # 0
      <4>1. k - 1 \in 0 .. n - 1 /\ (k - 1) + 1 = k
        BY <3>2
      <4>2. g[(k - 1) + 1] = IF q[(k - 1) + 1] = Shutdown THEN g[k - 1]
                             ELSE Append(g[k - 1], q[(k - 1) + 1])
        BY <1>3, <4>1
      <4> QED BY <3>2, <4>1, <4>2
    <3> QED BY <3>1, <3>2
  <2>2. g = [k \in 0 .. n |-> g[k]]
    OBVIOUS
  <2>3. g = [k \in 0 .. n |-> IF k = 0 THEN <<>>
             ELSE IF q[k] = Shutdown THEN g[k - 1] ELSE Append(g[k - 1], q[k])]
    BY <2>1, <2>2
  <2> QED BY <2>3, Zenon
<1>5. Awaited(q) = upto[n]
  BY DEF Awaited
<1> HIDE DEF upto
<1>6. \A k \in 0 .. n : upto[k] = IF k = 0 THEN <<>>
             ELSE IF q[k] = Shutdown THEN upto[k - 1] ELSE Append(upto[k - 1], q[k])
  BY <1>4
<1> DEFINE S == {k \in Nat : k <= n => upto[k] = g[k]}
<1>7. 0 \in S
  BY <1>2, <1>6
<1>8. ASSUME NEW k \in Nat, k \in S PROVE k + 1 \in S
  <2> SUFFICES ASSUME k + 1 <= n PROVE upto[k + 1] = g[k + 1]
    OBVIOUS
  <2>1. k \in 0 .. n - 1 /\ k + 1 \in 0 .. n /\ k + 1 # 0 /\ (k + 1) - 1 = k
    OBVIOUS
  <2>2. upto[k] = g[k]
    BY <1>8, <2>1
  <2>3. upto[k + 1] = IF q[k + 1] = Shutdown THEN upto[(k + 1) - 1]
                      ELSE Append(upto[(k + 1) - 1], q[k + 1])
    BY <1>6, <2>1
  <2> QED BY <1>3, <2>1, <2>2, <2>3
<1> HIDE DEF S
<1>9. \A k \in Nat : k \in S
  BY <1>7, <1>8, Induction
<1>10. upto[n] = g[n]
  BY <1>9 DEF S
<1> QED BY <1>2, <1>3, <1>5, <1>10

(* It has the tasks of the queue, each where it comes from no other place. *)
LEMMA AwaitedOccurs ==
    ASSUME NEW q \in Seq(Tasks \cup {Shutdown}), Once(q)
    PROVE  /\ Awaited(q) \in Seq(Tasks) /\ IsInjective(Awaited(q))
           /\ \A x : Occurs(Awaited(q), x) <=> Occurs(q, x) /\ x # Shutdown
<1>1. PICK n \in Nat : n = Len(q)
  OBVIOUS
<1>2. PICK g \in [0 .. n -> Seq(Tasks)] :
              /\ g[0] = <<>>
              /\ \A k \in 0 .. n - 1 :
                    g[k + 1] = IF q[k + 1] = Shutdown THEN g[k] ELSE Append(g[k], q[k + 1])
              /\ Awaited(q) = g[n]
  BY <1>1, AwaitedRuns
<1> DEFINE Good(k) == /\ IsInjective(g[k])
                      /\ \A x : Occurs(g[k], x) <=> x # Shutdown /\ \E i \in 1 .. k : q[i] = x
           S == {k \in Nat : k <= n => Good(k)}
<1>3. 0 \in S
  <2>1. IsInjective(g[0]) /\ \A x : ~Occurs(g[0], x)
    BY <1>2 DEF IsInjective, Occurs
  <2> QED BY <2>1
<1>4. ASSUME NEW k \in Nat, k \in S PROVE k + 1 \in S
  <2> SUFFICES ASSUME k + 1 <= n PROVE Good(k + 1)
    OBVIOUS
  <2>1. k \in 0 .. n - 1 /\ k \in 0 .. n /\ k + 1 \in 1 .. n /\ g[k] \in Seq(Tasks)
    OBVIOUS
  <2>2. Good(k)
    BY <1>4, <2>1
  <2>3. \A x : (\E i \in 1 .. k + 1 : q[i] = x) <=> (\E i \in 1 .. k : q[i] = x) \/ q[k + 1] = x
    OBVIOUS
  <2>4. CASE q[k + 1] = Shutdown
    <3>1. g[k + 1] = g[k]
      BY <1>2, <2>1, <2>4
    <3> QED BY <3>1, <2>2, <2>3, <2>4
  <2>5. CASE q[k + 1] # Shutdown
    <3>1. g[k + 1] = Append(g[k], q[k + 1])
      BY <1>2, <2>1, <2>5
    <3>2. q[k + 1] \in Tasks
      BY <1>1, <2>1, <2>5
    <3>3. ~\E i \in 1 .. k : q[i] = q[k + 1]
      <4>1. \A i \in 1 .. k : i \in 1 .. Len(q) /\ k + 1 \in 1 .. Len(q) /\ i # k + 1
        BY <1>1, <2>1
      <4> QED BY <4>1, <2>5 DEF Once
    <3>4. ~Occurs(g[k], q[k + 1])
      BY <2>2, <3>3
    <3>5. /\ IsInjective(Append(g[k], q[k + 1]))
          /\ \A y : Occurs(Append(g[k], q[k + 1]), y) <=> Occurs(g[k], y) \/ y = q[k + 1]
      <4> HIDE DEF Good
      <4>1. PICK s \in Seq(Tasks), x \in Tasks : s = g[k] /\ x = q[k + 1]
        BY <2>1, <3>2
      <4>2. IsInjective(s)
        BY <4>1, <2>2 DEF Good
      <4> QED BY <4>1, <4>2, <3>4, AppendOccurs
    <3> QED BY <3>1, <3>5, <2>2, <2>3, <2>5
  <2> QED BY <2>4, <2>5
<1> HIDE DEF S
<1>5. \A k \in Nat : k \in S
  BY <1>3, <1>4, Induction
<1>6. Good(n)
  <2>1. n \in S
    BY <1>5
  <2> QED BY <2>1 DEF S
<1>7. \A x : Occurs(q, x) <=> \E i \in 1 .. n : q[i] = x
  BY <1>1 DEF Occurs
<1>8. Awaited(q) = g[n] /\ g[n] \in Seq(Tasks)
  BY <1>2
<1> QED BY <1>6, <1>7, <1>8, Zenon

(* A sequence cut in two after its first element, or before it. *)
LEMMA CutOccurs ==
    ASSUME NEW S, NEW c \in Seq(S), IsInjective(c), NEW b \in {0, 1}, b <= Len(c)
    PROVE  /\ SubSeq(c, 1, b) \in Seq(S) /\ SubSeq(c, 1 + b, Len(c)) \in Seq(S)
           /\ IsInjective(SubSeq(c, 1, b)) /\ IsInjective(SubSeq(c, 1 + b, Len(c)))
           /\ \A x : Occurs(c, x) <=> Occurs(SubSeq(c, 1, b), x)
                                       \/ Occurs(SubSeq(c, 1 + b, Len(c)), x)
           /\ \A x : ~(Occurs(SubSeq(c, 1, b), x) /\ Occurs(SubSeq(c, 1 + b, Len(c)), x))
<1>1. CASE b = 0
  <2>1. SubSeq(c, 1, b) = <<>> /\ SubSeq(c, 1 + b, Len(c)) = c
    BY <1>1
  <2>2. <<>> \in Seq(S) /\ IsInjective(<<>>)
    BY EmptySeq DEF IsInjective
  <2> QED BY <2>1, <2>2, EmptyOccurs
<1>2. CASE b = 1
  <2>1. c # <<>> /\ c[1] \in S
    BY <1>2, EmptySeq
  <2>2. SubSeq(c, 1, b) = <<c[1]>>
    <3>1. \A i \in 1 .. 1 : c[i] \in S
      BY <2>1
    <3>2. /\ SubSeq(c, 1, 1) \in Seq(S) /\ Len(SubSeq(c, 1, 1)) = 1
          /\ SubSeq(c, 1, 1)[1] = c[1]
      BY <3>1, SubSeqProperties
    <3>3. <<c[1]>> \in Seq(S) /\ Len(<<c[1]>>) = 1 /\ <<c[1]>>[1] = c[1]
      BY <2>1
    <3>4. \A i \in 1 .. Len(SubSeq(c, 1, 1)) : SubSeq(c, 1, 1)[i] = <<c[1]>>[i]
      BY <3>2, <3>3
    <3>5. SubSeq(c, 1, 1) = <<c[1]>>
      BY <3>2, <3>3, <3>4, SeqEqual
    <3> QED BY <3>5, <1>2
  <2>7. SubSeq(c, 1 + b, Len(c)) = Tail(c)
    <3>1. PICK n \in Nat : n = Len(c) /\ n >= 1
      BY <1>2
    <3>2. \A i \in 2 .. n : c[i] \in S
      BY <3>1
    <3>3. /\ SubSeq(c, 2, n) \in Seq(S) /\ Len(SubSeq(c, 2, n)) = n - 1
          /\ \A i \in 1 .. n - 1 : SubSeq(c, 2, n)[i] = c[i + 1]
      <4>1. /\ SubSeq(c, 2, n) \in Seq(S)
            /\ Len(SubSeq(c, 2, n)) = IF 2 <= n THEN n - 2 + 1 ELSE 0
            /\ \A i \in 1 .. n - 2 + 1 : SubSeq(c, 2, n)[i] = c[2 + i - 1]
        BY <3>2, SubSeqProperties
      <4>2. ASSUME NEW i \in 1 .. n - 1 PROVE i \in 1 .. n - 2 + 1 /\ 2 + i - 1 = i + 1
        BY <3>1
      <4>3. (IF 2 <= n THEN n - 2 + 1 ELSE 0) = n - 1
        BY <3>1
      <4> QED BY <4>1, <4>2, <4>3
    <3>4. /\ Tail(c) \in Seq(S) /\ Len(Tail(c)) = n - 1
          /\ \A i \in 1 .. n - 1 : Tail(c)[i] = c[i + 1]
      BY <2>1, <3>1, HeadTailProperties
    <3>5. SubSeq(c, 2, n) = Tail(c)
      BY <3>3, <3>4, SeqEqual
    <3> QED BY <3>1, <3>5, <1>2
  <2>3. PICK x \in S : x = c[1]
    BY <2>1
  <2>4. <<x>> \in Seq(S) /\ IsInjective(<<x>>) /\ \A y : Occurs(<<x>>, y) <=> y = x
    BY SingletonOccurs
  <2>5. /\ Tail(c) \in Seq(S) /\ IsInjective(Tail(c))
        /\ \A y : Occurs(Tail(c), y) <=> Occurs(c, y) /\ y # c[1]
    BY <2>1, TailOccurs
  <2>6. Occurs(c, c[1])
    BY <2>1, HeadOccurs
  <2> QED BY <2>2, <2>3, <2>4, <2>5, <2>6, <2>7
<1> QED BY <1>1, <1>2

-----------------------------------------------------------------------------
(***************************************************************************)
(* The places of the tasks.  Each lemma moves one task, or one command.    *)
(***************************************************************************)

(* Where a task holds the gate or queues for it, by itself and in a call; where
   it calls without the gate; and where it waits for something outside. *)
GateStations == {"record", "drain", "finalize", "install"}
HeldCalls == {"begin", "undo", "sending", "last", "finishing", "aborting", "dropping"}
FreeCalls == {"cancelling", "confirming", "responding"}
Waits == {"permission", "camera", "connecting"}
(* What a task can be told, the kinds of tasks and all their stations. *)
Answers == {"none", "granted", "denied", "found", "failed", "over", "ok", "error", "plan",
            "no_plan", "cancelled"}
Kinds == {"none", "toggle", "cancel", "tick", "answer", "disconnect", "scan", "events"}
Stations == {"none", "start", "changed", "connected"} \cup Waits \cup GateStations
            \cup HeldCalls \cup FreeCalls
(* The type of a task's locals, and of the event loop. *)
TaskType == [kind : Kinds, at : Stations, id : Ids \cup {NoId}, on : Sessions \cup {NoSession},
             valid : BOOLEAN, generation : Nat, saw : Dialogs, answer : Answers, due : BOOLEAN]
LoopType == [task : [Tasks -> TaskType], ready : Seq(Tasks), turn : Tasks \cup {0},
             gate : Seq(Tasks)]

(* A task that has or wants the gate, one that can run, and the gate's holder. *)
AtGate(r) == r.at \in GateStations \cup HeldCalls
Awake(r) == r.at # "none" /\ (r.at \in Waits => r.answer # "none")
HeadOf(l, u) == l.gate # <<>> /\ l.gate[1] = u

(* Where task u is, of loop l, queues q and parked calls p, when the tasks of T
   are in their turn: it is ready, in one queue, parked or suspended; it is in
   the gate's line exactly when its station says so, and a call under the gate
   is made by the gate's holder. *)
Placed(l, q, p, T, u) ==
    /\ Occurs(l.ready, u) =>
        /\ u \notin p /\ u \notin T /\ Awake(l.task[u])
        /\ Occurs(l.gate, u) => HeadOf(l, u)
    /\ \A s \in Sessions : Occurs(q[s], u) =>
        /\ l.task[u].on = s /\ l.task[u].at \in HeldCalls \cup FreeCalls
        /\ ~Occurs(l.ready, u) /\ u \notin p /\ u \notin T
    /\ u \in p => l.task[u].at \in {"finishing", "confirming"} /\ u \notin T
    /\ u \in T => (Occurs(l.gate, u) => HeadOf(l, u))
    /\ u \notin T => /\ Occurs(l.gate, u) <=> AtGate(l.task[u])
                     /\ l.task[u].at \in HeldCalls => HeadOf(l, u)

(* No line holds a task twice. *)
Lined(l, q, p) ==
    /\ l \in LoopType
    /\ q \in [Sessions -> Seq(Tasks \cup {Shutdown})]
    /\ p \subseteq Tasks
    /\ IsInjective(l.ready)
    /\ IsInjective(l.gate)
    /\ \A s \in Sessions : Once(q[s])

(* Every task has its place and no other. *)
InPlace(l, q, p, T) == Lined(l, q, p) /\ \A u \in Tasks : Placed(l, q, p, T, u)

(* The fields of the event loop and their types. *)
LEMMA LoopFields ==
    ASSUME NEW l \in LoopType
    PROVE  /\ l.task \in [Tasks -> TaskType] /\ l.ready \in Seq(Tasks)
           /\ l.turn \in Tasks \cup {0} /\ l.gate \in Seq(Tasks)
BY DEF LoopType

(* A task in hand goes to the end or the front of the ready ones. *)
LEMMA Readies ==
    ASSUME NEW l, NEW q, NEW p, NEW T, InPlace(l, q, p, T), NEW u \in T, u \in Tasks,
           NEW r \in TaskType, Awake(r), AtGate(r) <=> Occurs(l.gate, u),
           NEW m \in LoopType, m.gate = l.gate, m.task = [l.task EXCEPT ![u] = r],
           IsInjective(m.ready), \A x : Occurs(m.ready, x) <=> Occurs(l.ready, x) \/ x = u
    PROVE  InPlace(m, q, p, T \ {u})
<1>1. l.task \in [Tasks -> TaskType] /\ Lined(l, q, p) /\ Placed(l, q, p, T, u)
  BY LoopFields DEF InPlace, Lined
<1>2. m.task[u] = r /\ \A v \in Tasks \ {u} : m.task[v] = l.task[v]
  BY <1>1
<1>3. \A v : HeadOf(m, v) <=> HeadOf(l, v)
  BY DEF HeadOf
<1>4. Lined(m, q, p)
  BY <1>1 DEF Lined
<1>5. Placed(m, q, p, T \ {u}, u)
  <2>1. Occurs(l.gate, u) => HeadOf(l, u)
    BY <1>1 DEF Placed
  <2>2. u \notin p /\ \A s \in Sessions : ~Occurs(q[s], u)
    BY <1>1 DEF Placed
  <2> QED BY <1>2, <1>3, <2>1, <2>2 DEF Placed, AtGate
<1>6. ASSUME NEW v \in Tasks \ {u} PROVE Placed(m, q, p, T \ {u}, v)
  <2>1. Placed(l, q, p, T, v)
    BY DEF InPlace
  <2>2. Occurs(m.ready, v) <=> Occurs(l.ready, v)
    OBVIOUS
  <2>3. v \in T \ {u} <=> v \in T
    OBVIOUS
  <2>4. m.task[v] = l.task[v] /\ (HeadOf(m, v) <=> HeadOf(l, v))
    BY <1>2, <1>3
  <2> QED BY <2>1, <2>2, <2>3, <2>4 DEF Placed
<1> QED BY <1>4, <1>5, <1>6 DEF InPlace

(* A task in hand waits for something from outside, or is over. *)
LEMMA Rests ==
    ASSUME NEW l, NEW q, NEW p, NEW T, InPlace(l, q, p, T), NEW u \in T, u \in Tasks,
           NEW r \in TaskType, ~AtGate(r), ~Occurs(l.gate, u),
           NEW m \in LoopType, m.gate = l.gate, m.task = [l.task EXCEPT ![u] = r],
           m.ready = l.ready
    PROVE  InPlace(m, q, p, T \ {u})
<1>1. l.task \in [Tasks -> TaskType] /\ Lined(l, q, p) /\ Placed(l, q, p, T, u)
  BY LoopFields DEF InPlace, Lined
<1>2. m.task[u] = r /\ \A v \in Tasks \ {u} : m.task[v] = l.task[v]
  BY <1>1
<1>3. \A v : HeadOf(m, v) <=> HeadOf(l, v)
  BY DEF HeadOf
<1>4. Lined(m, q, p)
  BY <1>1 DEF Lined
<1>5. Placed(m, q, p, T \ {u}, u)
  <2>1. u \notin p /\ ~Occurs(l.ready, u) /\ \A s \in Sessions : ~Occurs(q[s], u)
    BY <1>1 DEF Placed
  <2> QED BY <1>2, <1>3, <2>1 DEF Placed, AtGate
<1>6. ASSUME NEW v \in Tasks \ {u} PROVE Placed(m, q, p, T \ {u}, v)
  <2>1. Placed(l, q, p, T, v)
    BY DEF InPlace
  <2>3. v \in T \ {u} <=> v \in T
    OBVIOUS
  <2>4. m.task[v] = l.task[v] /\ (HeadOf(m, v) <=> HeadOf(l, v))
    BY <1>2, <1>3
  <2> QED BY <2>1, <2>3, <2>4 DEF Placed
<1> QED BY <1>4, <1>5, <1>6 DEF InPlace

(* A queue with one more command. *)
WithCommand(q, s, x) == [q EXCEPT ![s] = Append(q[s], x)]

(* A task in hand calls a method of session s. *)
LEMMA Enqueues ==
    ASSUME NEW l, NEW q, NEW p, NEW T, InPlace(l, q, p, T), NEW u \in T, u \in Tasks,
           NEW s \in Sessions, NEW r \in TaskType, r.on = s, r.at \in HeldCalls \cup FreeCalls,
           AtGate(r) <=> Occurs(l.gate, u), Shutdown \notin Tasks,
           NEW m \in LoopType, m.gate = l.gate, m.task = [l.task EXCEPT ![u] = r],
           m.ready = l.ready, NEW q2, q2 = WithCommand(q, s, u)
    PROVE  InPlace(m, q2, p, T \ {u})
<1>1. l.task \in [Tasks -> TaskType] /\ Lined(l, q, p) /\ Placed(l, q, p, T, u)
  BY LoopFields DEF InPlace, Lined
<1>2. m.task[u] = r /\ \A v \in Tasks \ {u} : m.task[v] = l.task[v]
  BY <1>1
<1>3. \A v : HeadOf(m, v) <=> HeadOf(l, v)
  BY DEF HeadOf
<1>7. u \notin p /\ ~Occurs(l.ready, u) /\ \A z \in Sessions : ~Occurs(q[z], u)
  BY <1>1 DEF Placed
<1>8. q \in [Sessions -> Seq(Tasks \cup {Shutdown})] /\ q[s] \in Seq(Tasks \cup {Shutdown})
      /\ Once(q[s])
  BY <1>1 DEF Lined
<1>9. /\ Append(q[s], u) \in Seq(Tasks \cup {Shutdown})
      /\ \A y : Occurs(Append(q[s], u), y) <=> Occurs(q[s], y) \/ y = u
  BY <1>8, AppendOccurs
<1>10. Once(Append(q[s], u))
  <2>1. \A i \in 1 .. Len(q[s]) : q[s][i] # u
    BY <1>7 DEF Occurs
  <2> QED BY <1>8, <2>1, AppendProperties DEF Once
<1>11. q2 \in [Sessions -> Seq(Tasks \cup {Shutdown})] /\ q2[s] = Append(q[s], u)
       /\ \A z \in Sessions \ {s} : q2[z] = q[z]
  BY <1>8, <1>9 DEF WithCommand
<1>4. Lined(m, q2, p)
  BY <1>1, <1>10, <1>11 DEF Lined
<1>12. \A z \in Sessions : \A v : Occurs(q2[z], v) <=> Occurs(q[z], v) \/ (z = s /\ v = u)
  BY <1>9, <1>11
<1>5. Placed(m, q2, p, T \ {u}, u)
  <2>1. Occurs(l.gate, u) => HeadOf(l, u)
    BY <1>1 DEF Placed
  <2> QED BY <1>2, <1>3, <1>7, <1>12, <2>1 DEF Placed, AtGate
<1>6. ASSUME NEW v \in Tasks \ {u} PROVE Placed(m, q2, p, T \ {u}, v)
  <2>1. Placed(l, q, p, T, v)
    BY DEF InPlace
  <2>3. v \in T \ {u} <=> v \in T
    OBVIOUS
  <2>4. m.task[v] = l.task[v] /\ (HeadOf(m, v) <=> HeadOf(l, v))
        /\ \A z \in Sessions : Occurs(q2[z], v) <=> Occurs(q[z], v)
    BY <1>2, <1>3, <1>12
  <2> QED BY <2>1, <2>3, <2>4 DEF Placed
<1> QED BY <1>4, <1>5, <1>6 DEF InPlace

(* A task in hand waits for the gate. *)
LEMMA WaitsForGate ==
    ASSUME NEW l, NEW q, NEW p, NEW T, InPlace(l, q, p, T), NEW u \in T, u \in Tasks,
           NEW r \in TaskType, r.at \in GateStations,
           ~Occurs(l.gate, u), l.gate # <<>>,
           NEW m \in LoopType, m.gate = Append(l.gate, u), m.task = [l.task EXCEPT ![u] = r],
           m.ready = l.ready
    PROVE  InPlace(m, q, p, T \ {u})
<1>1. l.task \in [Tasks -> TaskType] /\ Lined(l, q, p) /\ Placed(l, q, p, T, u)
      /\ l.gate \in Seq(Tasks) /\ IsInjective(l.gate)
  BY LoopFields DEF InPlace, Lined
<1>2. m.task[u] = r /\ \A v \in Tasks \ {u} : m.task[v] = l.task[v]
  BY <1>1
<1>3. /\ IsInjective(m.gate) /\ m.gate # <<>> /\ m.gate[1] = l.gate[1]
      /\ \A y : Occurs(m.gate, y) <=> Occurs(l.gate, y) \/ y = u
  BY <1>1, AppendOccurs
<1>7. \A v : HeadOf(m, v) <=> HeadOf(l, v)
  BY <1>3 DEF HeadOf
<1>4. Lined(m, q, p)
  BY <1>1, <1>3 DEF Lined
<1>5. Placed(m, q, p, T \ {u}, u)
  <2>1. u \notin p /\ ~Occurs(l.ready, u) /\ \A s \in Sessions : ~Occurs(q[s], u)
    BY <1>1 DEF Placed
  <2>2. r.at \notin HeldCalls
    BY DEF GateStations, HeldCalls
  <2> QED BY <1>2, <1>3, <1>7, <2>1, <2>2 DEF Placed, AtGate
<1>6. ASSUME NEW v \in Tasks \ {u} PROVE Placed(m, q, p, T \ {u}, v)
  <2>1. Placed(l, q, p, T, v)
    BY DEF InPlace
  <2>3. v \in T \ {u} <=> v \in T
    OBVIOUS
  <2>4. m.task[v] = l.task[v] /\ (HeadOf(m, v) <=> HeadOf(l, v))
        /\ (Occurs(m.gate, v) <=> Occurs(l.gate, v))
    BY <1>2, <1>3, <1>7
  <2> QED BY <2>1, <2>3, <2>4 DEF Placed
<1> QED BY <1>4, <1>5, <1>6 DEF InPlace

(* A task in hand gets the gate, which is free. *)
LEMMA TakesGate ==
    ASSUME NEW l, NEW q, NEW p, NEW T, InPlace(l, q, p, T), NEW u \in T, u \in Tasks,
           l.gate = <<>>,
           NEW m \in LoopType, m.gate = <<u>>, m.task = l.task, m.ready = l.ready
    PROVE  InPlace(m, q, p, T)
<1>1. Lined(l, q, p) /\ \A v : ~Occurs(l.gate, v)
  BY EmptyOccurs DEF InPlace
<1>2. IsInjective(m.gate) /\ m.gate # <<>> /\ m.gate[1] = u
      /\ \A y : Occurs(m.gate, y) <=> y = u
  BY SingletonOccurs
<1>3. Lined(m, q, p)
  BY <1>1, <1>2 DEF Lined
<1>4. ASSUME NEW v \in Tasks PROVE Placed(m, q, p, T, v)
  <2>1. Placed(l, q, p, T, v)
    BY DEF InPlace
  <2>2. ~HeadOf(l, v)
    BY DEF HeadOf
  <2>3. HeadOf(m, v) <=> v = u
    BY <1>2 DEF HeadOf
  <2> QED BY <2>1, <2>2, <2>3, <1>1, <1>2 DEF Placed
<1> QED BY <1>3, <1>4 DEF InPlace

(* A task in hand lets go of the gate: the next one has it and is ready. *)
LEMMA FreesGate ==
    ASSUME NEW l, NEW q, NEW p, NEW T, InPlace(l, q, p, T), NEW u \in T, u \in Tasks,
           HeadOf(l, u), T = {u}
    PROVE  /\ Unlock(l) \in LoopType /\ Unlock(l).task = l.task /\ Unlock(l).turn = l.turn
           /\ ~Occurs(Unlock(l).gate, u)
           /\ \A v : Occurs(l.ready, v) => Occurs(Unlock(l).ready, v)
           /\ \A v, w : Before(l.ready, v, w) => Before(Unlock(l).ready, v, w)
           /\ \A v : Occurs(Unlock(l).ready, v) => Occurs(l.ready, v) \/ AtGate(l.task[v])
           /\ InPlace(Unlock(l), q, p, T)
<1> DEFINE m == Unlock(l)
<1>1. l \in LoopType /\ l.task \in [Tasks -> TaskType] /\ Lined(l, q, p) /\ Placed(l, q, p, T, u)
      /\ l.gate \in Seq(Tasks) /\ IsInjective(l.gate) /\ l.gate # <<>> /\ l.gate[1] = u
      /\ l.ready \in Seq(Tasks) /\ IsInjective(l.ready)
  BY LoopFields DEF InPlace, Lined, HeadOf
<1>2. /\ Tail(l.gate) \in Seq(Tasks) /\ IsInjective(Tail(l.gate))
      /\ \A x : Occurs(Tail(l.gate), x) <=> Occurs(l.gate, x) /\ x # u
  BY <1>1, TailOccurs
<1>3. /\ m.task = l.task /\ m.turn = l.turn /\ m.gate = Tail(l.gate)
      /\ m.ready = IF Len(l.gate) > 1 THEN Append(l.ready, l.gate[2]) ELSE l.ready
      /\ m = [l EXCEPT !.gate = m.gate, !.ready = m.ready]
  BY <1>1 DEF Unlock, LoopType
<1> HIDE DEF m
<1>4. CASE Len(l.gate) > 1
  <2>1. PICK n \in Tasks : n = l.gate[2]
    BY <1>1, <1>4
  <2>2. Occurs(l.gate, n) /\ n # u /\ Tail(l.gate) # <<>> /\ Tail(l.gate)[1] = n
    <3>1. 2 \in 1 .. Len(l.gate) /\ 1 \in 1 .. Len(l.gate) /\ DOMAIN l.gate = 1 .. Len(l.gate)
      BY <1>1, <1>4
    <3>2. Occurs(l.gate, n)
      BY <2>1, <3>1 DEF Occurs
    <3>3. n # u
      BY <1>1, <2>1, <3>1 DEF IsInjective
    <3>4. Len(Tail(l.gate)) = Len(l.gate) - 1 /\ Tail(l.gate)[1] = l.gate[2]
      BY <1>1, <1>4, HeadTailProperties
    <3>5. Tail(l.gate) # <<>>
      <4>1. PICK g \in Seq(Tasks), k \in Seq(Tasks) : g = l.gate /\ k = Tail(l.gate)
        BY <1>1, <1>2
      <4>2. Len(g) \in Nat /\ Len(g) > 1 /\ Len(k) = Len(g) - 1
        BY <4>1, <1>4, <3>4
      <4>3. Len(k) # 0
        <5>1. PICK n1 \in Nat, n2 \in Int : n1 = Len(g) /\ n2 = Len(k)
          BY <4>2
        <5>2. n1 > 1 /\ n2 = n1 - 1
          BY <4>2, <5>1
        <5>3. n2 # 0
          BY <5>2
        <5> QED BY <5>1, <5>3
      <4>4. k # <<>>
        BY <4>3, EmptySeq
      <4> QED BY <4>1, <4>4
    <3> QED BY <2>1, <3>2, <3>3, <3>4, <3>5
  <2>3. Placed(l, q, p, T, n) /\ n \notin T /\ ~HeadOf(l, n)
    BY <2>2, <1>1 DEF InPlace, HeadOf
  <2>4. AtGate(l.task[n]) /\ l.task[n].at \notin HeldCalls /\ ~Occurs(l.ready, n)
    BY <2>2, <2>3 DEF Placed
  <2>5. l.task[n].at \in GateStations /\ Awake(l.task[n])
        /\ l.task[n].at \notin FreeCalls /\ l.task[n].at \notin {"finishing", "confirming"}
    BY <2>4 DEF AtGate, Awake, GateStations, Waits, HeldCalls, FreeCalls
  <2>6. n \notin p /\ \A s \in Sessions : ~Occurs(q[s], n)
    BY <2>3, <2>4, <2>5 DEF Placed
  <2>7. /\ m.ready = Append(l.ready, n) /\ m.ready \in Seq(Tasks) /\ IsInjective(m.ready)
        /\ \A y : Occurs(m.ready, y) <=> Occurs(l.ready, y) \/ y = n
        /\ \A y, z : Before(l.ready, y, z) => Before(m.ready, y, z)
    BY <1>1, <1>3, <1>4, <2>1, <2>4, AppendOccurs
  <2>8. m \in LoopType
    BY <1>1, <1>2, <1>3, <2>7 DEF LoopType
  <2>9. Lined(m, q, p)
    BY <1>1, <1>2, <1>3, <2>7, <2>8 DEF Lined
  <2>10. \A v : HeadOf(m, v) <=> v = n
    BY <1>3, <2>2 DEF HeadOf
  <2>11. Placed(m, q, p, T, n)
    BY <1>2, <1>3, <2>2, <2>3, <2>4, <2>5, <2>6, <2>7, <2>10 DEF Placed
  <2>12. ASSUME NEW v \in Tasks, v # n PROVE Placed(m, q, p, T, v)
    <3>1. Placed(l, q, p, T, v)
      BY DEF InPlace
    <3>2. HeadOf(l, v) <=> v = u
      BY <1>1 DEF HeadOf
    <3>3. Occurs(m.gate, v) <=> Occurs(l.gate, v) /\ v # u
      BY <1>2, <1>3
    <3>4. Occurs(m.ready, v) <=> Occurs(l.ready, v)
      BY <2>7, <2>12
    <3>5. CASE v = u
      BY <3>1, <3>3, <3>4, <3>5, <1>3, <2>10 DEF Placed
    <3>6. CASE v # u
      BY <3>1, <3>2, <3>3, <3>4, <3>6, <1>3, <2>10, <2>12 DEF Placed
    <3> QED BY <3>5, <3>6
  <2>13. InPlace(m, q, p, T)
    BY <2>9, <2>11, <2>12 DEF InPlace
  <2> QED BY <1>2, <1>3, <2>4, <2>7, <2>8, <2>13 DEF m
<1>5. CASE ~(Len(l.gate) > 1)
  <2>1. m.ready = l.ready
    BY <1>3, <1>5
  <2>2. \A v : ~Occurs(Tail(l.gate), v) /\ (Occurs(l.gate, v) => v = u)
    <3>1. Len(l.gate) = 1
      <4>1. PICK g \in Seq(Tasks) : g = l.gate
        BY <1>1
      <4>2. Len(g) \in Nat /\ Len(g) # 0 /\ ~(Len(g) > 1)
        BY <4>1, <1>1, <1>5, EmptySeq
      <4>3. Len(g) = 1
        <5>1. PICK n1 \in Nat : n1 = Len(g)
          BY <4>2
        <5>2. n1 # 0 /\ ~(n1 > 1)
          BY <4>2, <5>1
        <5>3. n1 = 1
          BY <5>2
        <5> QED BY <5>1, <5>3
      <4> QED BY <4>1, <4>3
    <3>2. \A v : Occurs(l.gate, v) => v = u
      BY <1>1, <3>1 DEF Occurs
    <3> QED BY <1>2, <3>2
  <2>3. m \in LoopType
    BY <1>1, <1>2, <1>3, <2>1 DEF LoopType
  <2>4. Lined(m, q, p)
    BY <1>1, <1>2, <1>3, <2>1, <2>3 DEF Lined
  <2>5. ASSUME NEW v \in Tasks PROVE Placed(m, q, p, T, v)
    <3>1. Placed(l, q, p, T, v)
      BY DEF InPlace
    <3>2. ~Occurs(m.gate, v) /\ (v # u => ~Occurs(l.gate, v) /\ ~HeadOf(l, v))
      BY <1>1, <1>3, <2>2 DEF HeadOf
    <3> QED BY <3>1, <3>2, <1>3, <2>1 DEF Placed
  <2>6. InPlace(m, q, p, T)
    BY <2>4, <2>5 DEF InPlace
  <2> QED BY <1>3, <2>1, <2>2, <2>3, <2>6 DEF m
<1> QED BY <1>4, <1>5

(* The oldest ready task is taken in hand. *)
LEMMA Polls ==
    ASSUME NEW l, NEW q, NEW p, InPlace(l, q, p, {}), l.ready # <<>>,
           NEW m \in LoopType, m.ready = Tail(l.ready), m.task = l.task, m.gate = l.gate
    PROVE  InPlace(m, q, p, {l.ready[1]})
<1>1. l.ready \in Seq(Tasks) /\ IsInjective(l.ready) /\ Lined(l, q, p)
  BY LoopFields DEF InPlace, Lined
<1>2. /\ m.ready \in Seq(Tasks) /\ IsInjective(m.ready)
      /\ \A x : Occurs(m.ready, x) <=> Occurs(l.ready, x) /\ x # l.ready[1]
  BY <1>1, TailOccurs
<1>3. PICK u \in Tasks : u = l.ready[1] /\ Occurs(l.ready, u)
  BY <1>1, HeadOccurs
<1>4. Lined(m, q, p)
  BY <1>1, <1>2 DEF Lined
<1>5. \A v : HeadOf(m, v) <=> HeadOf(l, v)
  BY DEF HeadOf
<1>6. ASSUME NEW v \in Tasks PROVE Placed(m, q, p, {u}, v)
  <2>1. Placed(l, q, p, {}, v)
    BY DEF InPlace
  <2>2. Occurs(m.ready, v) <=> Occurs(l.ready, v) /\ v # u
    BY <1>2, <1>3
  <2>3. CASE v = u
    BY <2>1, <2>2, <2>3, <1>3, <1>5 DEF Placed
  <2>4. CASE v # u
    BY <2>1, <2>2, <2>4, <1>5 DEF Placed
  <2> QED BY <2>3, <2>4
<1> QED BY <1>3, <1>4, <1>6 DEF InPlace

(* Tasks that are in no line may be taken in hand. *)
LEMMA TakesResting ==
    ASSUME NEW l, NEW q, NEW p, NEW T, InPlace(l, q, p, T), NEW W \in SUBSET Tasks,
           \A u \in W : /\ ~Occurs(l.ready, u) /\ u \notin T /\ ~AtGate(l.task[u])
                         /\ l.task[u].at \notin FreeCalls
    PROVE  InPlace(l, q, p, T \cup W)
<1>1. ASSUME NEW v \in Tasks PROVE Placed(l, q, p, T \cup W, v)
  <2>1. Placed(l, q, p, T, v)
    BY DEF InPlace
  <2>2. CASE v \in W
    <3>1. v \notin p
      BY <2>1, <2>2 DEF Placed, AtGate, HeldCalls, FreeCalls
    <3>2. ~Occurs(l.gate, v)
      BY <2>1, <2>2 DEF Placed
    <3>3. \A s \in Sessions : ~Occurs(q[s], v)
      BY <2>1, <2>2 DEF Placed, AtGate
    <3> QED BY <2>2, <3>1, <3>2, <3>3 DEF Placed
  <2>3. CASE v \notin W
    <3>1. v \in T \cup W <=> v \in T
      BY <2>3
    <3> QED BY <2>1, <3>1 DEF Placed
  <2> QED BY <2>2, <2>3
<1> QED BY <1>1 DEF InPlace

(* A session takes the first command of its queue. *)
LEMMA Dequeues ==
    ASSUME NEW l, NEW q, NEW p, NEW T, InPlace(l, q, p, T), NEW s \in Sessions,
           q[s] # <<>>, NEW u \in Tasks, u = q[s][1], Shutdown \notin Tasks,
           NEW q2, q2 = [q EXCEPT ![s] = Tail(@)]
    PROVE  InPlace(l, q2, p, T \cup {u})
<1>1. Lined(l, q, p) /\ q \in [Sessions -> Seq(Tasks \cup {Shutdown})]
      /\ q[s] \in Seq(Tasks \cup {Shutdown}) /\ Once(q[s])
  BY DEF InPlace, Lined
<1>2. PICK c \in Seq(Tasks \cup {Shutdown}) : c = q[s]
  BY <1>1
<1>3. PICK n \in Nat : n = Len(c) /\ n # 0
  BY <1>2, EmptySeq
<1>4. /\ Tail(c) \in Seq(Tasks \cup {Shutdown}) /\ Len(Tail(c)) = n - 1
      /\ \A i \in 1 .. n - 1 : Tail(c)[i] = c[i + 1]
  BY <1>2, <1>3, HeadTailProperties
<1>5. \A i, j \in 1 .. n : c[i] = c[j] /\ c[i] # Shutdown => i = j
  BY <1>1, <1>2, <1>3 DEF Once
<1>6. Once(Tail(c))
  <2> SUFFICES ASSUME NEW i \in 1 .. n - 1, NEW j \in 1 .. n - 1,
                      Tail(c)[i] = Tail(c)[j], Tail(c)[i] # Shutdown
               PROVE  i = j
    BY <1>4 DEF Once
  <2>1. i + 1 \in 1 .. n /\ j + 1 \in 1 .. n /\ c[i + 1] = c[j + 1] /\ c[i + 1] # Shutdown
    BY <1>4
  <2>2. i + 1 = j + 1
    BY <2>1, <1>5
  <2> QED BY <2>2
<1>7. ~Occurs(Tail(c), u)
  <2> SUFFICES ASSUME NEW i \in 1 .. n - 1, Tail(c)[i] = u PROVE FALSE
    BY <1>4 DEF Occurs
  <2>1. i + 1 \in 1 .. n /\ 1 \in 1 .. n /\ c[i + 1] = c[1] /\ c[1] # Shutdown
    BY <1>2, <1>4
  <2>2. i + 1 = 1
    BY <2>1, <1>5
  <2> QED BY <2>2
<1>8. \A x : Occurs(Tail(c), x) => Occurs(c, x)
  <2> TAKE x
  <2> SUFFICES ASSUME NEW i \in 1 .. n - 1, Tail(c)[i] = x PROVE Occurs(c, x)
    BY <1>4 DEF Occurs
  <2>1. i + 1 \in 1 .. n /\ c[i + 1] = x
    BY <1>4
  <2> QED BY <2>1, <1>3 DEF Occurs
<1>14. \A x : x # u /\ Occurs(c, x) => Occurs(Tail(c), x)
  <2> TAKE x
  <2> SUFFICES ASSUME NEW i \in 1 .. n, c[i] = x, x # u PROVE Occurs(Tail(c), x)
    BY <1>3 DEF Occurs
  <2>1. i # 1 /\ i - 1 \in 1 .. n - 1 /\ (i - 1) + 1 = i
    BY <1>2
  <2>2. Tail(c)[i - 1] = x
    BY <1>4, <2>1
  <2> QED BY <2>1, <2>2, <1>4 DEF Occurs
<1>9. /\ q2 \in [Sessions -> Seq(Tasks \cup {Shutdown})] /\ q2[s] = Tail(c)
      /\ \A z \in Sessions \ {s} : q2[z] = q[z]
  BY <1>1, <1>2, <1>4
<1>10. Lined(l, q2, p)
  BY <1>1, <1>6, <1>9 DEF Lined
<1>11. Occurs(c, u)
  BY <1>2, <1>3 DEF Occurs
<1>12. ASSUME NEW v \in Tasks PROVE Placed(l, q2, p, T \cup {u}, v)
  <2>1. Placed(l, q, p, T, v)
    BY DEF InPlace
  <2>2. \A z \in Sessions : Occurs(q2[z], v) => Occurs(q[z], v)
    BY <1>2, <1>8, <1>9
  <2>3. CASE v = u
    <3>1. l.task[v].on = s /\ l.task[v].at \in HeldCalls \cup FreeCalls
          /\ ~Occurs(l.ready, v) /\ v \notin p /\ v \notin T
      BY <2>1, <2>3, <1>2, <1>11 DEF Placed
    <3>2. \A z \in Sessions : ~Occurs(q2[z], v)
      BY <2>1, <2>2, <2>3, <3>1, <1>7, <1>9 DEF Placed
    <3>3. Occurs(l.gate, v) => HeadOf(l, v)
      <4>1. l.task[v].at \notin GateStations \/ l.task[v].at \in HeldCalls
        BY <3>1 DEF GateStations, HeldCalls, FreeCalls
      <4> QED BY <2>1, <3>1, <4>1 DEF Placed, AtGate
    <3> QED BY <3>1, <3>2, <3>3, <2>3 DEF Placed
  <2>4. CASE v # u
    <3>1. v \in T \cup {u} <=> v \in T
      BY <2>4
    <3> QED BY <2>1, <2>2, <3>1 DEF Placed
  <2> QED BY <2>3, <2>4
<1> QED BY <1>10, <1>12 DEF InPlace

(* A queue is emptied: those who waited in it are taken in hand. *)
LEMMA EmptiesQueue ==
    ASSUME NEW l, NEW q, NEW p, NEW T, InPlace(l, q, p, T), NEW s \in Sessions,
           NEW q2, q2 = [q EXCEPT ![s] = <<>>],
           NEW W, \A u \in Tasks : u \in W <=> Occurs(q[s], u)
    PROVE  InPlace(l, q2, p, T \cup W)
<1>1. Lined(l, q, p) /\ q \in [Sessions -> Seq(Tasks \cup {Shutdown})]
  BY DEF InPlace, Lined
<1>2. <<>> \in Seq(Tasks \cup {Shutdown}) /\ Once(<<>>) /\ \A x : ~Occurs(<<>>, x)
  BY EmptySeq, EmptyOccurs DEF Once
<1>3. /\ q2 \in [Sessions -> Seq(Tasks \cup {Shutdown})] /\ q2[s] = <<>>
      /\ \A z \in Sessions \ {s} : q2[z] = q[z]
  BY <1>1, <1>2
<1>5. \A v \in Tasks : v \in W <=> Occurs(q[s], v)
  OBVIOUS
<1>4. Lined(l, q2, p)
  BY <1>1, <1>2, <1>3 DEF Lined
<1>6. ASSUME NEW v \in Tasks PROVE Placed(l, q2, p, T \cup W, v)
  <2>1. Placed(l, q, p, T, v)
    BY DEF InPlace
  <2>2. \A z \in Sessions : Occurs(q2[z], v) => Occurs(q[z], v) /\ z # s
    BY <1>2, <1>3
  <2>3. CASE v \in W
    <3>1. l.task[v].on = s /\ l.task[v].at \in HeldCalls \cup FreeCalls
          /\ ~Occurs(l.ready, v) /\ v \notin p /\ v \notin T
      BY <2>1, <2>3, <1>5 DEF Placed
    <3>2. \A z \in Sessions : ~Occurs(q2[z], v)
      BY <2>1, <2>2, <3>1 DEF Placed
    <3>3. Occurs(l.gate, v) => HeadOf(l, v)
      <4>1. l.task[v].at \notin GateStations \/ l.task[v].at \in HeldCalls
        BY <3>1 DEF GateStations, HeldCalls, FreeCalls
      <4> QED BY <2>1, <3>1, <4>1 DEF Placed, AtGate
    <3> QED BY <3>1, <3>2, <3>3, <2>3 DEF Placed
  <2>4. CASE v \notin W
    <3>1. v \in T \cup W <=> v \in T
      BY <2>4
    <3> QED BY <2>1, <2>2, <3>1 DEF Placed
  <2> QED BY <2>3, <2>4
<1> QED BY <1>4, <1>6 DEF InPlace

(* Kept replies are taken in hand. *)
LEMMA Unparks ==
    ASSUME NEW l, NEW q, NEW p, NEW T, InPlace(l, q, p, T), NEW K \in SUBSET p
    PROVE  InPlace(l, q, p \ K, T \cup K)
<1>1. Lined(l, q, p \ K)
  BY DEF InPlace, Lined
<1>2. ASSUME NEW v \in Tasks PROVE Placed(l, q, p \ K, T \cup K, v)
  <2>1. Placed(l, q, p, T, v)
    BY DEF InPlace
  <2>2. CASE v \in K
    <3>1. v \in p /\ v \notin T /\ ~Occurs(l.ready, v) /\ \A s \in Sessions : ~Occurs(q[s], v)
      BY <2>1, <2>2 DEF Placed
    <3>2. Occurs(l.gate, v) => HeadOf(l, v)
      <4>1. l.task[v].at \notin GateStations \/ l.task[v].at \in HeldCalls
        BY <2>1, <3>1 DEF Placed, GateStations, HeldCalls
      <4> QED BY <2>1, <3>1, <4>1 DEF Placed, AtGate
    <3> QED BY <2>2, <3>1, <3>2 DEF Placed
  <2>3. CASE v \notin K
    <3>1. (v \in T \cup K <=> v \in T) /\ (v \in p \ K <=> v \in p)
      BY <2>3
    <3> QED BY <2>1, <3>1 DEF Placed
  <2> QED BY <2>2, <2>3
<1> QED BY <1>1, <1>2 DEF InPlace

(* The reply of a call in hand is kept. *)
LEMMA Parks ==
    ASSUME NEW l, NEW q, NEW p, NEW T, InPlace(l, q, p, T), NEW u \in T, u \in Tasks,
           l.task[u].at \in {"finishing", "confirming"},
           AtGate(l.task[u]) <=> Occurs(l.gate, u)
    PROVE  InPlace(l, q, p \cup {u}, T \ {u})
<1>1. Lined(l, q, p \cup {u})
  BY DEF InPlace, Lined
<1>2. ASSUME NEW v \in Tasks PROVE Placed(l, q, p \cup {u}, T \ {u}, v)
  <2>1. Placed(l, q, p, T, v)
    BY DEF InPlace
  <2>2. CASE v = u
    <3>1. ~Occurs(l.ready, v) /\ \A s \in Sessions : ~Occurs(q[s], v)
      BY <2>1, <2>2 DEF Placed
    <3>2. Occurs(l.gate, v) => HeadOf(l, v)
      BY <2>1, <2>2 DEF Placed
    <3>3. l.task[v].at \in HeldCalls => AtGate(l.task[v])
      BY DEF AtGate
    <3> QED BY <2>2, <3>1, <3>2, <3>3 DEF Placed
  <2>3. CASE v # u
    <3>1. (v \in T \ {u} <=> v \in T) /\ (v \in p \cup {u} <=> v \in p)
      BY <2>3
    <3> QED BY <2>1, <3>1 DEF Placed
  <2> QED BY <2>2, <2>3
<1> QED BY <1>1, <1>2 DEF InPlace

(* Tasks in hand are made ready where they are. *)
LEMMA Wakes ==
    ASSUME NEW l, NEW q, NEW p, NEW T, InPlace(l, q, p, T), NEW W \in SUBSET T, W \subseteq Tasks,
           NEW m \in LoopType, m.gate = l.gate, IsInjective(m.ready),
           \A x : Occurs(m.ready, x) <=> Occurs(l.ready, x) \/ x \in W,
           \A v \in Tasks : m.task[v].at = l.task[v].at /\ m.task[v].on = l.task[v].on,
           \A v \in Tasks \ W : m.task[v].answer = l.task[v].answer,
           \A v \in W : Awake(m.task[v]) /\ (AtGate(l.task[v]) <=> Occurs(l.gate, v))
    PROVE  InPlace(m, q, p, T \ W)
<1>1. Lined(m, q, p)
  BY DEF InPlace, Lined
<1>2. \A v : HeadOf(m, v) <=> HeadOf(l, v)
  BY DEF HeadOf
<1>3. ASSUME NEW v \in Tasks PROVE Placed(m, q, p, T \ W, v)
  <2>1. Placed(l, q, p, T, v)
    BY DEF InPlace
  <2>2. AtGate(m.task[v]) <=> AtGate(l.task[v])
    BY DEF AtGate
  <2>3. CASE v \in W
    <3>1. v \notin p /\ (\A s \in Sessions : ~Occurs(q[s], v))
          /\ (Occurs(l.gate, v) => HeadOf(l, v))
      BY <2>1, <2>3 DEF Placed
    <3>2. m.task[v].at \in HeldCalls => AtGate(m.task[v])
      BY DEF AtGate
    <3> QED BY <2>2, <2>3, <3>1, <3>2, <1>2 DEF Placed
  <2>4. CASE v \notin W
    <3>1. (v \in T \ W <=> v \in T) /\ (Occurs(m.ready, v) <=> Occurs(l.ready, v))
      BY <2>4
    <3>2. Awake(m.task[v]) <=> Awake(l.task[v])
      BY <2>4 DEF Awake
    <3> QED BY <2>1, <2>2, <3>1, <3>2, <1>2 DEF Placed
  <2> QED BY <2>3, <2>4
<1> QED BY <1>1, <1>3 DEF InPlace

(* The command that nobody waits for. *)
LEMMA QueuesShutdown ==
    ASSUME NEW l, NEW q, NEW p, NEW T, InPlace(l, q, p, T), NEW s \in Sessions,
           Shutdown \notin Tasks, NEW q2, q2 = [q EXCEPT ![s] = Append(@, Shutdown)]
    PROVE  InPlace(l, q2, p, T)
<1>1. Lined(l, q, p) /\ q \in [Sessions -> Seq(Tasks \cup {Shutdown})]
      /\ q[s] \in Seq(Tasks \cup {Shutdown}) /\ Once(q[s])
  BY DEF InPlace, Lined
<1>2. /\ Append(q[s], Shutdown) \in Seq(Tasks \cup {Shutdown})
      /\ \A y : Occurs(Append(q[s], Shutdown), y) <=> Occurs(q[s], y) \/ y = Shutdown
  BY <1>1, AppendOccurs
<1>3. Once(Append(q[s], Shutdown))
  BY <1>1, AppendProperties DEF Once
<1>4. q2 \in [Sessions -> Seq(Tasks \cup {Shutdown})] /\ q2[s] = Append(q[s], Shutdown)
       /\ \A z \in Sessions \ {s} : q2[z] = q[z]
  BY <1>1, <1>2
<1>5. Lined(l, q2, p)
  BY <1>1, <1>3, <1>4 DEF Lined
<1>6. ASSUME NEW v \in Tasks PROVE Placed(l, q2, p, T, v)
  <2>1. Placed(l, q, p, T, v)
    BY DEF InPlace
  <2>2. \A z \in Sessions : Occurs(q2[z], v) <=> Occurs(q[z], v)
    BY <1>2, <1>4
  <2> QED BY <2>1, <2>2 DEF Placed
<1> QED BY <1>5, <1>6 DEF InPlace

(* What no place depends on may change. *)
LEMMA Relabels ==
    ASSUME NEW l, NEW q, NEW p, NEW T, InPlace(l, q, p, T),
           NEW m \in LoopType, m.gate = l.gate, m.ready = l.ready,
           \A v \in Tasks : /\ m.task[v].at = l.task[v].at /\ m.task[v].on = l.task[v].on
                            /\ m.task[v].answer = l.task[v].answer
    PROVE  InPlace(m, q, p, T)
<1>1. PICK W \in SUBSET T : W = {}
  OBVIOUS
<1>2. \A x : Occurs(m.ready, x) <=> Occurs(l.ready, x) \/ x \in W
  BY <1>1
<1>3. IsInjective(m.ready) /\ W \subseteq Tasks
  BY <1>1 DEF InPlace, Lined
<1>4. /\ \A v \in Tasks : m.task[v].at = l.task[v].at /\ m.task[v].on = l.task[v].on
      /\ \A v \in Tasks \ W : m.task[v].answer = l.task[v].answer
  OBVIOUS
<1>5. \A v \in W : Awake(m.task[v]) /\ (AtGate(l.task[v]) <=> Occurs(l.gate, v))
  BY <1>1
<1>6. InPlace(m, q, p, T \ W)
  BY <1>2, <1>3, <1>4, <1>5, Wakes
<1>7. T \ W = T
  BY <1>1
<1> QED BY <1>6, <1>7

-----------------------------------------------------------------------------
(***************************************************************************)
(* What the steps of a turn do to the lines.                               *)
(***************************************************************************)

(* A line that loses nobody and keeps the order of those it had. *)
GrowsTo(a, b) == /\ \A v : Occurs(a, v) => Occurs(b, v)
                 /\ \A v, w : Before(a, v, w) => Before(b, v, w)

(* A task put before a line. *)
Ahead(t, s) == <<t>> \o s

\* A task that goes on at, and one that calls session s about id.
Moved(r, at) == [r EXCEPT !.at = at, !.answer = "none"]
(* A task that calls session s about id: the answer is there at once if the
   session has ended. *)
Called(r, s, id, at) ==
    [r EXCEPT !.at = at, !.on = s, !.id = id,
              !.answer = IF life[s] = "open" THEN "none" ELSE "error"]

(* The fields of a task and their types. *)
LEMMA TaskFields ==
    ASSUME NEW r \in TaskType
    PROVE  /\ r.kind \in Kinds /\ r.at \in Stations /\ r.id \in Ids \cup {NoId}
           /\ r.on \in Sessions \cup {NoSession} /\ r.valid \in BOOLEAN /\ r.generation \in Nat
           /\ r.saw \in Dialogs /\ r.answer \in Answers /\ r.due \in BOOLEAN
BY DEF TaskType

(* A task that moves on is a task. *)
LEMMA MovedType ==
    ASSUME NEW r \in TaskType, NEW at \in Stations
    PROVE  /\ Moved(r, at) \in TaskType
           /\ Moved(r, at).at = at /\ Moved(r, at).answer = "none" /\ Moved(r, at).kind = r.kind
           /\ Moved(r, at).id = r.id /\ Moved(r, at).on = r.on /\ Moved(r, at).valid = r.valid
           /\ Moved(r, at).generation = r.generation /\ Moved(r, at).saw = r.saw
<1>1. "none" \in Answers
  BY DEF Answers
<1> QED BY <1>1 DEF Moved, TaskType

(* A task that calls is a task. *)
LEMMA CalledType ==
    ASSUME NEW r \in TaskType, NEW at \in Stations, NEW s \in Sessions, NEW id \in Ids \cup {NoId}
    PROVE  /\ Called(r, s, id, at) \in TaskType
           /\ Called(r, s, id, at).at = at /\ Called(r, s, id, at).on = s
           /\ Called(r, s, id, at).id = id /\ Called(r, s, id, at).kind = r.kind
           /\ Called(r, s, id, at).valid = r.valid
           /\ Called(r, s, id, at).generation = r.generation /\ Called(r, s, id, at).saw = r.saw
           /\ Called(r, s, id, at).answer = (IF life[s] = "open" THEN "none" ELSE "error")
<1>1. "none" \in Answers /\ "error" \in Answers
  BY DEF Answers
<1> QED BY <1>1 DEF Called, TaskType

(* A slot without a task has the type of a task. *)
LEMMA NoTaskType == NoTask \in TaskType
<1>1. NoTask.kind \in Kinds /\ NoTask.at \in Stations /\ NoTask.answer \in Answers
  BY DEF NoTask, Kinds, Stations, Answers
<1>2. Nothing \in Dialogs
  BY DEF Dialogs
<1> QED BY <1>1, <1>2 DEF NoTask, TaskType

(* What a step in hand does to one task. *)
LEMMA TaskSet ==
    ASSUME NEW l \in LoopType, NEW t \in Tasks, NEW r \in TaskType
    PROVE  /\ [l EXCEPT !.task[t] = r] \in LoopType
           /\ [l EXCEPT !.task[t] = r].task = [l.task EXCEPT ![t] = r]
           /\ [l EXCEPT !.task[t] = r].ready = l.ready
           /\ [l EXCEPT !.task[t] = r].gate = l.gate
           /\ [l EXCEPT !.task[t] = r].turn = l.turn
BY DEF LoopType

(* What At leaves of the loop. *)
LEMMA AtSets ==
    ASSUME NEW l \in LoopType, NEW t \in Tasks, NEW at \in Stations
    PROVE  /\ At(l, t, at) \in LoopType
           /\ At(l, t, at).task = [l.task EXCEPT ![t] = Moved(l.task[t], at)]
           /\ At(l, t, at).ready = l.ready
           /\ At(l, t, at).gate = l.gate
           /\ At(l, t, at).turn = l.turn
<1>1. At(l, t, at) = [l EXCEPT !.task = [l.task EXCEPT ![t] = Moved(l.task[t], at)]]
  BY DEF At, LoopType, Moved
<1>2. Moved(l.task[t], at) \in TaskType
  BY MovedType DEF LoopType
<1> QED BY <1>1, <1>2 DEF LoopType

(* What Continues leaves of the loop. *)
LEMMA ContinuesSets ==
    ASSUME NEW l \in LoopType, NEW t \in Tasks, NEW at \in Stations
    PROVE  /\ Continues(l, t, at) \in LoopType
           /\ Continues(l, t, at).task = [l.task EXCEPT ![t] = Moved(l.task[t], at)]
           /\ Continues(l, t, at).ready = <<t>> \o l.ready
           /\ Continues(l, t, at).gate = l.gate
           /\ Continues(l, t, at).turn = t
<1>1. PICK m : m = At(l, t, at)
  OBVIOUS
<1>2. /\ m \in LoopType /\ m.task = [l.task EXCEPT ![t] = Moved(l.task[t], at)]
      /\ m.ready = l.ready /\ m.gate = l.gate
  BY <1>1, AtSets
<1>3. Continues(l, t, at) = [m EXCEPT !.ready = <<t>> \o m.ready, !.turn = t]
  BY <1>1, <1>2 DEF Continues
<1>4. <<t>> \o m.ready \in Seq(Tasks)
  BY <1>2, LoopFields, PrependOccurs
<1> QED BY <1>2, <1>3, <1>4 DEF LoopType

(* A task goes on in the same turn, with an answer it was given at once. *)
LEMMA GoesOn ==
    ASSUME NEW l, NEW q, NEW p, NEW T, InPlace(l, q, p, T), NEW t \in T, t \in Tasks,
           NEW r \in TaskType, Awake(r), AtGate(r) <=> Occurs(l.gate, t),
           NEW m \in LoopType, m.gate = l.gate, m.task = [l.task EXCEPT ![t] = r],
           m.ready = Ahead(t, l.ready)
    PROVE  InPlace(m, q, p, T \ {t}) /\ GrowsTo(l.ready, m.ready)
<1>1. l.ready \in Seq(Tasks) /\ IsInjective(l.ready) /\ ~Occurs(l.ready, t)
  BY LoopFields DEF InPlace, Lined, Placed
<1>2. /\ IsInjective(m.ready) /\ \A y : Occurs(m.ready, y) <=> Occurs(l.ready, y) \/ y = t
      /\ \A y, z : Before(l.ready, y, z) => Before(m.ready, y, z)
  BY <1>1, PrependOccurs DEF Ahead
<1>3. InPlace(m, q, p, T \ {t})
  BY <1>2, Readies
<1> QED BY <1>2, <1>3 DEF GrowsTo

(* A task whose turn it is may go on at the end of the line. *)
LEMMA GoesLast ==
    ASSUME NEW l, NEW q, NEW p, NEW T, InPlace(l, q, p, T), NEW t \in T, t \in Tasks,
           NEW r \in TaskType, Awake(r), AtGate(r) <=> Occurs(l.gate, t),
           NEW m \in LoopType, m.gate = l.gate, m.task = [l.task EXCEPT ![t] = r],
           m.ready = Append(l.ready, t)
    PROVE  /\ InPlace(m, q, p, T \ {t}) /\ GrowsTo(l.ready, m.ready)
           /\ Occurs(m.ready, t) /\ \A v : Occurs(l.ready, v) => Before(m.ready, v, t)
<1>1. l.ready \in Seq(Tasks) /\ IsInjective(l.ready) /\ ~Occurs(l.ready, t)
  BY LoopFields DEF InPlace, Lined, Placed
<1>2. /\ IsInjective(m.ready) /\ \A y : Occurs(m.ready, y) <=> Occurs(l.ready, y) \/ y = t
      /\ \A y, z : Before(l.ready, y, z) => Before(m.ready, y, z)
      /\ \A y : Occurs(l.ready, y) => Before(m.ready, y, t)
  BY <1>1, AppendOccurs
<1>3. InPlace(m, q, p, T \ {t})
  BY <1>2, Readies
<1> QED BY <1>2, <1>3 DEF GrowsTo

(* Locking the gate. *)
LEMMA LockMoves ==
    ASSUME NEW l, NEW q, NEW p, NEW t \in Tasks, InPlace(l, q, p, {t}), ~Occurs(l.gate, t),
           NEW at \in GateStations
    PROVE  /\ InPlace(Lock(l, t, at), q, p, {})
           /\ Lock(l, t, at).task = [l.task EXCEPT ![t] = Moved(l.task[t], at)]
           /\ GrowsTo(l.ready, Lock(l, t, at).ready)
<1> DEFINE r == Moved(l.task[t], at)
<1>1. l \in LoopType /\ l.task \in [Tasks -> TaskType] /\ l.gate \in Seq(Tasks)
  BY LoopFields DEF InPlace, Lined
<1>2. at \in Stations
  BY DEF Stations
<1>3. r \in TaskType /\ r.at = at
  BY <1>1, <1>2, MovedType
<1>4. AtGate(r) /\ Awake(r)
  BY <1>3 DEF AtGate, Awake, GateStations, Waits
<1>5. {t} \ {t} = {}
  OBVIOUS
<1> HIDE DEF r
<1>6. CASE l.gate = <<>>
  <2>1. PICK m : m = Continues(l, t, at)
    OBVIOUS
  <2>2. /\ m \in LoopType /\ m.task = [l.task EXCEPT ![t] = r] /\ m.ready = <<t>> \o l.ready
        /\ m.gate = l.gate
    BY <1>1, <1>2, <2>1, ContinuesSets DEF r
  <2>3. PICK n : n = [m EXCEPT !.gate = <<t>>]
    OBVIOUS
  <2>4. <<t>> \in Seq(Tasks)
    OBVIOUS
  <2>5. n \in LoopType /\ n.task = m.task /\ n.ready = m.ready /\ n.gate = <<t>>
    BY <2>2, <2>3, <2>4 DEF LoopType
  <2>6. PICK k : k = [l EXCEPT !.gate = <<t>>]
    OBVIOUS
  <2>7. k \in LoopType /\ k.task = l.task /\ k.ready = l.ready /\ k.gate = <<t>>
    BY <1>1, <2>6, <2>4 DEF LoopType
  <2>8. InPlace(k, q, p, {t})
    BY <1>6, <2>7, TakesGate
  <2>9. Occurs(k.gate, t)
    BY <2>7, SingletonOccurs
  <2>12. n.task = [k.task EXCEPT ![t] = r] /\ n.ready = Ahead(t, k.ready) /\ n.gate = k.gate
    BY <2>2, <2>5, <2>7 DEF Ahead
  <2>14. AtGate(r) <=> Occurs(k.gate, t)
    BY <1>4, <2>9
  <2>13. InPlace(n, q, p, {t} \ {t}) /\ GrowsTo(k.ready, n.ready)
    BY <2>8, <2>5, <2>12, <2>14, <1>3, <1>4, GoesOn
  <2>10. InPlace(n, q, p, {}) /\ GrowsTo(k.ready, n.ready)
    BY <2>13, <1>5
  <2>11. Lock(l, t, at) = n
    BY <1>6, <2>1, <2>3 DEF Lock
  <2> QED BY <2>2, <2>5, <2>7, <2>10, <2>11 DEF r
<1>7. CASE l.gate # <<>>
  <2>1. PICK m : m = At(l, t, at)
    OBVIOUS
  <2>2. /\ m \in LoopType /\ m.task = [l.task EXCEPT ![t] = r] /\ m.ready = l.ready
        /\ m.gate = l.gate
    BY <1>1, <1>2, <2>1, AtSets DEF r
  <2>3. PICK n : n = [m EXCEPT !.gate = Append(@, t)]
    OBVIOUS
  <2>4. Append(l.gate, t) \in Seq(Tasks)
    BY <1>1, AppendProperties
  <2>5. n \in LoopType /\ n.task = m.task /\ n.ready = m.ready /\ n.gate = Append(l.gate, t)
    BY <2>2, <2>3, <2>4 DEF LoopType
  <2>8. n.task = [l.task EXCEPT ![t] = r] /\ n.ready = l.ready
    BY <2>2, <2>5
  <2>9. InPlace(n, q, p, {t} \ {t})
    BY <1>3, <1>7, <2>5, <2>8, WaitsForGate
  <2>6. InPlace(n, q, p, {})
    BY <2>9, <1>5
  <2>7. Lock(l, t, at) = n
    BY <1>7, <2>1, <2>3 DEF Lock
  <2> QED BY <2>2, <2>5, <2>6, <2>7 DEF r, GrowsTo
<1> QED BY <1>6, <1>7

(* Calling a method of a session. *)
LEMMA CallMoves ==
    ASSUME NEW l, NEW t \in Tasks, InPlace(l, queue, parked, {t}), NEW s \in Sessions,
           NEW id \in Ids \cup {NoId}, NEW at \in HeldCalls \cup FreeCalls,
           at \in HeldCalls <=> Occurs(l.gate, t), CallsFrom(l, t, s, id, at)
    PROVE  /\ InPlace(loop', queue', parked, {})
           /\ loop'.task = [l.task EXCEPT ![t] = Called(l.task[t], s, id, at)]
           /\ GrowsTo(l.ready, loop'.ready)
<1> DEFINE r == Called(l.task[t], s, id, at)
<1>1. l \in LoopType /\ l.task \in [Tasks -> TaskType] /\ l.gate \in Seq(Tasks)
  BY LoopFields DEF InPlace, Lined
<1>2. at \in Stations
  BY DEF Stations
<1>3. r \in TaskType /\ r.at = at /\ r.on = s
  BY <1>1, <1>2, CalledType
<1>4. AtGate(r) <=> Occurs(l.gate, t)
  BY <1>3 DEF AtGate, GateStations, HeldCalls, FreeCalls
<1>5. Awake(r) /\ {t} \ {t} = {}
  BY <1>3 DEF Awake, Waits, HeldCalls, FreeCalls
<1> HIDE DEF r
<1>6. PICK c : c = [At(l, t, at) EXCEPT !.task[t].on = s, !.task[t].id = id]
  OBVIOUS
<1>7. PICK b : b = At(l, t, at)
  OBVIOUS
<1>8. /\ b \in LoopType /\ b.task = [l.task EXCEPT ![t] = Moved(l.task[t], at)]
      /\ b.ready = l.ready /\ b.gate = l.gate /\ b.turn = l.turn
  BY <1>1, <1>2, <1>7, AtSets
<1>9. c = [b EXCEPT !.task = [b.task EXCEPT ![t] = [b.task[t] EXCEPT !.on = s, !.id = id]]]
  BY <1>6, <1>7, <1>8 DEF LoopType
<1>10. PICK x \in TaskType : x = l.task[t]
  BY <1>1
<1>11. b.task[t] = Moved(x, at)
  BY <1>1, <1>8, <1>10
<1>12. PICK y \in TaskType : y = [b.task[t] EXCEPT !.on = s, !.id = id]
  <2>1. Moved(x, at) \in TaskType
    BY <1>2, MovedType
  <2> QED BY <1>11, <2>1 DEF TaskType
<1>13. y = [x EXCEPT !.at = at, !.answer = "none", !.on = s, !.id = id]
  BY <1>11, <1>12, <1>10 DEF Moved, TaskType
<1>14. /\ c \in LoopType /\ c.task = [l.task EXCEPT ![t] = y] /\ c.ready = l.ready
       /\ c.gate = l.gate /\ c.turn = l.turn
  <2>1. c.task = [b.task EXCEPT ![t] = y] /\ c.ready = b.ready /\ c.gate = b.gate /\ c.turn = b.turn
    BY <1>8, <1>9, <1>12 DEF LoopType
  <2>2. [b.task EXCEPT ![t] = y] = [l.task EXCEPT ![t] = y]
    BY <1>1, <1>8
  <2>3. c \in LoopType
    BY <1>8, <1>9, <1>12 DEF LoopType
  <2> QED BY <1>8, <2>1, <2>2, <2>3
<1>15. CASE life[s] = "open"
  <2>1. loop' = c /\ queue' = [queue EXCEPT ![s] = Append(@, t)]
    BY <1>6, <1>15 DEF CallsFrom
  <2>2. y = r
    BY <1>10, <1>13, <1>15 DEF r, Called, TaskType
  <2>4. Shutdown \notin Tasks
    BY AppAssumption DEF Shutdown
  <2>5. c.task = [l.task EXCEPT ![t] = r]
    BY <1>14, <2>2
  <2>6. PICK q2 : q2 = queue'
    OBVIOUS
  <2>7. PICK T : T = {t}
    OBVIOUS
  <2>8. InPlace(l, queue, parked, T) /\ t \in T /\ q2 = WithCommand(queue, s, t)
    BY <2>1, <2>6, <2>7 DEF WithCommand
  <2>9. InPlace(c, q2, parked, T \ {t})
    <3>1. PICK d \in TaskType : d = r
      BY <1>3
    <3>2. d.on = s /\ d.at \in HeldCalls \cup FreeCalls /\ c.task = [l.task EXCEPT ![t] = d]
      BY <1>3, <2>5, <3>1
    <3>3. AtGate(d) <=> Occurs(l.gate, t)
      BY <1>4, <3>1
    <3>4. c \in LoopType /\ c.ready = l.ready /\ c.gate = l.gate
      BY <1>14
    <3> QED BY <2>4, <2>8, <3>2, <3>3, <3>4, Enqueues
  <2>3. InPlace(c, queue', parked, {})
    BY <2>6, <2>7, <2>9, <1>5
  <2> QED BY <1>14, <2>1, <2>2, <2>3 DEF r, GrowsTo
<1>16. CASE life[s] # "open"
  <2>1. PICK m : m = Continues(c, t, at)
    OBVIOUS
  <2>2. /\ m \in LoopType /\ m.task = [c.task EXCEPT ![t] = Moved(c.task[t], at)]
        /\ m.ready = <<t>> \o c.ready /\ m.gate = c.gate
    BY <1>2, <1>14, <2>1, ContinuesSets
  <2>3. loop' = [m EXCEPT !.task[t].answer = "error"] /\ queue' = queue
    BY <1>6, <1>16, <2>1 DEF CallsFrom
  <2>4. c.task[t] = y
    BY <1>1, <1>14
  <2>5. m.task[t] = Moved(y, at)
    BY <2>2, <2>4, <1>14 DEF LoopType
  <2>6. r = [m.task[t] EXCEPT !.answer = "error"]
    BY <1>10, <1>13, <1>16, <2>5 DEF r, Called, Moved, TaskType
  <2>7. loop' = [m EXCEPT !.task = [m.task EXCEPT ![t] = r]]
    BY <2>2, <2>3, <2>6 DEF LoopType
  <2>8. loop' \in LoopType /\ loop'.task = [m.task EXCEPT ![t] = r] /\ loop'.ready = m.ready
        /\ loop'.gate = m.gate
    BY <1>3, <2>2, <2>7 DEF LoopType
  <2>9. [m.task EXCEPT ![t] = r] = [l.task EXCEPT ![t] = r]
    BY <1>1, <1>14, <2>2
  <2>10. InPlace(loop', queue, parked, {}) /\ GrowsTo(l.ready, loop'.ready)
    <3>1. PICK n \in LoopType : n = loop'
      BY <2>8
    <3>2. n.task = [l.task EXCEPT ![t] = r] /\ n.ready = Ahead(t, l.ready) /\ n.gate = l.gate
      BY <3>1, <2>2, <2>8, <2>9, <1>14 DEF Ahead
    <3>3. InPlace(n, queue, parked, {t} \ {t}) /\ GrowsTo(l.ready, n.ready)
      <4>1. PICK d \in TaskType : d = r
        BY <1>3
      <4>2. n.task = [l.task EXCEPT ![t] = d] /\ Awake(d)
        BY <1>5, <3>2, <4>1
      <4>3. AtGate(d) <=> Occurs(l.gate, t)
        BY <1>4, <4>1
      <4>4. PICK T : T = {t}
        OBVIOUS
      <4>5. InPlace(l, queue, parked, T) /\ t \in T
        BY <4>4
      <4>6. InPlace(n, queue, parked, T \ {t}) /\ GrowsTo(l.ready, n.ready)
        BY <3>2, <4>2, <4>3, <4>5, GoesOn
      <4> QED BY <4>4, <4>6
    <3> QED BY <3>1, <3>3, <1>5
  <2> QED BY <2>3, <2>8, <2>9, <2>10 DEF r
<1> QED BY <1>15, <1>16

-----------------------------------------------------------------------------
(***************************************************************************)
(* How a turn may end.                                                     *)
(***************************************************************************)

(* Between turns every task is in its place. *)
AllInPlace == InPlace(loop, queue, parked, {})
(* Task t is the first in line. *)
OnTurn(t) == AllInPlace /\ loop.ready # <<>> /\ t = Head(loop.ready)

(* At the start of a turn: the task is out of the line, all others are in it as
   they were, and it holds the gate exactly when its station says so. *)
LEMMA PolledFacts ==
    ASSUME NEW t, OnTurn(t)
    PROVE  /\ t \in Tasks /\ loop \in LoopType /\ task \in [Tasks -> TaskType]
           /\ Polled \in LoopType /\ Polled.task = task /\ Polled.gate = loop.gate
           /\ InPlace(Polled, queue, parked, {t})
           /\ Awake(task[t]) /\ (AtGate(task[t]) <=> Occurs(loop.gate, t))
           /\ Occurs(loop.gate, t) => HeadOf(loop, t)
           /\ Holds(t) <=> AtGate(task[t])
           /\ \A v : Occurs(Polled.ready, v) <=> Occurs(loop.ready, v) /\ v # t
           /\ \A v, w : v # t /\ Before(loop.ready, v, w) => Before(Polled.ready, v, w)
<1>1. loop \in LoopType /\ task \in [Tasks -> TaskType] /\ loop.ready \in Seq(Tasks)
      /\ IsInjective(loop.ready) /\ loop.ready # <<>> /\ loop.gate \in Seq(Tasks)
  BY LoopFields DEF OnTurn, AllInPlace, InPlace, Lined, task
<1>2. t = loop.ready[1] /\ t \in Tasks /\ Occurs(loop.ready, t)
  BY <1>1, HeadOccurs DEF OnTurn
<1>3. /\ Tail(loop.ready) \in Seq(Tasks)
      /\ \A x : Occurs(Tail(loop.ready), x) <=> Occurs(loop.ready, x) /\ x # t
      /\ \A x, y : x # t /\ Before(loop.ready, x, y) => Before(Tail(loop.ready), x, y)
  BY <1>1, <1>2, TailOccurs
<1>4. /\ Polled \in LoopType /\ Polled.task = task /\ Polled.gate = loop.gate
      /\ Polled.ready = Tail(loop.ready)
  BY <1>1, <1>3 DEF Polled, LoopType, task
<1>5. InPlace(Polled, queue, parked, {t})
  BY <1>1, <1>2, <1>4, Polls DEF OnTurn, AllInPlace, task
<1>6. Placed(loop, queue, parked, {}, t)
  BY <1>2 DEF OnTurn, AllInPlace, InPlace
<1>7. /\ Awake(task[t]) /\ (AtGate(task[t]) <=> Occurs(loop.gate, t))
      /\ Occurs(loop.gate, t) => HeadOf(loop, t)
  BY <1>2, <1>6 DEF Placed, task
<1>8. Holds(t) <=> HeadOf(loop, t)
  BY <1>1 DEF Holds, HeadOf
<1>9. HeadOf(loop, t) => Occurs(loop.gate, t)
  BY <1>1, HeadOccurs DEF HeadOf
<1> QED BY <1>1, <1>2, <1>3, <1>4, <1>5, <1>7, <1>8, <1>9

(* A loop with other locals of task t. *)
WithTask(l, t, r) == [l EXCEPT !.task[t] = r]

(* A task in hand that is over. *)
LEMMA OverMoves ==
    ASSUME NEW l, NEW q, NEW p, NEW t \in Tasks, InPlace(l, q, p, {t}), ~Occurs(l.gate, t),
           NEW m, m = WithTask(l, t, NoTask)
    PROVE  /\ InPlace(m, q, p, {}) /\ m.task = [l.task EXCEPT ![t] = NoTask]
           /\ m.ready = l.ready
<1>1. l \in LoopType
  BY DEF InPlace, Lined
<1>2. NoTask \in TaskType /\ ~AtGate(NoTask)
  BY NoTaskType DEF NoTask, AtGate, GateStations, HeldCalls
<1>3. /\ m \in LoopType /\ m.task = [l.task EXCEPT ![t] = NoTask] /\ m.ready = l.ready
      /\ m.gate = l.gate
  BY <1>1, <1>2, TaskSet DEF WithTask
<1>4. InPlace(m, q, p, {t} \ {t})
  BY <1>2, <1>3, Rests
<1>5. {t} \ {t} = {}
  OBVIOUS
<1> QED BY <1>3, <1>4, <1>5

(* The loop when a task has let go of the gate, if it had it. *)
LEMMA LetsGo ==
    ASSUME NEW t, OnTurn(t)
    PROVE  LET m == IF Holds(t) THEN Unlock(Polled) ELSE Polled
           IN  /\ m \in LoopType /\ InPlace(m, queue, parked, {t}) /\ ~Occurs(m.gate, t)
               /\ m.task = task /\ GrowsTo(Polled.ready, m.ready)
<1>1. /\ t \in Tasks /\ loop \in LoopType /\ Polled \in LoopType /\ Polled.task = task
      /\ Polled.gate = loop.gate /\ InPlace(Polled, queue, parked, {t})
      /\ (AtGate(task[t]) <=> Occurs(loop.gate, t)) /\ (Occurs(loop.gate, t) => HeadOf(loop, t))
      /\ (Holds(t) <=> AtGate(task[t]))
  BY PolledFacts
<1>2. CASE Holds(t)
  <2>1. HeadOf(Polled, t)
    BY <1>1, <1>2 DEF HeadOf
  <2>2. PICK T : T = {t}
    OBVIOUS
  <2>3. /\ Unlock(Polled) \in LoopType /\ Unlock(Polled).task = Polled.task
        /\ ~Occurs(Unlock(Polled).gate, t)
        /\ \A v : Occurs(Polled.ready, v) => Occurs(Unlock(Polled).ready, v)
        /\ \A v, w : Before(Polled.ready, v, w) => Before(Unlock(Polled).ready, v, w)
        /\ InPlace(Unlock(Polled), queue, parked, T)
    <3>1. InPlace(Polled, queue, parked, T) /\ t \in T
      BY <1>1, <2>2
    <3> QED BY <1>1, <2>1, <2>2, <3>1, FreesGate
  <2> QED BY <1>1, <1>2, <2>2, <2>3 DEF GrowsTo
<1>3. CASE ~Holds(t)
  BY <1>1, <1>3 DEF GrowsTo
<1> QED BY <1>2, <1>3

(* The end of a task. *)
LEMMA EndMoves ==
    ASSUME NEW t, OnTurn(t), Ends(t)
    PROVE  /\ InPlace(loop', queue', parked, {}) /\ queue' = queue
           /\ loop'.task = [task EXCEPT ![t] = NoTask]
           /\ GrowsTo(Polled.ready, loop'.ready)
<1>1. PICK m : m = IF Holds(t) THEN Unlock(Polled) ELSE Polled
  OBVIOUS
<1>2. /\ m \in LoopType /\ InPlace(m, queue, parked, {t}) /\ ~Occurs(m.gate, t)
      /\ m.task = task /\ GrowsTo(Polled.ready, m.ready)
  BY <1>1, LetsGo
<1>3. loop' = [m EXCEPT !.task[t] = NoTask] /\ queue' = queue
  BY <1>1 DEF Ends, Suspends
<1>4. t \in Tasks
  BY PolledFacts
<1>5. PICK n : n = loop'
  OBVIOUS
<1>6. /\ InPlace(n, queue, parked, {}) /\ n.task = [m.task EXCEPT ![t] = NoTask]
      /\ n.ready = m.ready
  <2>1. n = WithTask(m, t, NoTask)
    BY <1>3, <1>5 DEF WithTask
  <2> QED BY <1>2, <1>4, <2>1, OverMoves
<1> QED BY <1>2, <1>3, <1>5, <1>6

(* The end of a task that sends a session Shutdown first. *)
LEMMA ShutMoves ==
    ASSUME NEW t, NEW s \in Sessions \cup {NoSession}, OnTurn(t), EndsShuttingDown(t, s)
    PROVE  /\ InPlace(loop', queue', parked, {})
           /\ loop'.task = [task EXCEPT ![t] = NoTask]
           /\ GrowsTo(Polled.ready, loop'.ready)
<1>1. PICK m : m = IF Holds(t) THEN Unlock(Polled) ELSE Polled
  OBVIOUS
<1>2. /\ m \in LoopType /\ InPlace(m, queue, parked, {t}) /\ ~Occurs(m.gate, t)
      /\ m.task = task /\ GrowsTo(Polled.ready, m.ready)
  BY <1>1, LetsGo
<1>3. loop' = [m EXCEPT !.task[t] = NoTask]
  BY <1>1 DEF EndsShuttingDown
<1>4. t \in Tasks
  BY PolledFacts
<1>5. PICK n : n = loop'
  OBVIOUS
<1>6. /\ InPlace(n, queue, parked, {}) /\ n.task = [m.task EXCEPT ![t] = NoTask]
      /\ n.ready = m.ready
  <2>1. n = WithTask(m, t, NoTask)
    BY <1>3, <1>5 DEF WithTask
  <2> QED BY <1>2, <1>4, <2>1, OverMoves
<1>7. InPlace(n, queue', parked, {})
  <2>1. CASE s # NoSession /\ life[s] = "open"
    <3>1. queue' = [queue EXCEPT ![s] = Append(@, Shutdown)] /\ s \in Sessions
      BY <2>1 DEF EndsShuttingDown
    <3>2. Shutdown \notin Tasks
      BY AppAssumption DEF Shutdown
    <3>3. PICK q2 : q2 = queue'
      OBVIOUS
    <3>4. InPlace(n, q2, parked, {})
      BY <1>6, <3>1, <3>2, <3>3, QueuesShutdown
    <3> QED BY <3>3, <3>4
  <2>2. CASE ~(s # NoSession /\ life[s] = "open")
    <3>1. queue' = queue
      BY <2>2 DEF EndsShuttingDown
    <3> QED BY <3>1, <1>6
  <2> QED BY <2>1, <2>2
<1> QED BY <1>2, <1>5, <1>6, <1>7

(* A task that does not have the gate waits for it, or gets it at once. *)
LEMMA LocksMoves ==
    ASSUME NEW t, NEW at \in GateStations, OnTurn(t), ~AtGate(task[t]), Locks(t, at)
    PROVE  /\ InPlace(loop', queue', parked, {}) /\ queue' = queue
           /\ loop'.task = [task EXCEPT ![t] = Moved(task[t], at)]
           /\ GrowsTo(Polled.ready, loop'.ready)
<1>1. /\ t \in Tasks /\ Polled.task = task /\ InPlace(Polled, queue, parked, {t})
      /\ ~Occurs(Polled.gate, t)
  BY PolledFacts
<1>2. loop' = Lock(Polled, t, at) /\ queue' = queue
  BY DEF Locks, Suspends
<1>3. /\ InPlace(Lock(Polled, t, at), queue, parked, {})
      /\ Lock(Polled, t, at).task = [Polled.task EXCEPT ![t] = Moved(Polled.task[t], at)]
      /\ GrowsTo(Polled.ready, Lock(Polled, t, at).ready)
  BY <1>1, LockMoves
<1> QED BY <1>1, <1>2, <1>3

(* A call from the turn of a task, the gate held as the station says. *)
LEMMA CallsMoves ==
    ASSUME NEW t, NEW s \in Sessions, NEW id \in Ids \cup {NoId},
           NEW at \in HeldCalls \cup FreeCalls,
           OnTurn(t), at \in HeldCalls <=> AtGate(task[t]), Calls(t, s, id, at)
    PROVE  /\ InPlace(loop', queue', parked, {})
           /\ loop'.task = [task EXCEPT ![t] = Called(task[t], s, id, at)]
           /\ GrowsTo(Polled.ready, loop'.ready)
<1>1. /\ t \in Tasks /\ Polled.task = task /\ InPlace(Polled, queue, parked, {t})
      /\ (AtGate(task[t]) <=> Occurs(Polled.gate, t))
  BY PolledFacts
<1>2. CallsFrom(Polled, t, s, id, at)
  BY DEF Calls
<1>3. at \in HeldCalls <=> Occurs(Polled.gate, t)
  BY <1>1
<1>4. /\ InPlace(loop', queue', parked, {})
      /\ loop'.task = [Polled.task EXCEPT ![t] = Called(Polled.task[t], s, id, at)]
      /\ GrowsTo(Polled.ready, loop'.ready)
  BY <1>1, <1>2, <1>3, CallMoves
<1> QED BY <1>1, <1>4

(* At the limit the gate is dropped and locked again. *)
LEMMA DrainedMoves ==
    ASSUME NEW t, NEW due, OnTurn(t), Holds(t), Drained(t, due)
    PROVE  /\ InPlace(loop', queue', parked, {}) /\ queue' = queue
           /\ \E r \in {NoTask, Moved(task[t], "finalize")} : loop'.task = [task EXCEPT ![t] = r]
           /\ GrowsTo(Polled.ready, loop'.ready)
<1>1. CASE due
  <2>1. loop' = Lock(Unlock(Polled), t, "finalize") /\ queue' = queue
    BY <1>1 DEF Drained, Suspends
  <2>2. PICK m : m = Unlock(Polled)
    OBVIOUS
  <2>3. /\ InPlace(m, queue, parked, {t}) /\ ~Occurs(m.gate, t)
        /\ m.task = task /\ GrowsTo(Polled.ready, m.ready)
    BY <2>2, LetsGo
  <2>4. t \in Tasks /\ "finalize" \in GateStations
    BY PolledFacts DEF GateStations
  <2>5. /\ InPlace(Lock(m, t, "finalize"), queue, parked, {})
        /\ Lock(m, t, "finalize").task = [m.task EXCEPT ![t] = Moved(m.task[t], "finalize")]
        /\ GrowsTo(m.ready, Lock(m, t, "finalize").ready)
    BY <2>3, <2>4, LockMoves
  <2> QED BY <2>1, <2>2, <2>3, <2>5 DEF GrowsTo
<1>2. CASE ~due
  <2>1. Ends(t)
    BY <1>2 DEF Drained
  <2> QED BY <2>1, EndMoves
<1> QED BY <1>1, <1>2

(* A task waits for what comes from outside. *)
LEMMA WaitMoves ==
    ASSUME NEW t, NEW at \in Waits, OnTurn(t), ~AtGate(task[t]), Suspends(At(Polled, t, at))
    PROVE  /\ InPlace(loop', queue', parked, {}) /\ queue' = queue
           /\ loop'.task = [task EXCEPT ![t] = Moved(task[t], at)]
           /\ GrowsTo(Polled.ready, loop'.ready)
<1>1. /\ t \in Tasks /\ task \in [Tasks -> TaskType] /\ Polled \in LoopType /\ Polled.task = task
      /\ InPlace(Polled, queue, parked, {t}) /\ ~Occurs(Polled.gate, t)
  BY PolledFacts
<1>2. at \in Stations
  BY DEF Stations
<1>3. PICK m : m = At(Polled, t, at)
  OBVIOUS
<1>4. /\ m \in LoopType /\ m.task = [Polled.task EXCEPT ![t] = Moved(Polled.task[t], at)]
      /\ m.ready = Polled.ready /\ m.gate = Polled.gate
  BY <1>1, <1>2, <1>3, AtSets
<1>5. PICK r : r = Moved(Polled.task[t], at)
  OBVIOUS
<1>6. r \in TaskType /\ r.at = at
  BY <1>1, <1>2, <1>5, MovedType
<1>7. ~AtGate(r)
  BY <1>6 DEF AtGate, GateStations, HeldCalls, Waits
<1>8. InPlace(m, queue, parked, {t} \ {t})
  BY <1>1, <1>4, <1>5, <1>6, <1>7, Rests
<1>9. {t} \ {t} = {}
  OBVIOUS
<1>10. loop' = m /\ queue' = queue
  BY <1>3 DEF Suspends
<1> QED BY <1>1, <1>4, <1>8, <1>9, <1>10 DEF GrowsTo

(* A task asks for a permission. *)
LEMMA PermissionMoves ==
    ASSUME NEW l, NEW t \in Tasks, InPlace(l, queue, parked, {t}), ~Occurs(l.gate, t),
           EnsuresPermission(l, t)
    PROVE  /\ InPlace(loop', queue', parked, {}) /\ queue' = queue
           /\ \E a \in {"none", "granted", "denied"} :
                loop'.task = [l.task EXCEPT ![t] =
                                [Moved(l.task[t], "permission") EXCEPT !.answer = a]]
           /\ GrowsTo(l.ready, loop'.ready)
<1>1. l \in LoopType /\ l.task \in [Tasks -> TaskType]
  BY LoopFields DEF InPlace, Lined
<1>2. "permission" \in Stations /\ {"none", "granted", "denied"} \subseteq Answers
  BY DEF Stations, Waits, Answers
<1>3. PICK x : x = Moved(l.task[t], "permission")
  OBVIOUS
<1>4. x \in TaskType /\ x.at = "permission" /\ x.answer = "none"
  BY <1>1, <1>2, <1>3, MovedType
<1>5. {t} \ {t} = {}
  OBVIOUS
<1>6. PICK c : c = Continues(l, t, "permission")
  OBVIOUS
<1>7. /\ c \in LoopType /\ c.task = [l.task EXCEPT ![t] = x] /\ c.ready = <<t>> \o l.ready
      /\ c.gate = l.gate
  BY <1>1, <1>2, <1>3, <1>6, ContinuesSets
<1>8. ASSUME NEW a \in {"granted", "denied"}, loop' = [c EXCEPT !.task[t].answer = a],
             queue' = queue
      PROVE  /\ InPlace(loop', queue', parked, {})
             /\ loop'.task = [l.task EXCEPT ![t] = [x EXCEPT !.answer = a]]
             /\ GrowsTo(l.ready, loop'.ready)
  <2>1. PICK r : r = [x EXCEPT !.answer = a]
    OBVIOUS
  <2>2. r \in TaskType /\ r.at = "permission" /\ r.answer = a
    BY <1>2, <1>4, <2>1 DEF TaskType
  <2>3. c.task[t] = x
    BY <1>1, <1>7
  <2>4. loop' = [c EXCEPT !.task = [c.task EXCEPT ![t] = r]]
    BY <1>7, <1>8, <2>1, <2>3 DEF LoopType
  <2>5. PICK m : m = loop'
    OBVIOUS
  <2>6. m \in LoopType /\ m.task = [c.task EXCEPT ![t] = r] /\ m.ready = c.ready /\ m.gate = c.gate
    BY <1>7, <2>2, <2>4, <2>5 DEF LoopType
  <2>7. m.task = [l.task EXCEPT ![t] = r] /\ m.ready = Ahead(t, l.ready) /\ m.gate = l.gate
    BY <1>1, <1>7, <2>6 DEF Ahead
  <2>8. Awake(r) /\ ~AtGate(r)
    BY <2>2 DEF Awake, AtGate, GateStations, HeldCalls, Waits
  <2>9. AtGate(r) <=> Occurs(l.gate, t)
    BY <2>8
  <2>10. InPlace(m, queue, parked, {t} \ {t}) /\ GrowsTo(l.ready, m.ready)
    BY <2>2, <2>6, <2>7, <2>8, <2>9, GoesOn
  <2> QED BY <1>5, <1>8, <2>1, <2>5, <2>7, <2>10
<1>9. ASSUME loop' = At(l, t, "permission"), queue' = queue
      PROVE  /\ InPlace(loop', queue', parked, {})
             /\ loop'.task = [l.task EXCEPT ![t] = [x EXCEPT !.answer = "none"]]
             /\ GrowsTo(l.ready, loop'.ready)
  <2>1. PICK m : m = At(l, t, "permission")
    OBVIOUS
  <2>2. m \in LoopType /\ m.task = [l.task EXCEPT ![t] = x] /\ m.ready = l.ready /\ m.gate = l.gate
    BY <1>1, <1>2, <1>3, <2>1, AtSets
  <2>3. ~AtGate(x)
    BY <1>4 DEF AtGate, GateStations, HeldCalls
  <2>4. InPlace(m, queue, parked, {t} \ {t})
    BY <1>4, <2>2, <2>3, Rests
  <2>5. x = [x EXCEPT !.answer = "none"]
    BY <1>4 DEF TaskType
  <2> QED BY <1>5, <1>9, <2>1, <2>2, <2>4, <2>5 DEF GrowsTo
<1>10. \/ \E a \in {"granted", "denied"} : loop' = [c EXCEPT !.task[t].answer = a] /\ queue' = queue
       \/ loop' = At(l, t, "permission") /\ queue' = queue
  BY <1>6 DEF EnsuresPermission, Suspends
<1>11. queue' = queue
  BY <1>10
<1>12. CASE \E a \in {"granted", "denied"} : loop' = [c EXCEPT !.task[t].answer = a] /\ queue' = queue
  BY <1>8, <1>12, <1>3
<1>13. CASE loop' = At(l, t, "permission") /\ queue' = queue
  BY <1>9, <1>13, <1>3
<1> QED BY <1>10, <1>11, <1>12, <1>13

-----------------------------------------------------------------------------
(***************************************************************************)
(* What happens to the lines outside of turns.                             *)
(***************************************************************************)

(* The types of the lines between turns. *)
LEMMA LoopTyped ==
    ASSUME AllInPlace
    PROVE  /\ loop \in LoopType /\ task \in [Tasks -> TaskType] /\ loop.ready \in Seq(Tasks)
           /\ loop.gate \in Seq(Tasks) /\ IsInjective(loop.ready)
           /\ queue \in [Sessions -> Seq(Tasks \cup {Shutdown})] /\ parked \subseteq Tasks
           /\ Shutdown \notin Tasks /\ IsFiniteSet(Tasks)
BY LoopFields, AppAssumption DEF AllInPlace, InPlace, Lined, task, Shutdown

(* A task whose ticket is withdrawn is a task. *)
LEMMA OutdatedType ==
    ASSUME NEW r \in TaskType, NEW kind
    PROVE  /\ OutdatedTask(r, kind) \in TaskType
           /\ OutdatedTask(r, kind).valid <=> r.valid /\ r.kind # kind
           /\ OutdatedTask(r, kind).kind = r.kind /\ OutdatedTask(r, kind).at = r.at
           /\ OutdatedTask(r, kind).on = r.on /\ OutdatedTask(r, kind).id = r.id
           /\ OutdatedTask(r, kind).answer = r.answer
           /\ OutdatedTask(r, kind).generation = r.generation
           /\ OutdatedTask(r, kind).saw = r.saw /\ OutdatedTask(r, kind).due = r.due
           /\ r = NoTask => OutdatedTask(r, kind) = NoTask
<1>1. r.valid \in BOOLEAN
  BY DEF TaskType
<1>2. (r.valid /\ r.kind # kind) \in BOOLEAN
  BY <1>1
<1>3. /\ OutdatedTask(r, kind) \in TaskType
      /\ OutdatedTask(r, kind).kind = r.kind /\ OutdatedTask(r, kind).at = r.at
      /\ OutdatedTask(r, kind).on = r.on /\ OutdatedTask(r, kind).id = r.id
      /\ OutdatedTask(r, kind).answer = r.answer
      /\ OutdatedTask(r, kind).generation = r.generation
      /\ OutdatedTask(r, kind).saw = r.saw /\ OutdatedTask(r, kind).due = r.due
  BY <1>2 DEF OutdatedTask, TaskType
<1>4. OutdatedTask(r, kind).valid = (r.valid /\ r.kind # kind)
  BY DEF OutdatedTask, TaskType
<1>5. ASSUME r = NoTask PROVE OutdatedTask(r, kind) = NoTask
  <2>1. (r.valid /\ r.kind # kind) = FALSE /\ r.valid = FALSE
    BY <1>5 DEF NoTask
  <2>2. OutdatedTask(r, kind) = [r EXCEPT !.valid = FALSE]
    BY <2>1 DEF OutdatedTask
  <2>3. r = [r EXCEPT !.valid = FALSE]
    BY <2>1 DEF TaskType
  <2> QED BY <1>5, <2>2, <2>3
<1> QED BY <1>1, <1>3, <1>4, <1>5

(* Withdrawing the tickets of a kind moves no task. *)
LEMMA OutdatedMoves ==
    ASSUME NEW l, NEW q, NEW p, NEW T, InPlace(l, q, p, T), NEW kind
    PROVE  /\ InPlace(Outdated(l, kind), q, p, T)
           /\ Outdated(l, kind).task = [u \in Tasks |-> OutdatedTask(l.task[u], kind)]
           /\ Outdated(l, kind).ready = l.ready /\ Outdated(l, kind).gate = l.gate
<1>1. l \in LoopType /\ l.task \in [Tasks -> TaskType]
  BY LoopFields DEF InPlace, Lined
<1>2. PICK f : f = [u \in Tasks |-> OutdatedTask(l.task[u], kind)]
  OBVIOUS
<1>3. \A u \in Tasks : OutdatedTask(l.task[u], kind) \in TaskType
  BY <1>1, OutdatedType
<1>4. f \in [Tasks -> TaskType]
  BY <1>2, <1>3
<1>5. PICK m : m = Outdated(l, kind)
  OBVIOUS
<1>6. m = [l EXCEPT !.task = f]
  BY <1>2, <1>5 DEF Outdated
<1>7. m \in LoopType /\ m.task = f /\ m.ready = l.ready /\ m.gate = l.gate
  BY <1>1, <1>4, <1>6 DEF LoopType
<1>8. \A v \in Tasks : /\ m.task[v].at = l.task[v].at /\ m.task[v].on = l.task[v].on
                       /\ m.task[v].answer = l.task[v].answer
  BY <1>1, <1>2, <1>7, OutdatedType
<1>9. InPlace(m, q, p, T)
  BY <1>7, <1>8, Relabels
<1> QED BY <1>2, <1>5, <1>7, <1>9

(* A callback spawns a task. *)
LEMMA SpawnMoves ==
    ASSUME AllInPlace, Room, NEW l, InPlace(l, queue, parked, {}), l.ready = loop.ready,
           \A u \in Tasks : task[u] = NoTask => l.task[u] = NoTask,
           NEW new \in TaskType, new.at = "start"
    PROVE  /\ InPlace(Spawn(l, new), queue, parked, {})
           /\ GrowsTo(loop.ready, Spawn(l, new).ready)
           /\ \E t \in Tasks :
                /\ task[t] = NoTask
                /\ Spawn(l, new).task = [l.task EXCEPT ![t] = new]
                /\ Occurs(Spawn(l, new).ready, t)
                /\ \A v : Occurs(loop.ready, v) => Before(Spawn(l, new).ready, v, t)
<1>1. PICK t : t = CHOOSE u \in Unused : TRUE
  OBVIOUS
<1>2. t \in Tasks /\ task[t] = NoTask
  BY <1>1 DEF Room, Unused
<1>3. l \in LoopType /\ l.task \in [Tasks -> TaskType] /\ l.task[t] = NoTask
      /\ l.ready \in Seq(Tasks)
  BY <1>2, LoopFields DEF InPlace, Lined
<1>4. PICK m : m = Spawn(l, new)
  OBVIOUS
<1>5. m = [l EXCEPT !.task[t] = new, !.ready = Append(@, t)]
  BY <1>1, <1>4 DEF Spawn
<1>6. Append(l.ready, t) \in Seq(Tasks)
  BY <1>2, <1>3, AppendProperties
<1>7. /\ m \in LoopType /\ m.task = [l.task EXCEPT ![t] = new]
      /\ m.ready = Append(l.ready, t) /\ m.gate = l.gate
  BY <1>2, <1>3, <1>5, <1>6 DEF LoopType
<1>8. Placed(l, queue, parked, {}, t)
  BY <1>2 DEF InPlace
<1>9. ~AtGate(l.task[t]) /\ l.task[t].at \notin FreeCalls /\ ~Awake(l.task[t])
  BY <1>3 DEF NoTask, AtGate, Awake, GateStations, HeldCalls, FreeCalls
<1>10. ~Occurs(l.ready, t) /\ ~Occurs(l.gate, t)
  BY <1>8, <1>9 DEF Placed
<1>11. InPlace(l, queue, parked, {} \cup {t})
  <2>1. {t} \in SUBSET Tasks
    BY <1>2
  <2> QED BY <2>1, <1>9, <1>10, TakesResting
<1>12. InPlace(l, queue, parked, {t})
  <2>1. {} \cup {t} = {t}
    OBVIOUS
  <2> QED BY <1>11, <2>1
<1>13. Awake(new) /\ ~AtGate(new)
  BY DEF Awake, AtGate, GateStations, HeldCalls, Waits
<1>14. /\ InPlace(m, queue, parked, {t} \ {t}) /\ GrowsTo(l.ready, m.ready)
       /\ Occurs(m.ready, t) /\ \A v : Occurs(l.ready, v) => Before(m.ready, v, t)
  <2>1. AtGate(new) <=> Occurs(l.gate, t)
    BY <1>10, <1>13
  <2> QED BY <1>2, <1>7, <1>12, <1>13, <2>1, GoesLast
<1>15. {t} \ {t} = {}
  OBVIOUS
<1> QED BY <1>2, <1>4, <1>7, <1>14, <1>15

(* A task waits for what comes from outside, and it comes. *)
LEMMA WaitingTaken ==
    ASSUME AllInPlace, NEW t \in Tasks, task[t].at \in Waits, task[t].answer = "none"
    PROVE  InPlace(loop, queue, parked, {t}) /\ ~Occurs(loop.gate, t) /\ ~Occurs(loop.ready, t)
<1>1. Placed(loop, queue, parked, {}, t)
  BY DEF AllInPlace, InPlace
<1>2. ~AtGate(task[t]) /\ task[t].at \notin FreeCalls /\ ~Awake(task[t])
  BY DEF AtGate, Awake, GateStations, HeldCalls, FreeCalls, Waits
<1>3. ~Occurs(loop.ready, t) /\ ~Occurs(loop.gate, t)
  BY <1>1, <1>2 DEF Placed, task
<1>4. InPlace(loop, queue, parked, {} \cup {t})
  <2>1. {t} \in SUBSET Tasks
    OBVIOUS
  <2>2. \A u \in {t} : /\ ~Occurs(loop.ready, u) /\ u \notin {} /\ ~AtGate(loop.task[u])
                       /\ loop.task[u].at \notin FreeCalls
    BY <1>2, <1>3 DEF task
  <2> QED BY <2>1, <2>2, TakesResting DEF AllInPlace
<1>5. {} \cup {t} = {t}
  OBVIOUS
<1> QED BY <1>3, <1>4, <1>5

(* A permission's dialog is answered. *)
LEMMA PolledMoves ==
    ASSUME AllInPlace, NEW t \in Tasks, PermissionPolled(t)
    PROVE  /\ InPlace(loop', queue', parked', {}) /\ GrowsTo(loop.ready, loop'.ready)
           /\ \E a \in {"granted", "denied"} :
                loop'.task = [task EXCEPT ![t] =
                                [Moved(task[t], "permission") EXCEPT !.answer = a]]
<1>1. PICK a \in {"granted", "denied"} :
        loop' = [Continues(loop, t, "permission") EXCEPT !.task[t].answer = a]
  BY DEF PermissionPolled
<1>2. task[t].at = "permission" /\ task[t].answer = "none" /\ queue' = queue /\ parked' = parked
  BY DEF PermissionPolled, DialogTasks, sessionVars
<1>3. InPlace(loop, queue, parked, {t}) /\ ~Occurs(loop.gate, t)
  BY <1>2, WaitingTaken DEF Waits
<1>4. loop \in LoopType /\ task \in [Tasks -> TaskType]
  BY LoopTyped
<1>5. "permission" \in Stations /\ {"none", "granted", "denied"} \subseteq Answers
  BY DEF Stations, Waits, Answers
<1>6. PICK x : x = Moved(task[t], "permission")
  OBVIOUS
<1>7. x \in TaskType /\ x.at = "permission"
  BY <1>4, <1>5, <1>6, MovedType
<1>8. PICK c : c = Continues(loop, t, "permission")
  OBVIOUS
<1>9. /\ c \in LoopType /\ c.task = [task EXCEPT ![t] = x] /\ c.ready = <<t>> \o loop.ready
      /\ c.gate = loop.gate
  BY <1>4, <1>5, <1>6, <1>8, ContinuesSets DEF task
<1>10. PICK r : r = [x EXCEPT !.answer = a]
  OBVIOUS
<1>11. r \in TaskType /\ r.at = "permission" /\ r.answer = a
  BY <1>5, <1>7, <1>10 DEF TaskType
<1>12. c.task[t] = x
  BY <1>4, <1>9
<1>13. PICK m : m = loop'
  OBVIOUS
<1>14. m = [c EXCEPT !.task = [c.task EXCEPT ![t] = r]]
  BY <1>1, <1>8, <1>9, <1>10, <1>12, <1>13 DEF LoopType
<1>15. m \in LoopType /\ m.task = [c.task EXCEPT ![t] = r] /\ m.ready = c.ready /\ m.gate = c.gate
  BY <1>9, <1>11, <1>14 DEF LoopType
<1>16. m.task = [loop.task EXCEPT ![t] = r] /\ m.ready = Ahead(t, loop.ready) /\ m.gate = loop.gate
  BY <1>4, <1>9, <1>15 DEF Ahead, task
<1>17. Awake(r) /\ ~AtGate(r)
  BY <1>11 DEF Awake, AtGate, GateStations, HeldCalls
<1>18. AtGate(r) <=> Occurs(loop.gate, t)
  BY <1>3, <1>17
<1>19. InPlace(m, queue, parked, {t} \ {t}) /\ GrowsTo(loop.ready, m.ready)
  BY <1>3, <1>11, <1>15, <1>16, <1>17, <1>18, GoesOn
<1>20. {t} \ {t} = {}
  OBVIOUS
<1> QED BY <1>2, <1>6, <1>10, <1>13, <1>16, <1>19, <1>20 DEF task

(* A task that is told something. *)
WithAnswer(r, a) == [r EXCEPT !.answer = a]

(* A task that is told something is a task. *)
LEMMA WithAnswerType ==
    ASSUME NEW r \in TaskType, NEW a \in Answers
    PROVE  /\ WithAnswer(r, a) \in TaskType /\ WithAnswer(r, a).answer = a
           /\ WithAnswer(r, a).kind = r.kind /\ WithAnswer(r, a).at = r.at
           /\ WithAnswer(r, a).on = r.on /\ WithAnswer(r, a).id = r.id
           /\ WithAnswer(r, a).valid = r.valid /\ WithAnswer(r, a).generation = r.generation
           /\ WithAnswer(r, a).saw = r.saw /\ WithAnswer(r, a).due = r.due
BY DEF WithAnswer, TaskType

\* A task is in the gate's line when its await is one that keeps it there.
Steady(l, t) == AtGate(l.task[t]) <=> Occurs(l.gate, t)

(* One task in hand is woken with an answer. *)
LEMMA WakeMoves ==
    ASSUME NEW l, NEW q, NEW p, NEW T, InPlace(l, q, p, T), NEW t \in T, t \in Tasks,
           NEW a \in Answers, a # "none", l.task[t].at # "none", Steady(l, t)
    PROVE  /\ InPlace(Wake(l, t, a), q, p, T \ {t})
           /\ Wake(l, t, a).task = [l.task EXCEPT ![t] = WithAnswer(l.task[t], a)]
           /\ GrowsTo(l.ready, Wake(l, t, a).ready)
           /\ \A x : Occurs(Wake(l, t, a).ready, x) <=> Occurs(l.ready, x) \/ x = t
<1>1. l \in LoopType /\ l.task \in [Tasks -> TaskType] /\ l.ready \in Seq(Tasks)
  BY LoopFields DEF InPlace, Lined
<1>2. PICK r : r = WithAnswer(l.task[t], a)
  OBVIOUS
<1>3. r \in TaskType /\ r.at = l.task[t].at /\ r.answer = a
  BY <1>1, <1>2, WithAnswerType
<1>4. PICK m : m = Wake(l, t, a)
  OBVIOUS
<1>5. m = [l EXCEPT !.task = [l.task EXCEPT ![t] = r], !.ready = Append(l.ready, t)]
  BY <1>1, <1>2, <1>4 DEF Wake, WithAnswer, LoopType
<1>6. Append(l.ready, t) \in Seq(Tasks)
      /\ \A y : Occurs(Append(l.ready, t), y) <=> Occurs(l.ready, y) \/ y = t
  BY <1>1, AppendOccurs
<1>7. /\ m \in LoopType /\ m.task = [l.task EXCEPT ![t] = r]
      /\ m.ready = Append(l.ready, t) /\ m.gate = l.gate
  BY <1>1, <1>3, <1>5, <1>6 DEF LoopType
<1>8. AtGate(r) <=> Occurs(l.gate, t)
  BY <1>3 DEF AtGate, Steady
<1>10. Awake(r)
  BY <1>3 DEF Awake
<1>9. InPlace(m, q, p, T \ {t}) /\ GrowsTo(l.ready, m.ready)
  <2>1. IsInjective(m.ready) /\ ~Occurs(l.ready, t) /\ IsInjective(l.ready)
    <3>1. Placed(l, q, p, T, t) /\ IsInjective(l.ready)
      BY DEF InPlace, Lined
    <3>2. ~Occurs(l.ready, t)
      BY <3>1 DEF Placed
    <3> QED BY <1>1, <1>7, <3>1, <3>2, AppendOccurs
  <2>2. GrowsTo(l.ready, m.ready)
    BY <1>1, <1>7, <2>1, AppendOccurs DEF GrowsTo
  <2>3. \A x : Occurs(m.ready, x) <=> Occurs(l.ready, x) \/ x = t
    BY <1>6, <1>7
  <2>4. m \in LoopType /\ m.gate = l.gate /\ m.task = [l.task EXCEPT ![t] = r]
    BY <1>7
  <2>5. r \in TaskType
    BY <1>3
  <2>6. InPlace(m, q, p, T \ {t})
    BY <1>8, <1>10, <2>1, <2>3, <2>4, <2>5, Readies
  <2> QED BY <2>2, <2>6
<1> QED BY <1>2, <1>4, <1>6, <1>7, <1>9

(* The camera's thread ends: the task of the scan hears of it. *)
LEMMA CameraMoves ==
    ASSUME AllInPlace, NEW t \in Tasks, CameraReturns(t)
    PROVE  /\ InPlace(loop', queue', parked', {}) /\ GrowsTo(loop.ready, loop'.ready)
           /\ \E r \in {NoTask, WithAnswer(task[t], "found"), WithAnswer(task[t], "failed")} :
                loop'.task = [task EXCEPT ![t] = r]
<1>1. task[t].at = "camera" /\ task[t].answer = "none" /\ queue' = queue /\ parked' = parked
  BY DEF CameraReturns, sessionVars
<1>2. InPlace(loop, queue, parked, {t}) /\ ~Occurs(loop.gate, t)
  BY <1>1, WaitingTaken DEF Waits
<1>3. {t} \ {t} = {}
  OBVIOUS
<1>4. CASE loop' = [loop EXCEPT !.task[t] = NoTask]
  <2>1. PICK m : m = WithTask(loop, t, NoTask)
    OBVIOUS
  <2>2. InPlace(m, queue, parked, {}) /\ m.task = [loop.task EXCEPT ![t] = NoTask]
        /\ m.ready = loop.ready
    BY <1>2, <2>1, OverMoves
  <2>3. loop' = m
    BY <1>4, <2>1 DEF WithTask
  <2> QED BY <1>1, <2>2, <2>3 DEF GrowsTo, task
<1>5. CASE \E a \in {"found", "failed"} : loop' = Wake(loop, t, a)
  <2>1. PICK a \in {"found", "failed"} : loop' = Wake(loop, t, a)
    BY <1>5
  <2>2. a \in Answers /\ a # "none" /\ loop.task[t].at # "none" /\ ~AtGate(loop.task[t])
    BY <1>1 DEF Answers, AtGate, GateStations, HeldCalls, task
  <2>4. Steady(loop, t)
    BY <1>2, <2>2 DEF Steady
  <2>3. /\ InPlace(Wake(loop, t, a), queue, parked, {t} \ {t})
        /\ Wake(loop, t, a).task = [loop.task EXCEPT ![t] = WithAnswer(loop.task[t], a)]
        /\ GrowsTo(loop.ready, Wake(loop, t, a).ready)
    <3>1. PICK T : T = {t}
      OBVIOUS
    <3>2. PICK b \in Answers : b = a
      BY <2>2
    <3>3. InPlace(loop, queue, parked, T) /\ t \in T /\ b # "none"
      BY <1>2, <2>2, <3>1, <3>2
    <3>4. /\ InPlace(Wake(loop, t, b), queue, parked, T \ {t})
          /\ Wake(loop, t, b).task = [loop.task EXCEPT ![t] = WithAnswer(loop.task[t], b)]
          /\ GrowsTo(loop.ready, Wake(loop, t, b).ready)
      BY <2>2, <2>4, <3>3, WakeMoves
    <3> QED BY <3>1, <3>2, <3>4
  <2> QED BY <1>1, <1>3, <2>1, <2>3 DEF task
<1> QED BY <1>4, <1>5 DEF CameraReturns

(* The handshake is over: the task of the scan hears of it. *)
LEMMA HandshakeMoves ==
    ASSUME AllInPlace, NEW t \in Tasks, HandshakeEnds(t)
    PROVE  /\ InPlace(loop', queue', parked', {}) /\ GrowsTo(loop.ready, loop'.ready)
           /\ loop'.task = [task EXCEPT ![t] = WithAnswer(task[t], "over")]
<1>1. task[t].at = "connecting" /\ task[t].answer = "none" /\ queue' = queue /\ parked' = parked
      /\ loop' = Wake(loop, t, "over")
  BY DEF HandshakeEnds, sessionVars
<1>2. InPlace(loop, queue, parked, {t}) /\ ~Occurs(loop.gate, t)
  BY <1>1, WaitingTaken DEF Waits
<1>3. {t} \ {t} = {}
  OBVIOUS
<1>4. PICK a \in Answers : a = "over"
  BY DEF Answers
<1>5. a # "none" /\ loop.task[t].at # "none" /\ ~AtGate(loop.task[t])
  BY <1>1, <1>4 DEF AtGate, GateStations, HeldCalls, task
<1>7. Steady(loop, t)
  BY <1>2, <1>5 DEF Steady
<1>6. /\ InPlace(Wake(loop, t, a), queue, parked, {t} \ {t})
      /\ Wake(loop, t, a).task = [loop.task EXCEPT ![t] = WithAnswer(loop.task[t], a)]
      /\ GrowsTo(loop.ready, Wake(loop, t, a).ready)
  BY <1>2, <1>5, <1>7, WakeMoves
<1> QED BY <1>1, <1>3, <1>4, <1>6 DEF task

-----------------------------------------------------------------------------
(***************************************************************************)
(* What one turn does to the tasks.                                        *)
(***************************************************************************)

\* What a step leaves alone of a task that is not its own: all but its ticket,
\* which may be lost.
Undisturbed(u) ==
    /\ task'[u].kind = task[u].kind /\ task'[u].at = task[u].at /\ task'[u].id = task[u].id
    /\ task'[u].on = task[u].on /\ task'[u].generation = task[u].generation
    /\ task'[u].saw = task[u].saw
    /\ task'[u].valid => task[u].valid
    /\ task'[u].answer = task[u].answer

\* The ready tasks keep their order, but for those of R.
Orderly(R) ==
    /\ \A v : v \notin R /\ Occurs(loop.ready, v) => Occurs(loop'.ready, v)
    /\ \A v, w : v \notin R /\ Before(loop.ready, v, w) => Before(loop'.ready, v, w)

\* A turn of task t that makes it r.
Turned(t, r) ==
    /\ AllInPlace'
    /\ r \in TaskType /\ task'[t] = r
    /\ \A u \in Tasks \ {t} : Undisturbed(u)
    /\ Orderly({t})

(* The places of the next state, in terms of its variables. *)
LEMMA AllPrimed ==
    ASSUME InPlace(loop', queue', parked', {})
    PROVE  AllInPlace'
BY DEF AllInPlace

(* A step that changes one task and keeps the order of the others. *)
LEMMA OneTurned ==
    ASSUME NEW t, OnTurn(t), NEW r, InPlace(loop', queue', parked, {}), parked' = parked,
           loop'.task = [task EXCEPT ![t] = r], GrowsTo(Polled.ready, loop'.ready)
    PROVE  Turned(t, r)
<1>1. /\ t \in Tasks /\ task \in [Tasks -> TaskType]
      /\ \A v : Occurs(Polled.ready, v) <=> Occurs(loop.ready, v) /\ v # t
      /\ \A v, w : v # t /\ Before(loop.ready, v, w) => Before(Polled.ready, v, w)
  BY PolledFacts
<1>2. AllInPlace'
  BY AllPrimed
<1>3. loop'.task \in [Tasks -> TaskType]
  BY LoopFields DEF InPlace, Lined
<1>4. task' = [task EXCEPT ![t] = r]
  BY DEF task
<1>5. task'[t] = r /\ \A u \in Tasks \ {t} : task'[u] = task[u]
  BY <1>1, <1>4
<1>6. r \in TaskType
  BY <1>1, <1>3, <1>5 DEF task
<1>7. \A u \in Tasks \ {t} : Undisturbed(u)
  BY <1>5 DEF Undisturbed
<1>8. Orderly({t})
  BY <1>1 DEF Orderly, GrowsTo
<1> QED BY <1>2, <1>5, <1>6, <1>7, <1>8 DEF Turned

(* A turn that ends its task. *)
LEMMA EndTurn ==
    ASSUME NEW t, OnTurn(t), parked' = parked, Ends(t)
    PROVE  Turned(t, NoTask)
BY EndMoves, OneTurned

(* A turn that ends its task and shuts a session down. *)
LEMMA ShutTurn ==
    ASSUME NEW t, NEW s \in Sessions \cup {NoSession}, OnTurn(t), parked' = parked,
           EndsShuttingDown(t, s)
    PROVE  Turned(t, NoTask)
BY ShutMoves, OneTurned

(* A turn that wants the gate. *)
LEMMA LockTurn ==
    ASSUME NEW t, NEW at \in GateStations, OnTurn(t), ~AtGate(task[t]), parked' = parked,
           Locks(t, at)
    PROVE  Turned(t, Moved(task[t], at))
BY LocksMoves, OneTurned

(* A turn that waits for something outside. *)
LEMMA WaitTurn ==
    ASSUME NEW t, NEW at \in Waits, OnTurn(t), ~AtGate(task[t]), parked' = parked,
           Suspends(At(Polled, t, at))
    PROVE  Turned(t, Moved(task[t], at))
BY WaitMoves, OneTurned

(* A turn that calls a session. *)
LEMMA CallTurn ==
    ASSUME NEW t, NEW s \in Sessions, NEW id \in Ids \cup {NoId},
           NEW at \in HeldCalls \cup FreeCalls, OnTurn(t), at \in HeldCalls <=> AtGate(task[t]),
           parked' = parked, Calls(t, s, id, at)
    PROVE  Turned(t, Called(task[t], s, id, at))
<1>1. /\ InPlace(loop', queue', parked, {})
      /\ loop'.task = [task EXCEPT ![t] = Called(task[t], s, id, at)]
      /\ GrowsTo(Polled.ready, loop'.ready)
  BY CallsMoves
<1>2. PICK r : r = Called(task[t], s, id, at)
  OBVIOUS
<1>3. Turned(t, r)
  BY <1>1, <1>2, OneTurned
<1> QED BY <1>2, <1>3

(* A turn that has sent a chunk and ends, or goes on to finalize. *)
LEMMA DrainTurn ==
    ASSUME NEW t, NEW due, OnTurn(t), AtGate(task[t]), parked' = parked, Drained(t, due)
    PROVE  \E r \in {NoTask, Moved(task[t], "finalize")} : Turned(t, r)
<1>1. Holds(t)
  BY PolledFacts
<1>2. /\ InPlace(loop', queue', parked, {}) /\ queue' = queue
      /\ \E r \in {NoTask, Moved(task[t], "finalize")} : loop'.task = [task EXCEPT ![t] = r]
      /\ GrowsTo(Polled.ready, loop'.ready)
  BY <1>1, DrainedMoves
<1>3. PICK r \in {NoTask, Moved(task[t], "finalize")} : loop'.task = [task EXCEPT ![t] = r]
  BY <1>2
<1>4. Turned(t, r)
  BY <1>2, <1>3, OneTurned
<1> QED BY <1>4

(* A task notes something of its own and then calls. *)
LEMMA NotedCallTurn ==
    ASSUME NEW t, NEW s \in Sessions, NEW id \in Ids \cup {NoId},
           NEW at \in HeldCalls \cup FreeCalls, OnTurn(t), at \in HeldCalls <=> AtGate(task[t]),
           parked' = parked, NEW x \in TaskType, x.at = task[t].at, x.on = task[t].on,
           x.answer = task[t].answer, CallsFrom(WithTask(Polled, t, x), t, s, id, at)
    PROVE  Turned(t, Called(x, s, id, at))
<1>1. /\ t \in Tasks /\ task \in [Tasks -> TaskType] /\ Polled \in LoopType /\ Polled.task = task
      /\ InPlace(Polled, queue, parked, {t}) /\ (AtGate(task[t]) <=> Occurs(Polled.gate, t))
  BY PolledFacts
<1>2. PICK l : l = WithTask(Polled, t, x)
  OBVIOUS
<1>3. /\ l \in LoopType /\ l.task = [task EXCEPT ![t] = x] /\ l.ready = Polled.ready
      /\ l.gate = Polled.gate
  BY <1>1, <1>2, TaskSet DEF WithTask
<1>4. l.task[t] = x /\ \A v \in Tasks \ {t} : l.task[v] = task[v]
  BY <1>1, <1>3
<1>5. \A v \in Tasks : /\ l.task[v].at = Polled.task[v].at /\ l.task[v].on = Polled.task[v].on
                       /\ l.task[v].answer = Polled.task[v].answer
  BY <1>1, <1>4
<1>6. InPlace(l, queue, parked, {t})
  BY <1>1, <1>3, <1>5, Relabels
<1>7. at \in HeldCalls <=> Occurs(l.gate, t)
  BY <1>1, <1>3
<1>8. CallsFrom(l, t, s, id, at)
  BY <1>2
<1>9. /\ InPlace(loop', queue', parked, {})
      /\ loop'.task = [l.task EXCEPT ![t] = Called(l.task[t], s, id, at)]
      /\ GrowsTo(l.ready, loop'.ready)
  BY <1>1, <1>6, <1>7, <1>8, CallMoves
<1>10. PICK r : r = Called(x, s, id, at)
  OBVIOUS
<1>11. loop'.task = [task EXCEPT ![t] = r] /\ GrowsTo(Polled.ready, loop'.ready)
  <2>1. loop'.task = [l.task EXCEPT ![t] = r]
    BY <1>4, <1>9, <1>10
  <2>2. [l.task EXCEPT ![t] = r] = [task EXCEPT ![t] = r]
    BY <1>1, <1>3
  <2>3. GrowsTo(Polled.ready, loop'.ready)
    BY <1>3, <1>9
  <2> QED BY <2>1, <2>2, <2>3
<1>12. Turned(t, r)
  BY <1>9, <1>11, OneTurned
<1> QED BY <1>10, <1>12

(* A turn that asks for a permission. *)
LEMMA AskTurn ==
    ASSUME NEW t, OnTurn(t), ~AtGate(task[t]), parked' = parked, EnsuresPermission(Polled, t)
    PROVE  \E a \in {"none", "granted", "denied"} :
              Turned(t, WithAnswer(Moved(task[t], "permission"), a))
<1>1. /\ t \in Tasks /\ task \in [Tasks -> TaskType] /\ Polled.task = task
      /\ InPlace(Polled, queue, parked, {t}) /\ ~Occurs(Polled.gate, t)
  BY PolledFacts
<1>2. /\ InPlace(loop', queue', parked, {})
      /\ \E a \in {"none", "granted", "denied"} :
           loop'.task = [Polled.task EXCEPT ![t] =
                           [Moved(Polled.task[t], "permission") EXCEPT !.answer = a]]
      /\ GrowsTo(Polled.ready, loop'.ready)
  BY <1>1, PermissionMoves
<1>3. PICK a \in {"none", "granted", "denied"} :
           loop'.task = [task EXCEPT ![t] = [Moved(task[t], "permission") EXCEPT !.answer = a]]
  BY <1>1, <1>2
<1>4. PICK r : r = WithAnswer(Moved(task[t], "permission"), a)
  OBVIOUS
<1>5. loop'.task = [task EXCEPT ![t] = r]
  BY <1>3, <1>4 DEF WithAnswer
<1>6. Turned(t, r)
  BY <1>2, <1>5, OneTurned
<1> QED BY <1>4, <1>6

\* The task of a tap with the ticket it is given.
Ticketed(r) == [OutdatedTask(r, "toggle") EXCEPT !.valid = TRUE]

(* A task with a new ticket is a task. *)
LEMMA TicketedType ==
    ASSUME NEW r \in TaskType
    PROVE  /\ Ticketed(r) \in TaskType
           /\ Ticketed(r).kind = r.kind /\ Ticketed(r).at = r.at /\ Ticketed(r).on = r.on
           /\ Ticketed(r).id = r.id /\ Ticketed(r).answer = r.answer
           /\ Ticketed(r).generation = r.generation /\ Ticketed(r).saw = r.saw
<1>1. PICK x \in TaskType : x = OutdatedTask(r, "toggle")
  BY OutdatedType
<1>2. /\ x.kind = r.kind /\ x.at = r.at /\ x.on = r.on /\ x.id = r.id /\ x.answer = r.answer
      /\ x.generation = r.generation /\ x.saw = r.saw
  BY <1>1, OutdatedType
<1>3. Ticketed(r) = [x EXCEPT !.valid = TRUE]
  BY <1>1 DEF Ticketed
<1> QED BY <1>2, <1>3 DEF TaskType

(* A turn that takes a new ticket and asks for a permission: no other tap keeps its. *)
LEMMA TicketTurn ==
    ASSUME NEW t, OnTurn(t), ~AtGate(task[t]), parked' = parked,
           EnsuresPermission([Advanced(Polled) EXCEPT !.task[t].valid = TRUE], t)
    PROVE  /\ \E a \in {"none", "granted", "denied"} :
                 Turned(t, WithAnswer(Moved(Ticketed(task[t]), "permission"), a))
           /\ \A u \in Tasks \ {t} : task'[u].kind = "toggle" => ~task'[u].valid
<1>1. /\ t \in Tasks /\ task \in [Tasks -> TaskType] /\ Polled.task = task
      /\ InPlace(Polled, queue, parked, {t}) /\ ~Occurs(Polled.gate, t)
      /\ \A v : Occurs(Polled.ready, v) <=> Occurs(loop.ready, v) /\ v # t
      /\ \A v, w : v # t /\ Before(loop.ready, v, w) => Before(Polled.ready, v, w)
  BY PolledFacts
<1>2. PICK k : k = Outdated(Polled, "toggle")
  OBVIOUS
<1>3. PICK f : f = [u \in Tasks |-> OutdatedTask(task[u], "toggle")]
  OBVIOUS
<1>4. InPlace(k, queue, parked, {t}) /\ k.task = f /\ k.ready = Polled.ready /\ k.gate = Polled.gate
  BY <1>1, <1>2, <1>3, OutdatedMoves
<1>5. PICK x : x = Ticketed(task[t])
  OBVIOUS
<1>6. /\ x \in TaskType /\ x.at = task[t].at /\ x.on = task[t].on /\ x.answer = task[t].answer
  BY <1>1, <1>5, TicketedType
<1>7. k \in LoopType /\ f[t] = OutdatedTask(task[t], "toggle")
  BY <1>1, <1>3, <1>4 DEF InPlace, Lined
<1>8. PICK l : l = WithTask(k, t, x)
  OBVIOUS
<1>9. l.task = [f EXCEPT ![t] = x] /\ l.ready = k.ready /\ l.gate = k.gate /\ l \in LoopType
  BY <1>1, <1>4, <1>6, <1>7, <1>8, TaskSet DEF WithTask
<1>10. [Advanced(Polled) EXCEPT !.task[t].valid = TRUE] = l
  <2>1. x = [k.task[t] EXCEPT !.valid = TRUE]
    BY <1>4, <1>5, <1>7 DEF Ticketed
  <2> QED BY <1>2, <1>8, <2>1 DEF Advanced, WithTask
<1>11. \A v \in Tasks : /\ l.task[v].at = k.task[v].at /\ l.task[v].on = k.task[v].on
                        /\ l.task[v].answer = k.task[v].answer
  <2> SUFFICES ASSUME NEW v \in Tasks
               PROVE  /\ l.task[v].at = k.task[v].at /\ l.task[v].on = k.task[v].on
                      /\ l.task[v].answer = k.task[v].answer
    OBVIOUS
  <2>1. CASE v = t
    <3>1. /\ f[t].at = task[t].at /\ f[t].on = task[t].on /\ f[t].answer = task[t].answer
      BY <1>1, <1>7, OutdatedType
    <3> QED BY <1>1, <1>3, <1>4, <1>6, <1>9, <2>1, <3>1
  <2>2. CASE v # t
    BY <1>1, <1>3, <1>4, <1>9, <2>2
  <2> QED BY <2>1, <2>2
<1>12. InPlace(l, queue, parked, {t}) /\ ~Occurs(l.gate, t)
  BY <1>1, <1>4, <1>9, <1>11, Relabels
<1>13. EnsuresPermission(l, t)
  BY <1>10
<1>14. /\ InPlace(loop', queue', parked, {})
       /\ \E a \in {"none", "granted", "denied"} :
            loop'.task = [l.task EXCEPT ![t] =
                            [Moved(l.task[t], "permission") EXCEPT !.answer = a]]
       /\ GrowsTo(l.ready, loop'.ready)
  BY <1>1, <1>12, <1>13, PermissionMoves
<1>15. PICK a \in {"none", "granted", "denied"} :
            loop'.task = [l.task EXCEPT ![t] =
                            [Moved(l.task[t], "permission") EXCEPT !.answer = a]]
  BY <1>14
<1>16. PICK r : r = WithAnswer(Moved(x, "permission"), a)
  OBVIOUS
<1>17. l.task[t] = x /\ \A u \in Tasks \ {t} : l.task[u] = OutdatedTask(task[u], "toggle")
  BY <1>1, <1>3, <1>9
<1>18. loop'.task = [l.task EXCEPT ![t] = r]
  BY <1>15, <1>16, <1>17 DEF WithAnswer
<1>19. task'[t] = r /\ \A u \in Tasks \ {t} : task'[u] = OutdatedTask(task[u], "toggle")
  <2>1. DOMAIN l.task = Tasks
    BY <1>3, <1>9
  <2>2. task' = [l.task EXCEPT ![t] = r]
    BY <1>18 DEF task
  <2> QED BY <1>1, <1>17, <2>1, <2>2
<1>20. \A u \in Tasks \ {t} : Undisturbed(u)
  BY <1>1, <1>19, OutdatedType DEF Undisturbed
<1>21. r \in TaskType
  <2>1. "permission" \in Stations /\ a \in Answers
    BY DEF Stations, Waits, Answers
  <2>2. Moved(x, "permission") \in TaskType
    BY <1>6, <2>1, MovedType
  <2> QED BY <1>16, <2>1, <2>2, WithAnswerType
<1>22. Orderly({t})
  BY <1>1, <1>4, <1>9, <1>14 DEF Orderly, GrowsTo
<1>23. AllInPlace'
  BY <1>1, <1>14, AllPrimed
<1>24. Turned(t, r)
  BY <1>19, <1>20, <1>21, <1>22, <1>23 DEF Turned
<1>25. \A u \in Tasks \ {t} : task'[u].kind = "toggle" => ~task'[u].valid
  BY <1>1, <1>19, OutdatedType
<1> QED BY <1>5, <1>16, <1>24, <1>25

-----------------------------------------------------------------------------
(***************************************************************************)
(* The turns that start a session, install it and read its events.         *)
(***************************************************************************)

(* The task of a scan becomes the reader of a session's events. *)
LEMMA InstallTurn ==
    ASSUME NEW t, OnTurn(t), AtGate(task[t]), parked' = parked, NEW r \in TaskType,
           r.at = "changed",
           \/ Suspends(WithTask(Unlock(Polled), t, r))
           \/ Suspends([WithTask(Unlock(Polled), t, r) EXCEPT !.ready = Append(@, t)])
    PROVE  Turned(t, r)
<1>1. t \in Tasks /\ Holds(t)
  BY PolledFacts
<1>2. PICK m : m = Unlock(Polled)
  OBVIOUS
<1>3. /\ m \in LoopType /\ InPlace(m, queue, parked, {t}) /\ ~Occurs(m.gate, t)
      /\ m.task = task /\ GrowsTo(Polled.ready, m.ready)
  BY <1>1, <1>2, LetsGo
<1>4. PICK n : n = WithTask(m, t, r)
  OBVIOUS
<1>5. /\ n \in LoopType /\ n.task = [m.task EXCEPT ![t] = r] /\ n.ready = m.ready /\ n.gate = m.gate
  BY <1>1, <1>3, <1>4, TaskSet DEF WithTask
<1>6. ~AtGate(r)
  BY DEF AtGate, GateStations, HeldCalls
<1>7. Awake(r)
  BY DEF Awake, Waits
<1>8. {t} \ {t} = {}
  OBVIOUS
<1>9. CASE Suspends(WithTask(Unlock(Polled), t, r))
  <2>1. loop' = n /\ queue' = queue
    BY <1>2, <1>4, <1>9 DEF Suspends
  <2>2. InPlace(n, queue, parked, {t} \ {t})
    BY <1>1, <1>3, <1>5, <1>6, Rests
  <2>3. InPlace(loop', queue', parked, {})
    BY <1>8, <2>1, <2>2
  <2>4. loop'.task = [task EXCEPT ![t] = r]
    BY <1>3, <1>5, <2>1
  <2>5. GrowsTo(Polled.ready, loop'.ready)
    BY <1>3, <1>5, <2>1
  <2> QED BY <2>3, <2>4, <2>5, OneTurned
<1>10. CASE Suspends([WithTask(Unlock(Polled), t, r) EXCEPT !.ready = Append(@, t)])
  <2>1. PICK k : k = [n EXCEPT !.ready = Append(@, t)]
    OBVIOUS
  <2>2. loop' = k /\ queue' = queue
    BY <1>2, <1>4, <1>10, <2>1 DEF Suspends
  <2>3. m.ready \in Seq(Tasks)
    BY <1>3, LoopFields
  <2>4. Append(m.ready, t) \in Seq(Tasks)
    BY <1>1, <2>3, AppendProperties
  <2>5. /\ k \in LoopType /\ k.task = n.task /\ k.gate = n.gate
        /\ k.ready = Append(n.ready, t)
    BY <1>5, <2>1, <2>4 DEF LoopType
  <2>6. /\ k \in LoopType /\ k.task = [m.task EXCEPT ![t] = r] /\ k.gate = m.gate
        /\ k.ready = Append(m.ready, t)
    BY <1>5, <2>5
  <2>7. AtGate(r) <=> Occurs(m.gate, t)
    BY <1>3, <1>6
  <2>8. InPlace(k, queue, parked, {t} \ {t}) /\ GrowsTo(m.ready, k.ready)
    BY <1>1, <1>3, <1>7, <2>6, <2>7, GoesLast
  <2>9. InPlace(loop', queue', parked, {})
    BY <1>8, <2>2, <2>8
  <2>10. loop'.task = [task EXCEPT ![t] = r]
    BY <1>3, <2>2, <2>6
  <2>11. GrowsTo(Polled.ready, loop'.ready)
    BY <1>3, <2>2, <2>8 DEF GrowsTo
  <2> QED BY <2>9, <2>10, <2>11, OneTurned
<1> QED BY <1>9, <1>10

(* A task of session s. *)
OnSession(r, s) == [r EXCEPT !.on = s]

(* A handshake gave a session. *)
LEMMA ConnectTurn ==
    ASSUME NEW t, OnTurn(t), ~AtGate(task[t]), parked' = parked, NEW s \in Sessions,
           Suspends([Continues(Polled, t, "connected") EXCEPT !.task[t].on = s])
    PROVE  Turned(t, OnSession(Moved(task[t], "connected"), s))
<1>1. /\ t \in Tasks /\ task \in [Tasks -> TaskType] /\ Polled \in LoopType /\ Polled.task = task
      /\ InPlace(Polled, queue, parked, {t}) /\ ~Occurs(Polled.gate, t)
  BY PolledFacts
<1>2. "connected" \in Stations
  BY DEF Stations
<1>3. PICK x : x = Moved(task[t], "connected")
  OBVIOUS
<1>4. x \in TaskType /\ x.at = "connected"
  BY <1>1, <1>2, <1>3, MovedType
<1>5. PICK r : r = OnSession(x, s)
  OBVIOUS
<1>6. r \in TaskType /\ r.at = "connected"
  BY <1>4, <1>5 DEF OnSession, TaskType
<1>7. PICK c : c = Continues(Polled, t, "connected")
  OBVIOUS
<1>8. /\ c \in LoopType /\ c.task = [task EXCEPT ![t] = x] /\ c.ready = <<t>> \o Polled.ready
      /\ c.gate = Polled.gate
  <2>1. /\ c \in LoopType /\ c.task = [Polled.task EXCEPT ![t] = Moved(Polled.task[t], "connected")]
        /\ c.ready = <<t>> \o Polled.ready /\ c.gate = Polled.gate
    <3>1. PICK l \in LoopType : l = Polled
      BY <1>1
    <3>2. t \in Tasks
      BY <1>1
    <3>3. c = Continues(l, t, "connected")
      BY <1>7, <3>1
    <3>4. /\ c \in LoopType /\ c.task = [l.task EXCEPT ![t] = Moved(l.task[t], "connected")]
          /\ c.ready = <<t>> \o l.ready /\ c.gate = l.gate
      BY <1>2, <3>2, <3>3, ContinuesSets
    <3> QED BY <3>1, <3>4
  <2> QED BY <1>1, <1>3, <2>1
<1>9. c.task[t] = x
  BY <1>1, <1>8
<1>10. PICK m : m = loop'
  OBVIOUS
<1>11. m = [c EXCEPT !.task = [c.task EXCEPT ![t] = r]] /\ queue' = queue
  BY <1>5, <1>7, <1>8, <1>9, <1>10 DEF Suspends, OnSession, LoopType
<1>12. m \in LoopType /\ m.task = [c.task EXCEPT ![t] = r] /\ m.ready = c.ready /\ m.gate = c.gate
  BY <1>6, <1>8, <1>11 DEF LoopType
<1>13. m.task = [Polled.task EXCEPT ![t] = r] /\ m.ready = Ahead(t, Polled.ready) /\ m.gate = Polled.gate
  BY <1>1, <1>8, <1>12 DEF Ahead
<1>14. Awake(r) /\ ~AtGate(r)
  BY <1>6 DEF Awake, AtGate, GateStations, HeldCalls, Waits
<1>15. AtGate(r) <=> Occurs(Polled.gate, t)
  BY <1>1, <1>14
<1>16. InPlace(m, queue, parked, {t} \ {t}) /\ GrowsTo(Polled.ready, m.ready)
  <2>1. PICK l : l = Polled
    OBVIOUS
  <2>2. InPlace(l, queue, parked, {t}) /\ (AtGate(r) <=> Occurs(l.gate, t))
        /\ m.task = [l.task EXCEPT ![t] = r] /\ m.ready = Ahead(t, l.ready) /\ m.gate = l.gate
    BY <1>1, <1>13, <1>15, <2>1
  <2>3. r \in TaskType /\ Awake(r) /\ m \in LoopType
    BY <1>6, <1>12, <1>14
  <2>5. t \in Tasks
    BY <1>1
  <2>4. InPlace(m, queue, parked, {t} \ {t}) /\ GrowsTo(l.ready, m.ready)
    BY <2>2, <2>3, <2>5, GoesOn
  <2> QED BY <2>1, <2>4
<1>17. {t} \ {t} = {}
  OBVIOUS
<1>18. InPlace(loop', queue', parked, {})
  BY <1>10, <1>11, <1>16, <1>17
<1>19. loop'.task = [task EXCEPT ![t] = r] /\ GrowsTo(Polled.ready, loop'.ready)
  BY <1>1, <1>10, <1>13, <1>16
<1>20. Turned(t, r)
  BY <1>18, <1>19, OneTurned
<1> QED BY <1>3, <1>5, <1>20

(* The reader of events waits for the next one. *)
LEMMA ReadTurn ==
    ASSUME NEW t, OnTurn(t), task[t].at = "changed", parked' = parked, Suspends(Polled)
    PROVE  Turned(t, task[t])
<1>1. /\ t \in Tasks /\ task \in [Tasks -> TaskType] /\ Polled \in LoopType /\ Polled.task = task
      /\ InPlace(Polled, queue, parked, {t}) /\ (AtGate(task[t]) <=> Occurs(Polled.gate, t))
  BY PolledFacts
<1>2. ~AtGate(task[t])
  BY DEF AtGate, GateStations, HeldCalls
<1>3. PICK r \in TaskType : r = task[t]
  BY <1>1
<1>4. Polled.task = [Polled.task EXCEPT ![t] = r] /\ ~AtGate(r) /\ ~Occurs(Polled.gate, t)
  BY <1>1, <1>2, <1>3
<1>5. InPlace(Polled, queue, parked, {t} \ {t})
  BY <1>1, <1>3, <1>4, Rests
<1>6. {t} \ {t} = {}
  OBVIOUS
<1>7. loop' = Polled /\ queue' = queue
  BY DEF Suspends
<1>8. InPlace(loop', queue', parked, {})
  BY <1>5, <1>6, <1>7
<1>9. loop'.task = [task EXCEPT ![t] = r] /\ GrowsTo(Polled.ready, loop'.ready)
  BY <1>1, <1>4, <1>7 DEF GrowsTo
<1>10. Turned(t, r)
  BY <1>8, <1>9, OneTurned
<1> QED BY <1>3, <1>10

-----------------------------------------------------------------------------
(***************************************************************************)
(* The inductive invariant, and the steps that matter to none of its parts.*)
(***************************************************************************)

(* The types of the application's fields, of the window's flags and of the activity. *)
StateType == [session : Sessions \cup {NoSession}, generation : Nat,
              recorder : BOOLEAN, recording_request_id : Ids \cup {NoId},
              pending_request_id : Ids \cup {NoId}, pending_decision : Ids \cup {NoId}]
AppType == [remote_connected : BOOLEAN, is_busy : BOOLEAN, input_pending : BOOLEAN,
            voice_recording : BOOLEAN, remote_scanning : BOOLEAN, dialog : Dialogs]
ActivityType == [phase : {"resumed", "paused for dialog", "paused", "stopped"},
                 permits : SUBSET {"camera", "microphone"}]

\* What a task is by where it is.
Shaped(r) ==
    /\ r.kind = "events" <=> r.at = "changed"
    /\ r.kind = "disconnect" => r.at = "start"
    /\ r.at \in HeldCalls \cup FreeCalls \cup {"connected", "install", "changed"} => r.on \in Sessions
    /\ r.at \in {"last", "finishing"} => r.id \in Ids

(* The types of all variables but the lines. *)
FieldsTyped ==
    /\ state \in StateType /\ app \in AppType /\ activity \in ActivityType
    /\ life \in [Sessions -> {"unborn", "open", "ended"}]
    /\ active \in [Sessions -> Ids \cup {NoId}]
    /\ event \in [Sessions -> Events]
    /\ issued \in [Sessions -> 0 .. MaxRequests]
    /\ \A u \in Tasks : Shaped(task[u])

(* A scan whose ticket is still valid; a disconnect that is posted or runs, and
   that none is; a scan that has a session to install; one for the disconnect
   that a connection has yet to take; that no session beyond k was started. *)
LiveScan(u) == task[u].kind = "scan" /\ task[u].valid
Leaving(u) == task[u].kind = "disconnect"
NoneLeaving == \A d \in Tasks : ~Leaving(d)
Reaches(u) == task[u].at \in {"connected", "install"}
Spent == IF app.remote_connected \/ ~NoneLeaving THEN 1 ELSE 0
BornUpTo(k) == \A s \in Sessions : life[s] # "unborn" => s <= k

(* The window, the connection and the scans.  At most one scan has a valid ticket
   and at most one disconnect is posted; while a disconnect is posted the window is
   not connected, and a scan that may go on is behind it; a valid scan finds no
   session held; the window is connected exactly when a session is held; sessions
   start in order, and each of them moves the generation on at most twice, so the
   scan that installs a session finds the generation still below; the events of a
   session act only under the generation it was installed at; the end is published
   of ended sessions only. *)
WindowInv ==
    /\ \A u, v \in Tasks : LiveScan(u) /\ LiveScan(v) => u = v
    /\ \A d, e \in Tasks : Leaving(d) /\ Leaving(e) => d = e
    /\ \A d \in Tasks : Leaving(d) => Occurs(loop.ready, d) /\ ~app.remote_connected
    /\ \A d, u \in Tasks : Leaving(d) /\ LiveScan(u) => task[u].at = "start" /\ Before(loop.ready, d, u)
    /\ \A u \in Tasks : LiveScan(u) /\ NoneLeaving => state.session = NoSession
    /\ NoneLeaving => (app.remote_connected <=> state.session # NoSession)
    /\ \A r, s \in Sessions : r < s /\ life[s] # "unborn" => life[r] # "unborn"
    /\ \A k \in 0 .. MaxSessions : BornUpTo(k) => state.generation + Spent <= 2 * k
    /\ \A u \in Tasks : LiveScan(u) /\ Reaches(u) => state.generation <= 2 * (task[u].on - 1)
    /\ \A u \in Tasks : task[u].on # NoSession => life[task[u].on] # "unborn"
    /\ state.session # NoSession => life[state.session] # "unborn"
    /\ \A u \in Tasks : task[u].kind = "events" =>
        /\ task[u].generation <= state.generation
        /\ task[u].generation = state.generation => state.session \in {NoSession, task[u].on}
    /\ \A s \in Sessions : event[s] = Disconnected => life[s] = "ended"

(* A request id that was issued; the stations of a task that takes an upload away;
   a task that has just begun one and is told so; the ids the application keeps. *)
Known(id) == id # NoId => id[2] <= issued[id[1]]
Takers == {"undo", "last", "finishing", "cancelling", "aborting", "dropping"}
Fresh(u) == task[u].at = "begin" /\ task[u].answer = "ok"
OwnIds == {state.recording_request_id, state.pending_request_id, state.pending_decision}

(* The recording and its upload.  Every id was issued; the task that begins an
   upload is of the connected session; an upload just begun is the one its session
   has open, and no other task and no field has its id; while a recorder runs, its
   upload is the connected session's and open there, and no task is taking it away. *)
RecordInv ==
    /\ Known(state.recording_request_id) /\ Known(state.pending_request_id)
    /\ Known(state.pending_decision)
    /\ \A u \in Tasks : Known(task[u].id)
    /\ \A u \in Tasks : task[u].at = "begin" => state.session \in {NoSession, task[u].on}
    /\ \A u \in Tasks : Fresh(u) =>
        /\ task[u].id[1] = task[u].on
        /\ life[task[u].on] = "open" => active[task[u].on] = task[u].id
        /\ task[u].id \notin OwnIds
        /\ \A v \in Tasks \ {u} : task[v].id # task[u].id
    /\ state.recorder =>
        /\ state.session # NoSession /\ state.recording_request_id # NoId
        /\ state.recording_request_id[1] = state.session
        /\ life[state.session] = "open" => active[state.session] = state.recording_request_id
        /\ \A u \in Tasks : task[u].id = state.recording_request_id => task[u].at \notin Takers

(* The inductive invariant. *)
IInv == AllInPlace /\ FieldsTyped /\ WindowInv /\ RecordInv

\* What a step may do to a task that matters to none of the three.
QuietShape(u) == Shaped(task'[u])
QuietScan(u) ==
    /\ task'[u].kind = "disconnect" <=> task[u].kind = "disconnect"
    /\ task'[u].kind = "scan" /\ task'[u].valid =>
        /\ LiveScan(u)
        /\ task'[u].at = task[u].at \/ NoneLeaving
        /\ task'[u].at \in {"connected", "install"} => Reaches(u) /\ task'[u].on = task[u].on
    /\ task'[u].on \in {NoSession, state.session, task[u].on}
    /\ task'[u].kind = "events" =>
        task[u].kind = "events" /\ task'[u].generation = task[u].generation
        /\ task'[u].on = task[u].on
QuietRecord(u) ==
    /\ task'[u].id \in OwnIds \cup {NoId, task[u].id}
    /\ task'[u].at = "begin" =>
        task'[u].on = state.session \/ (task[u].at = "begin" /\ task'[u].on = task[u].on)
    /\ task'[u].at = "begin" /\ task'[u].answer = "ok" =>
        Fresh(u) /\ task'[u].id = task[u].id /\ task'[u].on = task[u].on
    /\ task'[u].at \in Takers /\ state'.recorder /\ task'[u].id = state.recording_request_id =>
        task[u].at \in Takers /\ task[u].id = task'[u].id

(* A step of the fields that forgets ids or ends a recording, and no more. *)
QuietState ==
    /\ state' \in StateType
    /\ state'.session = state.session /\ state'.generation = state.generation
    /\ {state'.recording_request_id, state'.pending_request_id, state'.pending_decision}
         \subseteq OwnIds \cup {NoId}
    /\ state'.recorder =>
         state.recorder /\ state'.recording_request_id = state.recording_request_id
(* A step of the window that leaves the connection shown. *)
QuietApp == app' \in AppType /\ app'.remote_connected = app.remote_connected
\* A session may end.
QuietLives ==
    \A s \in Sessions : /\ life'[s] = "unborn" <=> life[s] = "unborn"
                        /\ life[s] = "ended" => life'[s] = "ended"
                        /\ life'[s] = "open" => life[s] = "open"
                        /\ event'[s] = Disconnected =>
                             event[s] = Disconnected \/ life'[s] = "ended"
\* And an upload that some task takes may.
QuietSessions ==
    /\ QuietLives
    /\ \A s \in Sessions : life'[s] = "open" /\ active'[s] # active[s] =>
         \E u \in Tasks : task[u].at \in Takers /\ task[u].id = active[s]
    /\ issued' = issued

(* A task that is not disturbed is quiet. *)
LEMMA UndisturbedQuiet ==
    ASSUME FieldsTyped, NEW u \in Tasks, Undisturbed(u)
    PROVE  QuietShape(u) /\ QuietScan(u) /\ QuietRecord(u)
<1>1. Shaped(task[u])
  BY DEF FieldsTyped
<1>2. QuietShape(u)
  BY <1>1 DEF Shaped, Undisturbed, QuietShape
<1>3. QuietScan(u)
  BY DEF Undisturbed, QuietScan, LiveScan, Reaches
<1>4. QuietRecord(u)
  BY DEF Undisturbed, QuietRecord, Fresh
<1> QED BY <1>2, <1>3, <1>4

(* A quiet step keeps the types. *)
LEMMA QuietFields ==
    ASSUME FieldsTyped, state' \in StateType, app' \in AppType, activity' \in ActivityType,
           life' \in [Sessions -> {"unborn", "open", "ended"}],
           active' \in [Sessions -> Ids \cup {NoId}], event' \in [Sessions -> Events],
           issued' \in [Sessions -> 0 .. MaxRequests], \A u \in Tasks : QuietShape(u)
    PROVE  FieldsTyped'
BY DEF FieldsTyped, QuietShape

(* A quiet step that lets no disconnect run and overtakes none keeps WindowInv. *)
LEMMA QuietWindow ==
    ASSUME AllInPlace, FieldsTyped, WindowInv, state'.session = state.session,
           state'.generation = state.generation, QuietApp, QuietLives,
           \A u \in Tasks : QuietScan(u),
           \A d \in Tasks : Leaving(d) => Occurs(loop'.ready, d),
           \A d, u \in Tasks : Leaving(d) /\ Before(loop.ready, d, u) => Before(loop'.ready, d, u)
    PROVE  WindowInv'
<1>1. \A u \in Tasks : (Leaving(u)' <=> Leaving(u)) /\ (LiveScan(u)' => LiveScan(u))
  BY DEF QuietScan, Leaving, LiveScan
<1>2. NoneLeaving' <=> NoneLeaving
  BY <1>1 DEF NoneLeaving
<1>3. app'.remote_connected = app.remote_connected
  BY DEF QuietApp
<1>4. Spent' = Spent
  BY <1>2, <1>3 DEF Spent
<1>5. \A k : BornUpTo(k)' <=> BornUpTo(k)
  BY DEF BornUpTo, QuietLives
<1>6. \A u, v \in Tasks : LiveScan(u)' /\ LiveScan(v)' => u = v
  BY <1>1 DEF WindowInv
<1>7. \A d, e \in Tasks : Leaving(d)' /\ Leaving(e)' => d = e
  BY <1>1 DEF WindowInv
<1>8. \A d \in Tasks : Leaving(d)' => Occurs(loop'.ready, d) /\ ~app'.remote_connected
  BY <1>1, <1>3 DEF WindowInv
<1>9. ASSUME NEW d \in Tasks, NEW u \in Tasks, Leaving(d)', LiveScan(u)'
      PROVE  task'[u].at = "start" /\ Before(loop'.ready, d, u)
  <2>1. Leaving(d) /\ LiveScan(u) /\ ~NoneLeaving
    BY <1>1, <1>9 DEF NoneLeaving
  <2>2. task[u].at = "start" /\ Before(loop.ready, d, u)
    BY <2>1 DEF WindowInv
  <2>3. task'[u].at = task[u].at
    BY <1>9, <2>1 DEF QuietScan, LiveScan
  <2> QED BY <2>1, <2>2, <2>3
<1>10. \A u \in Tasks : LiveScan(u)' /\ NoneLeaving' => state'.session = NoSession
  BY <1>1, <1>2 DEF WindowInv
<1>11. NoneLeaving' => (app'.remote_connected <=> state'.session # NoSession)
  BY <1>2, <1>3 DEF WindowInv
<1>12. \A r, s \in Sessions : r < s /\ life'[s] # "unborn" => life'[r] # "unborn"
  BY DEF WindowInv, QuietLives
<1>13. \A k \in 0 .. MaxSessions : BornUpTo(k)' => state'.generation + Spent' <= 2 * k
  BY <1>4, <1>5 DEF WindowInv
<1>14. \A u \in Tasks : LiveScan(u)' /\ Reaches(u)' => state'.generation <= 2 * (task'[u].on - 1)
  <2> SUFFICES ASSUME NEW u \in Tasks, LiveScan(u)', Reaches(u)'
               PROVE  state'.generation <= 2 * (task'[u].on - 1)
    OBVIOUS
  <2>1. LiveScan(u) /\ Reaches(u) /\ task'[u].on = task[u].on
    BY DEF QuietScan, LiveScan, Reaches
  <2>2. state.generation <= 2 * (task[u].on - 1)
    BY <2>1 DEF WindowInv
  <2> QED BY <2>1, <2>2
<1>15. \A u \in Tasks : task'[u].on # NoSession => task'[u].on \in {state.session, task[u].on}
  BY DEF QuietScan
<1>16. state.session # NoSession => state.session \in Sessions
  BY DEF FieldsTyped, StateType
<1>17. \A u \in Tasks : task'[u].on # NoSession => life[task'[u].on] # "unborn"
  BY <1>15 DEF WindowInv
<1>18. \A s : s \in Sessions /\ life[s] # "unborn" => life'[s] # "unborn"
  BY DEF QuietLives
<1> DEFINE Told == \A s \in Sessions : event'[s] = Disconnected => life'[s] = "ended"
<1>19. Told
  BY DEF QuietLives, WindowInv
<1>20. \A u \in Tasks : task'[u].kind = "events" =>
        /\ task'[u].generation <= state'.generation
        /\ task'[u].generation = state'.generation => state'.session \in {NoSession, task'[u].on}
  BY DEF QuietScan, WindowInv
<1>21. \A u \in Tasks : task'[u].on # NoSession => life'[task'[u].on] # "unborn"
  <2> SUFFICES ASSUME NEW u \in Tasks, task'[u].on # NoSession
               PROVE  life'[task'[u].on] # "unborn"
    OBVIOUS
  <2>1. task[u] \in TaskType
    BY LoopTyped
  <2>2. task[u].on \in Sessions \cup {NoSession}
    BY <2>1, TaskFields
  <2>3. task'[u].on \in Sessions
    BY <2>2, <1>15, <1>16
  <2> QED BY <2>3, <1>17, <1>18
<1>22. state'.session # NoSession => life'[state'.session] # "unborn"
  BY <1>16, <1>18 DEF WindowInv
<1> QED
  BY <1>6, <1>7, <1>8, <1>9, <1>10, <1>11, <1>12, <1>13, <1>14, <1>19, <1>20, <1>21, <1>22
  DEF WindowInv

\* A session may be born and may end, and an upload that some task takes may.
RecordSessions ==
    /\ \A s \in Sessions : /\ life[s] # "unborn" /\ life'[s] = "open" => life[s] = "open"
                           /\ life[s] # "unborn" /\ life'[s] = "open" /\ active'[s] # active[s] =>
                                \E u \in Tasks : task[u].at \in Takers /\ task[u].id = active[s]
    /\ issued' = issued

(* A step that starts no recording. *)
LEMMA RecordsKept ==
    ASSUME FieldsTyped, WindowInv, RecordInv, RecordSessions,
           OwnIds' \subseteq OwnIds \cup {NoId},
           state'.recorder => /\ state.recorder /\ state'.session = state.session
                              /\ state'.recording_request_id = state.recording_request_id,
           \A u \in Tasks : task'[u].at = "begin" => state'.session \in {NoSession, task'[u].on},
           \A u \in Tasks : QuietRecord(u)
    PROVE  RecordInv'
<1>1. \A id : Known(id)' <=> Known(id)
  BY DEF Known, RecordSessions
<1>2. \A id \in OwnIds \cup {NoId} : Known(id)
  BY DEF RecordInv, OwnIds, Known
<1>3. OwnIds' \subseteq OwnIds \cup {NoId}
  OBVIOUS
<1>4. \A id \in OwnIds' : Known(id)'
  BY <1>1, <1>2, <1>3
<1>5. /\ Known(state.recording_request_id)' /\ Known(state.pending_request_id)'
      /\ Known(state.pending_decision)'
  <2>1. /\ state'.recording_request_id \in OwnIds' /\ state'.pending_request_id \in OwnIds'
        /\ state'.pending_decision \in OwnIds'
    BY DEF OwnIds
  <2> QED BY <1>4, <2>1 DEF Known
<1>6. \A u \in Tasks : Known(task[u].id)'
  <2> SUFFICES ASSUME NEW u \in Tasks PROVE Known(task[u].id)'
    OBVIOUS
  <2>1. task'[u].id \in OwnIds \cup {NoId, task[u].id}
    BY DEF QuietRecord
  <2>2. Known(task'[u].id)
    BY <1>2, <2>1 DEF RecordInv
  <2>3. PICK id : id = task'[u].id
    OBVIOUS
  <2>4. Known(id)'
    BY <1>1, <2>2, <2>3
  <2> QED BY <2>3, <2>4 DEF Known
<1>7. \A u \in Tasks : task'[u].at = "begin" => state'.session \in {NoSession, task'[u].on}
  OBVIOUS
<1>8. \A u \in Tasks : Fresh(u)' => Fresh(u) /\ task'[u].id = task[u].id /\ task'[u].on = task[u].on
  BY DEF QuietRecord, Fresh
<1>9. ASSUME NEW u \in Tasks, Fresh(u)'
      PROVE  /\ task'[u].id[1] = task'[u].on
             /\ life'[task'[u].on] = "open" => active'[task'[u].on] = task'[u].id
             /\ task'[u].id \notin OwnIds'
             /\ \A v \in Tasks \ {u} : task'[v].id # task'[u].id
  <2>1. Fresh(u) /\ task'[u].id = task[u].id /\ task'[u].on = task[u].on
    BY <1>8, <1>9
  <2>2. /\ task[u].id[1] = task[u].on
        /\ life[task[u].on] = "open" => active[task[u].on] = task[u].id
        /\ task[u].id \notin OwnIds
        /\ \A v \in Tasks \ {u} : task[v].id # task[u].id
    BY <2>1 DEF RecordInv
  <2>3. task[u].on \in Sessions /\ life[task[u].on] # "unborn"
    <3>1. task[u].on \in Sessions
      BY <2>1 DEF FieldsTyped, Shaped, Fresh, HeldCalls
    <3> QED BY <3>1 DEF WindowInv, Sessions, NoSession
  <2>4. task[u].id # NoId
    BY <2>2, <2>3 DEF NoId, Sessions
  <2>5. task[u].id \notin OwnIds'
    BY <1>3, <2>2, <2>4
  <2>6. \A v \in Tasks \ {u} : task'[v].id # task[u].id
    <3> SUFFICES ASSUME NEW v \in Tasks, v # u PROVE task'[v].id # task[u].id
      OBVIOUS
    <3>1. task'[v].id \in OwnIds \cup {NoId, task[v].id}
      BY DEF QuietRecord
    <3>2. task[v].id # task[u].id
      BY <2>2
    <3> QED BY <2>2, <2>4, <3>1, <3>2
  <2>7. life'[task[u].on] = "open" => active'[task[u].on] = task[u].id
    <3> SUFFICES ASSUME life'[task[u].on] = "open", active'[task[u].on] # active[task[u].on]
                 PROVE  FALSE
      BY <2>2, <2>3 DEF RecordSessions
    <3>1. life[task[u].on] = "open"
      BY <2>3 DEF RecordSessions
    <3>2. PICK v \in Tasks : task[v].at \in Takers /\ task[v].id = active[task[u].on]
      BY <2>3 DEF RecordSessions
    <3>3. v # u
      BY <2>1, <3>2 DEF Fresh, Takers
    <3> QED BY <2>2, <3>1, <3>2, <3>3
  <2> QED BY <2>1, <2>2, <2>5, <2>6, <2>7
<1>10. ASSUME state'.recorder
       PROVE  /\ state'.session # NoSession /\ state'.recording_request_id # NoId
              /\ state'.recording_request_id[1] = state'.session
              /\ life'[state'.session] = "open" => active'[state'.session] = state'.recording_request_id
              /\ \A u \in Tasks : task'[u].id = state'.recording_request_id => task'[u].at \notin Takers
  <2>1. state.recorder /\ state'.recording_request_id = state.recording_request_id
    BY <1>10
  <2>2. /\ state.session # NoSession /\ state.recording_request_id # NoId
        /\ state.recording_request_id[1] = state.session
        /\ life[state.session] = "open" => active[state.session] = state.recording_request_id
        /\ \A u \in Tasks : task[u].id = state.recording_request_id => task[u].at \notin Takers
    BY <2>1 DEF RecordInv
  <2>3. state.session \in Sessions /\ life[state.session] # "unborn"
    BY <2>2 DEF FieldsTyped, StateType, WindowInv
  <2>4. life'[state.session] = "open" => active'[state.session] = state.recording_request_id
    <3> SUFFICES ASSUME life'[state.session] = "open", active'[state.session] # active[state.session]
                 PROVE  FALSE
      BY <2>2, <2>3 DEF RecordSessions
    <3>1. life[state.session] = "open"
      BY <2>3 DEF RecordSessions
    <3>2. PICK v \in Tasks : task[v].at \in Takers /\ task[v].id = active[state.session]
      BY <2>3 DEF RecordSessions
    <3> QED BY <2>2, <3>1, <3>2
  <2>5. ASSUME NEW u \in Tasks, task'[u].id = state.recording_request_id, task'[u].at \in Takers
        PROVE  FALSE
    BY <1>10, <2>2, <2>5 DEF QuietRecord
  <2>6. state'.session = state.session
    BY <1>10
  <2> QED BY <2>1, <2>2, <2>4, <2>5, <2>6
<1> QED BY <1>5, <1>6, <1>7, <1>9, <1>10 DEF RecordInv

(* A quiet step keeps RecordInv. *)
LEMMA QuietRecords ==
    ASSUME FieldsTyped, WindowInv, RecordInv, QuietState, QuietSessions,
           \A u \in Tasks : QuietRecord(u)
    PROVE  RecordInv'
<1>1. RecordSessions
  BY DEF RecordSessions, QuietSessions, QuietLives
<1>2. OwnIds' \subseteq OwnIds \cup {NoId}
  BY DEF QuietState, OwnIds
<1>3. \A u \in Tasks : task'[u].at = "begin" => state'.session \in {NoSession, task'[u].on}
  BY DEF QuietRecord, QuietState, RecordInv
<1> QED BY <1>1, <1>2, <1>3, RecordsKept DEF QuietState

-----------------------------------------------------------------------------
(***************************************************************************)
(* Turns that are quiet.                                                   *)
(***************************************************************************)

(* Outside its own actions a turn leaves the activity and the sessions alone. *)
Aside == UNCHANGED <<activity, parked, active, issued, life, event>>
\* A turn of task t, outside its own actions.
Takes(t) == IInv /\ OnTurn(t) /\ Aside /\ task[t].kind \notin {"disconnect", "events"}

(* The parts of the invariant. *)
LEMMA Parts ==
    ASSUME IInv
    PROVE  /\ AllInPlace /\ FieldsTyped /\ WindowInv /\ RecordInv
           /\ state \in StateType /\ app \in AppType /\ activity \in ActivityType
           /\ task \in [Tasks -> TaskType] /\ \A u \in Tasks : Shaped(task[u])
BY LoopTyped DEF IInv, FieldsTyped

(* No disconnect is posted when a scan that goes on has its turn. *)
LEMMA ScanAlone ==
    ASSUME IInv, NEW t, OnTurn(t), LiveScan(t)
    PROVE  NoneLeaving
<1>1. /\ t \in Tasks /\ t = loop.ready[1] /\ IsInjective(loop.ready) /\ loop.ready \in Seq(Tasks)
      /\ loop.ready # <<>>
  BY LoopTyped, PolledFacts, HeadOccurs DEF OnTurn
<1>2. SUFFICES ASSUME NEW d \in Tasks, Leaving(d) PROVE FALSE
  BY DEF NoneLeaving
<1>3. Before(loop.ready, d, t)
  BY <1>1, <1>2 DEF IInv, WindowInv
<1>4. PICK i, j \in 1 .. Len(loop.ready) : i < j /\ loop.ready[j] = t
  BY <1>3 DEF Before
<1>5. 1 \in 1 .. Len(loop.ready) /\ Len(loop.ready) \in Nat
  BY <1>1, <1>4
<1>6. j = 1
  BY <1>1, <1>4, <1>5 DEF IsInjective
<1> QED BY <1>4, <1>6

(* The types of the activity and of the sessions after a step. *)
SessionsTyped ==
    /\ activity' \in ActivityType
    /\ life' \in [Sessions -> {"unborn", "open", "ended"}]
    /\ active' \in [Sessions -> Ids \cup {NoId}] /\ event' \in [Sessions -> Events]
    /\ issued' \in [Sessions -> 0 .. MaxRequests]

\* The disconnect that is posted stays before the scans.
LeavingKept ==
    /\ \A d \in Tasks : Leaving(d) => Occurs(loop'.ready, d)
    /\ \A d, u \in Tasks : Leaving(d) /\ Before(loop.ready, d, u) => Before(loop'.ready, d, u)

(* A step that changes nothing the invariant speaks of. *)
LEMMA QuietStep ==
    ASSUME IInv, AllInPlace', QuietState, QuietApp, QuietSessions, SessionsTyped, LeavingKept,
           \A u \in Tasks : QuietShape(u) /\ QuietScan(u) /\ QuietRecord(u)
    PROVE  IInv'
<1>1. AllInPlace /\ FieldsTyped /\ WindowInv /\ RecordInv
  BY Parts
<1>2. FieldsTyped'
  BY <1>1, QuietFields DEF SessionsTyped, QuietState, QuietApp
<1>3. WindowInv'
  BY <1>1, QuietWindow DEF QuietState, LeavingKept, QuietSessions
<1>4. RecordInv'
  BY <1>1, QuietRecords
<1> QED BY <1>2, <1>3, <1>4 DEF IInv

(* A turn of another task keeps a posted disconnect where it was. *)
LEMMA TurnLeaving ==
    ASSUME IInv, NEW t, NEW r, Turned(t, r), ~Leaving(t)
    PROVE  LeavingKept
<1>1. \A d \in Tasks : Leaving(d) => d # t /\ Occurs(loop.ready, d)
  BY DEF IInv, WindowInv
<1> QED BY <1>1 DEF Turned, Orderly, LeavingKept

(* If the task whose turn it is is quiet, all are. *)
LEMMA TurnOthers ==
    ASSUME IInv, NEW t, NEW r, Turned(t, r), QuietShape(t), QuietScan(t), QuietRecord(t)
    PROVE  \A u \in Tasks : QuietShape(u) /\ QuietScan(u) /\ QuietRecord(u)
<1>1. \A u \in Tasks \ {t} : Undisturbed(u)
  BY DEF Turned
<1> QED BY <1>1, Parts, UndisturbedQuiet

(* A turn that leaves the sessions aside is quiet about them. *)
LEMMA AsideTyped ==
    ASSUME IInv, Aside
    PROVE  SessionsTyped /\ QuietSessions
BY Parts DEF FieldsTyped, Aside, SessionsTyped, QuietSessions, QuietLives

(* What a quiet turn of task t keeps: the invariant, and what it leaves alone. *)
QuietBy(t) ==
    /\ IInv' /\ QuietState /\ QuietScan(t) /\ QuietRecord(t)
    /\ \A u \in Tasks \ {t} : Undisturbed(u)

(* A quiet turn keeps the invariant. *)
LEMMA QuietTurn ==
    ASSUME NEW t, Takes(t), NEW r, Turned(t, r), QuietState, QuietApp,
           QuietShape(t), QuietScan(t), QuietRecord(t)
    PROVE  QuietBy(t)
<1>1. IInv /\ Aside /\ ~Leaving(t)
  BY DEF Takes, Leaving
<1>2. SessionsTyped /\ QuietSessions /\ LeavingKept
  BY <1>1, AsideTyped, TurnLeaving
<1>3. \A u \in Tasks : QuietShape(u) /\ QuietScan(u) /\ QuietRecord(u)
  BY <1>1, TurnOthers
<1>4. AllInPlace' /\ \A u \in Tasks \ {t} : Undisturbed(u)
  BY DEF Turned
<1>5. IInv'
  BY <1>1, <1>2, <1>3, <1>4, QuietStep
<1> QED BY <1>4, <1>5 DEF QuietBy

(* The fields unchanged are quiet. *)
LEMMA SameState ==
    ASSUME IInv, UNCHANGED state
    PROVE  QuietState
BY Parts DEF QuietState, OwnIds

(* The window unchanged is quiet. *)
LEMMA SameApp ==
    ASSUME IInv, UNCHANGED app
    PROVE  QuietApp
BY Parts DEF QuietApp

(* A task that is over. *)
LEMMA OverQuiet ==
    ASSUME NEW t, task[t].kind # "disconnect", task'[t] = NoTask
    PROVE  QuietShape(t) /\ QuietScan(t) /\ QuietRecord(t)
<1>1. /\ task'[t].kind = "none" /\ task'[t].at = "none" /\ task'[t].on = NoSession
      /\ task'[t].id = NoId
  BY DEF NoTask
<1>2. QuietShape(t)
  BY <1>1 DEF QuietShape, Shaped, HeldCalls, FreeCalls
<1>3. QuietScan(t)
  BY <1>1 DEF QuietScan
<1>4. QuietRecord(t)
  BY <1>1 DEF QuietRecord, Takers
<1> QED BY <1>2, <1>3, <1>4

(* A turn that ends its task keeps the invariant. *)
LEMMA EndsQuietly ==
    ASSUME NEW t, Takes(t), QuietState, QuietApp, Turned(t, NoTask)
    PROVE  QuietBy(t)
<1>1. task'[t] = NoTask /\ task[t].kind # "disconnect"
  BY DEF Turned, Takes
<1> QED BY <1>1, OverQuiet, QuietTurn

(* A task that goes on to wait for the gate or for something from outside. *)
LEMMA MovedQuiet ==
    ASSUME NEW t, IInv, OnTurn(t), task[t].kind \notin {"disconnect", "events"},
           NEW r, task'[t] = r,
           r.at \in GateStations \cup Waits, r.at = "install" => Reaches(t),
           r.kind = task[t].kind, r.id = task[t].id, r.on = task[t].on,
           r.valid => task[t].valid \/ task[t].kind # "scan"
    PROVE  QuietShape(t) /\ QuietScan(t) /\ QuietRecord(t)
<1>1. t \in Tasks
  BY PolledFacts
<1>2. Shaped(task[t])
  BY <1>1, Parts
<1>3. QuietShape(t)
  BY <1>1, <1>2 DEF QuietShape, Shaped, GateStations, Waits, HeldCalls, FreeCalls, Reaches
<1>4. LiveScan(t) => NoneLeaving
  BY <1>1, ScanAlone
<1>5. QuietScan(t)
  BY <1>1, <1>4 DEF QuietScan, LiveScan, GateStations, Waits
<1>6. QuietRecord(t)
  BY <1>1 DEF QuietRecord, Takers, GateStations, Waits
<1> QED BY <1>3, <1>5, <1>6

(* A turn that moves its task to the gate or to a wait keeps the invariant. *)
LEMMA MovesQuietly ==
    ASSUME NEW t, Takes(t), QuietState, QuietApp, NEW r, Turned(t, r),
           r.at \in GateStations \cup Waits, r.at = "install" => Reaches(t),
           r.kind = task[t].kind, r.id = task[t].id, r.on = task[t].on,
           r.valid => task[t].valid \/ task[t].kind # "scan"
    PROVE  QuietBy(t)
<1>1. task'[t] = r /\ IInv /\ OnTurn(t) /\ task[t].kind \notin {"disconnect", "events"}
  BY DEF Turned, Takes
<1>2. QuietShape(t) /\ QuietScan(t) /\ QuietRecord(t)
  BY <1>1, MovedQuiet
<1> QED BY <1>2, QuietTurn

(* A task that calls a method of a session. *)
LEMMA CallsQuietly ==
    ASSUME NEW t, Takes(t), QuietState, QuietApp, NEW r, Turned(t, r),
           task[t].kind # "scan", r.kind = task[t].kind,
           r.at \in HeldCalls \cup FreeCalls,
           r.on \in Sessions, r.on \in {state.session, task[t].on},
           r.id \in OwnIds \cup {NoId, task[t].id},
           r.at \in {"last", "finishing"} => r.id \in Ids,
           r.at = "begin" => r.on = state.session /\ r.answer # "ok",
           r.at \in Takers /\ state'.recorder /\ r.id = state.recording_request_id =>
               task[t].at \in Takers /\ task[t].id = r.id
    PROVE  QuietBy(t)
<1>1. task'[t] = r /\ t \in Tasks /\ task[t].kind \notin {"disconnect", "events"}
  BY PolledFacts DEF Turned, Takes
<1>2. QuietShape(t)
  BY <1>1 DEF QuietShape, Shaped, HeldCalls, FreeCalls
<1>3. QuietScan(t)
  BY <1>1 DEF QuietScan
<1>4. QuietRecord(t)
  BY <1>1 DEF QuietRecord
<1> QED BY <1>2, <1>3, <1>4, QuietTurn

-----------------------------------------------------------------------------
(***************************************************************************)
(* The ways in which most turns end.                                       *)
(***************************************************************************)

(* Resetting the window's texts and flags leaves the connection shown. *)
LEMMA AppKept ==
    ASSUME NEW a \in AppType
    PROVE  /\ Idle(a) \in AppType /\ Idle(a).remote_connected = a.remote_connected
           /\ ResetRequestUi(a) \in AppType
           /\ ResetRequestUi(a).remote_connected = a.remote_connected
           /\ ResetAndIdle(a) \in AppType /\ ResetAndIdle(a).remote_connected = a.remote_connected
<1>1. Nothing \in Dialogs
  BY DEF Dialogs
<1>2. Idle(a) \in AppType /\ Idle(a).remote_connected = a.remote_connected
  BY DEF Idle, AppType
<1>3. PICK b : b = ResetRequestUi(a)
  OBVIOUS
<1>4. b \in AppType /\ b.remote_connected = a.remote_connected
  BY <1>1, <1>3 DEF ResetRequestUi, AppType
<1>5. Idle(b) \in AppType /\ Idle(b).remote_connected = b.remote_connected
  BY <1>4 DEF Idle, AppType
<1> QED BY <1>2, <1>3, <1>4, <1>5 DEF ResetAndIdle

(* Resetting the texts and flags of a request is quiet. *)
LEMMA ResetQuiet ==
    ASSUME IInv, app' = ResetAndIdle(app)
    PROVE  QuietApp
BY Parts, AppKept DEF QuietApp

(* Clearing the busy flag is quiet. *)
LEMMA IdleQuiet ==
    ASSUME IInv, app' = Idle(app)
    PROVE  QuietApp
BY Parts, AppKept DEF QuietApp

(* The invariant is kept by a turn that ends, ... *)
LEMMA Ended ==
    ASSUME NEW t, Takes(t), QuietState, QuietApp, Ends(t)
    PROVE  QuietBy(t)
BY EndTurn, EndsQuietly DEF Takes, Aside

(* ... that locks the gate, ... *)
LEMMA Locked ==
    ASSUME NEW t, NEW at \in GateStations \ {"install"}, Takes(t), ~AtGate(task[t]),
           QuietState, QuietApp, Locks(t, at)
    PROVE  QuietBy(t)
<1>1. OnTurn(t) /\ parked' = parked /\ IInv /\ t \in Tasks
  BY PolledFacts DEF Takes, Aside
<1>2. PICK r : r = Moved(task[t], at)
  OBVIOUS
<1>3. Turned(t, r)
  BY <1>1, <1>2, LockTurn
<1>4. task[t] \in TaskType /\ at \in Stations
  BY <1>1, Parts DEF Stations
<1>5. r.at = at /\ r.kind = task[t].kind /\ r.id = task[t].id /\ r.on = task[t].on
      /\ r.valid = task[t].valid
  BY <1>2, <1>4, MovedType
<1> QED BY <1>3, <1>5, MovesQuietly

(* ... that waits for the outside, ... *)
LEMMA Waited ==
    ASSUME NEW t, NEW at \in Waits, Takes(t), ~AtGate(task[t]),
           QuietState, QuietApp, Suspends(At(Polled, t, at))
    PROVE  QuietBy(t)
<1>1. OnTurn(t) /\ parked' = parked /\ IInv /\ t \in Tasks
  BY PolledFacts DEF Takes, Aside
<1>2. PICK r : r = Moved(task[t], at)
  OBVIOUS
<1>3. Turned(t, r)
  BY <1>1, <1>2, WaitTurn
<1>4. task[t] \in TaskType /\ at \in Stations
  BY <1>1, Parts DEF Stations
<1>5. r.at = at /\ r.kind = task[t].kind /\ r.id = task[t].id /\ r.on = task[t].on
      /\ r.valid = task[t].valid /\ at # "install"
  BY <1>2, <1>4, MovedType DEF Waits
<1> QED BY <1>3, <1>5, MovesQuietly

\* A call that may be made in this turn.
MayCall(t, s, id, at) ==
    /\ task[t].kind # "scan"
    /\ s \in Sessions /\ s \in {state.session, task[t].on}
    /\ id \in OwnIds \cup {task[t].id}
    /\ at \in {"last", "finishing"} => id \in Ids
    /\ at # "begin"
    /\ at \in HeldCalls \cup FreeCalls
    /\ at \in Takers /\ state'.recorder /\ id = state.recording_request_id =>
           task[t].at \in Takers /\ task[t].id = id

(* What a call names is an id. *)
LEMMA MayCallIds ==
    ASSUME IInv, NEW t \in Tasks, NEW s, NEW id, NEW at, MayCall(t, s, id, at)
    PROVE  id \in Ids \cup {NoId} /\ at \in Stations
<1>1. task[t].id \in Ids \cup {NoId}
  BY Parts, TaskFields
<1>2. OwnIds \subseteq Ids \cup {NoId}
  BY Parts DEF StateType, OwnIds
<1> QED BY <1>1, <1>2 DEF MayCall, Stations

(* ... that calls a session, ... *)
LEMMA Calling ==
    ASSUME NEW t, NEW s, NEW id, NEW at, Takes(t), QuietState, QuietApp, MayCall(t, s, id, at),
           at \in HeldCalls <=> AtGate(task[t]), Calls(t, s, id, at)
    PROVE  QuietBy(t)
<1>1. OnTurn(t) /\ parked' = parked /\ IInv /\ t \in Tasks
  BY PolledFacts DEF Takes, Aside
<1>2. PICK r : r = Called(task[t], s, id, at)
  OBVIOUS
<1>3. s \in Sessions /\ id \in Ids \cup {NoId} /\ at \in Stations /\ at \in HeldCalls \cup FreeCalls
  BY <1>1, MayCallIds DEF MayCall
<1>4. Turned(t, r)
  BY <1>1, <1>2, <1>3, CallTurn
<1>5. task[t] \in TaskType
  BY <1>1, Parts
<1>6. r.at = at /\ r.kind = task[t].kind /\ r.id = id /\ r.on = s
  BY <1>2, <1>3, <1>5, CalledType
<1> QED BY <1>4, <1>6, CallsQuietly DEF MayCall

(* ... that notes something in its locals and calls, ... *)
LEMMA NotedCalling ==
    ASSUME NEW t, NEW s, NEW id, NEW at, NEW x \in TaskType, Takes(t), QuietState, QuietApp,
           MayCall(t, s, id, at), at \in HeldCalls <=> AtGate(task[t]),
           x.at = task[t].at, x.on = task[t].on, x.answer = task[t].answer,
           x.kind = task[t].kind, CallsFrom(WithTask(Polled, t, x), t, s, id, at)
    PROVE  QuietBy(t)
<1>1. OnTurn(t) /\ parked' = parked /\ IInv /\ t \in Tasks
  BY PolledFacts DEF Takes, Aside
<1>2. PICK r : r = Called(x, s, id, at)
  OBVIOUS
<1>3. s \in Sessions /\ id \in Ids \cup {NoId} /\ at \in Stations /\ at \in HeldCalls \cup FreeCalls
  BY <1>1, MayCallIds DEF MayCall
<1>4. Turned(t, r)
  BY <1>1, <1>2, <1>3, NotedCallTurn
<1>6. r.at = at /\ r.kind = task[t].kind /\ r.id = id /\ r.on = s
  BY <1>2, <1>3, CalledType
<1> QED BY <1>4, <1>6, CallsQuietly DEF MayCall

(* ... that has drained the recorder, ... *)
LEMMA Draining ==
    ASSUME NEW t, NEW due, Takes(t), QuietState, QuietApp, AtGate(task[t]), Drained(t, due)
    PROVE  QuietBy(t)
<1>1. OnTurn(t) /\ parked' = parked /\ IInv /\ t \in Tasks
  BY PolledFacts DEF Takes, Aside
<1>2. PICK r \in {NoTask, Moved(task[t], "finalize")} : Turned(t, r)
  BY <1>1, DrainTurn
<1>3. task[t] \in TaskType /\ "finalize" \in Stations
  BY <1>1, Parts DEF Stations, GateStations
<1>4. CASE r = NoTask
  BY <1>2, <1>4, EndsQuietly
<1>5. CASE r = Moved(task[t], "finalize")
  <2>1. r.at = "finalize" /\ r.kind = task[t].kind /\ r.id = task[t].id /\ r.on = task[t].on
        /\ r.valid = task[t].valid
    BY <1>3, <1>5, MovedType
  <2> QED BY <1>2, <2>1, MovesQuietly DEF GateStations
<1> QED BY <1>2, <1>4, <1>5

(* ... that asks for a permission, ... *)
LEMMA Asking ==
    ASSUME NEW t, Takes(t), QuietState, QuietApp, ~AtGate(task[t]), EnsuresPermission(Polled, t)
    PROVE  QuietBy(t)
<1>1. OnTurn(t) /\ parked' = parked /\ IInv /\ t \in Tasks
  BY PolledFacts DEF Takes, Aside
<1>2. PICK a \in {"none", "granted", "denied"} : Turned(t, WithAnswer(Moved(task[t], "permission"), a))
  BY <1>1, AskTurn
<1>3. task[t] \in TaskType /\ "permission" \in Stations /\ a \in Answers
  BY <1>1, Parts DEF Stations, Waits, Answers
<1>4. PICK x : x = Moved(task[t], "permission")
  OBVIOUS
<1>5. x \in TaskType /\ x.at = "permission" /\ x.kind = task[t].kind /\ x.id = task[t].id
      /\ x.on = task[t].on /\ x.valid = task[t].valid
  BY <1>3, <1>4, MovedType
<1>6. PICK r : r = WithAnswer(x, a)
  OBVIOUS
<1>7. r.at = "permission" /\ r.kind = task[t].kind /\ r.id = task[t].id
      /\ r.on = task[t].on /\ r.valid = task[t].valid
  BY <1>3, <1>5, <1>6, WithAnswerType
<1>8. Turned(t, r)
  BY <1>2, <1>4, <1>6
<1> QED BY <1>7, <1>8, MovesQuietly DEF Waits

(* ... and that takes a ticket and asks for one. *)
LEMMA TicketAsking ==
    ASSUME NEW t, Takes(t), QuietState, QuietApp, ~AtGate(task[t]), task[t].kind = "toggle",
           EnsuresPermission([Advanced(Polled) EXCEPT !.task[t].valid = TRUE], t)
    PROVE  QuietBy(t)
<1>1. OnTurn(t) /\ parked' = parked /\ IInv /\ t \in Tasks
  BY PolledFacts DEF Takes, Aside
<1>2. PICK a \in {"none", "granted", "denied"} :
        Turned(t, WithAnswer(Moved(Ticketed(task[t]), "permission"), a))
  BY <1>1, TicketTurn
<1>3. task[t] \in TaskType /\ "permission" \in Stations /\ a \in Answers
  BY <1>1, Parts DEF Stations, Waits, Answers
<1>9. PICK y : y = Ticketed(task[t])
  OBVIOUS
<1>10. y \in TaskType /\ y.kind = task[t].kind /\ y.id = task[t].id /\ y.on = task[t].on
  BY <1>3, <1>9, TicketedType
<1>4. PICK x : x = Moved(y, "permission")
  OBVIOUS
<1>5. x \in TaskType /\ x.at = "permission" /\ x.kind = task[t].kind /\ x.id = task[t].id
      /\ x.on = task[t].on
  BY <1>3, <1>4, <1>10, MovedType
<1>6. PICK r : r = WithAnswer(x, a)
  OBVIOUS
<1>7. r.at = "permission" /\ r.kind = task[t].kind /\ r.id = task[t].id
      /\ r.on = task[t].on
  BY <1>3, <1>5, <1>6, WithAnswerType
<1>8. Turned(t, r)
  BY <1>2, <1>4, <1>6, <1>9
<1> QED BY <1>7, <1>8, MovesQuietly DEF Waits

-----------------------------------------------------------------------------
(***************************************************************************)
(* The turns of wire_recording, of cancel and of the recording tick.       *)
(***************************************************************************)

(* What is known in an action of a task. *)
LEMMA TakenBy ==
    ASSUME NEW t, NEW kinds, NEW at, IInv, OnTurn(t), Aside, Resumes(t, kinds, at),
           "disconnect" \notin kinds, "events" \notin kinds
    PROVE  Takes(t) /\ task[t].kind \in kinds /\ task[t].at = at /\ t \in Tasks
           /\ task[t] \in TaskType /\ Shaped(task[t])
BY PolledFacts, Parts DEF Takes, Resumes

(* A turn in which the microphone was tapped. *)
LEMMA TurnToggleStarts ==
    ASSUME NEW t, IInv, OnTurn(t), Aside, ToggleStarts(t)
    PROVE  QuietBy(t)
<1>1. Takes(t) /\ task[t].kind = "toggle" /\ task[t].at = "start"
  BY TakenBy DEF ToggleStarts
<1>2. ~AtGate(task[t])
  BY <1>1 DEF AtGate, GateStations, HeldCalls
<1>3. QuietState
  BY SameState DEF ToggleStarts
<1>4. CASE Ends(t) /\ UNCHANGED app
  BY <1>1, <1>3, <1>4, Ended, SameApp
<1>5. CASE Locks(t, "finalize") /\ UNCHANGED app
  <2>1. QuietApp /\ "finalize" \in GateStations \ {"install"}
    BY <1>5, SameApp DEF GateStations
  <2> QED BY <1>1, <1>2, <1>3, <1>5, <2>1, Locked
<1>6. CASE /\ app' = [app EXCEPT !.input_pending = TRUE]
           /\ EnsuresPermission([Advanced(Polled) EXCEPT !.task[t].valid = TRUE], t)
  <2>1. QuietApp
    BY <1>6, Parts DEF QuietApp, AppType
  <2> QED BY <1>1, <1>2, <1>3, <1>6, <2>1, TicketAsking
<1> QED BY <1>4, <1>5, <1>6 DEF ToggleStarts

(* A turn in which the permission for the microphone was answered. *)
LEMMA TurnToggleResumes ==
    ASSUME NEW t, IInv, OnTurn(t), Aside, ToggleResumes(t)
    PROVE  QuietBy(t)
<1>1. Takes(t) /\ task[t].kind = "toggle" /\ task[t].at = "permission"
  BY TakenBy DEF ToggleResumes
<1>2. ~AtGate(task[t])
  BY <1>1 DEF AtGate, GateStations, HeldCalls
<1>3. QuietState
  BY SameState DEF ToggleResumes
<1>4. CASE Ends(t) /\ UNCHANGED app
  BY <1>1, <1>3, <1>4, Ended, SameApp
<1>5. CASE Ends(t) /\ app' = [app EXCEPT !.input_pending = FALSE]
  <2>1. QuietApp
    BY <1>5, Parts DEF QuietApp, AppType
  <2> QED BY <1>1, <1>3, <1>5, <2>1, Ended
<1>6. CASE Locks(t, "record") /\ UNCHANGED app
  <2>1. QuietApp /\ "record" \in GateStations \ {"install"}
    BY <1>6, SameApp DEF GateStations
  <2> QED BY <1>1, <1>2, <1>3, <1>6, <2>1, Locked
<1> QED BY <1>4, <1>5, <1>6 DEF ToggleResumes

(* Withdrawing the pending flag is quiet. *)
LEMMA NotPendingQuiet ==
    ASSUME IInv, NEW t, app' = NotPending(t)
    PROVE  QuietApp
<1>1. app \in AppType
  BY Parts
<1>2. (app.input_pending /\ ~task[t].valid) \in BOOLEAN
  BY <1>1 DEF AppType
<1> QED BY <1>1, <1>2 DEF QuietApp, AppType, NotPending

(* A turn in which a recording starts under the gate. *)
LEMMA TurnStartRecording ==
    ASSUME NEW t, IInv, OnTurn(t), Aside, StartRecording(t)
    PROVE  QuietBy(t)
<1>1. Takes(t) /\ task[t].kind = "toggle" /\ task[t].at = "record" /\ t \in Tasks
      /\ task[t] \in TaskType
  BY TakenBy DEF StartRecording
<1>2. AtGate(task[t])
  BY <1>1 DEF AtGate, GateStations
<1>3. QuietState
  BY SameState DEF StartRecording
<1>4. CASE Ends(t) /\ app' = NotPending(t)
  BY <1>1, <1>3, <1>4, Ended, NotPendingQuiet
<1>5. CASE state.session # NoSession /\ Calls(t, state.session, NoId, "begin") /\ UNCHANGED app
  <2>1. QuietApp
    BY <1>5, SameApp
  <2>2. state.session \in Sessions
    BY <1>5, Parts DEF StateType
  <2>3. OnTurn(t) /\ parked' = parked
    BY DEF Aside
  <2>4. "begin" \in HeldCalls \cup FreeCalls /\ "begin" \in HeldCalls /\ "begin" \in Stations
    BY DEF HeldCalls, Stations
  <2>5. PICK r : r = Called(task[t], state.session, NoId, "begin")
    OBVIOUS
  <2>6. Turned(t, r)
    BY <1>2, <1>5, <2>2, <2>3, <2>4, <2>5, CallTurn
  <2>7. /\ r.at = "begin" /\ r.kind = task[t].kind /\ r.id = NoId /\ r.on = state.session
        /\ r.answer # "ok"
    BY <1>1, <2>2, <2>4, <2>5, CalledType
  <2> QED BY <1>1, <1>3, <2>1, <2>2, <2>4, <2>6, <2>7, CallsQuietly DEF Takers
<1> QED BY <1>4, <1>5 DEF StartRecording

(* A turn in which an upload that came too late was cancelled. *)
LEMMA TurnRecordingUndone ==
    ASSUME NEW t, IInv, OnTurn(t), Aside, RecordingUndone(t)
    PROVE  QuietBy(t)
<1>1. Takes(t)
  BY TakenBy DEF RecordingUndone
<1>2. QuietState /\ QuietApp /\ Ends(t)
  BY SameState, NotPendingQuiet DEF RecordingUndone
<1> QED BY <1>1, <1>2, Ended

(* A cancellation that resets the window keeps the invariant. *)
LEMMA CancelsQuietly ==
    ASSUME NEW t, IInv, Takes(t), QuietState, NEW id \in OwnIds, NEW at,
           task[t].kind # "scan", ~state'.recorder,
           at \in {"cancelling", "aborting"}, at \in HeldCalls <=> AtGate(task[t]),
           CancelsAndResets(t, id, at)
    PROVE  QuietBy(t)
<1>1. CASE Ends(t) /\ app' = ResetAndIdle(app)
  BY <1>1, Ended, ResetQuiet
<1>2. CASE state.session # NoSession /\ Calls(t, state.session, id, at) /\ UNCHANGED app
  <2>1. QuietApp
    BY <1>2, SameApp
  <2>2. state.session \in Sessions
    BY <1>2, Parts DEF StateType
  <2>3. at \in HeldCalls \cup FreeCalls
    BY DEF HeldCalls, FreeCalls
  <2>4. MayCall(t, state.session, id, at)
    BY <2>2, <2>3 DEF MayCall
  <2> QED BY <1>2, <2>1, <2>4, Calling
<1> QED BY <1>1, <1>2 DEF CancelsAndResets

(* The three ways a recording is forgotten are quiet. *)
LEMMA StateKept ==
    ASSUME IInv, ~state'.recorder,
           \/ state' = ClearedRequest(state)
           \/ state' = Aborted
           \/ state' = [state EXCEPT !.recorder = FALSE, !.recording_request_id = NoId]
    PROVE  QuietState
<1>1. state \in StateType /\ NoId \in Ids \cup {NoId}
  BY Parts
<1>2. CASE state' = ClearedRequest(state)
  BY <1>1, <1>2 DEF ClearedRequest, QuietState, StateType, OwnIds
<1>3. CASE state' = Aborted
  BY <1>1, <1>3 DEF Aborted, QuietState, StateType, OwnIds
<1>4. CASE state' = [state EXCEPT !.recorder = FALSE, !.recording_request_id = NoId]
  BY <1>1, <1>4 DEF QuietState, StateType, OwnIds
<1> QED BY <1>2, <1>3, <1>4

(* A turn in which a cancel starts. *)
LEMMA TurnCancelStarts ==
    ASSUME NEW t, IInv, OnTurn(t), Aside, CancelStarts(t)
    PROVE  QuietBy(t)
<1>1. Takes(t) /\ task[t].kind = "cancel" /\ task[t].at = "start"
  BY TakenBy DEF CancelStarts
<1>2. ~AtGate(task[t])
  BY <1>1 DEF AtGate, GateStations, HeldCalls
<1>3. state' = ClearedRequest(state) /\ state \in StateType
  BY Parts DEF CancelStarts
<1>4. ~state'.recorder
  BY <1>3 DEF ClearedRequest, StateType
<1>5. QuietState
  BY <1>3, <1>4, StateKept
<1>6. PICK id \in OwnIds : CancelsAndResets(t, id, "cancelling")
  BY DEF CancelStarts, OwnIds
<1>7. "cancelling" \notin HeldCalls
  BY DEF HeldCalls
<1> QED BY <1>1, <1>2, <1>4, <1>5, <1>6, <1>7, CancelsQuietly

(* A turn in which a cancellation was answered. *)
LEMMA TurnCancelDone ==
    ASSUME NEW t, IInv, OnTurn(t), Aside, CancelDone(t)
    PROVE  QuietBy(t)
<1>1. Takes(t)
  BY TakenBy DEF CancelDone
<1>2. QuietState /\ QuietApp /\ Ends(t)
  BY SameState, ResetQuiet DEF CancelDone
<1> QED BY <1>1, <1>2, Ended

(* A turn in which the recording timer fired. *)
LEMMA TurnTickStarts ==
    ASSUME NEW t, IInv, OnTurn(t), Aside, TickStarts(t)
    PROVE  QuietBy(t)
<1>1. Takes(t) /\ task[t].at = "start"
  BY TakenBy DEF TickStarts
<1>2. ~AtGate(task[t]) /\ "drain" \in GateStations \ {"install"}
  BY <1>1 DEF AtGate, GateStations, HeldCalls
<1>3. QuietState /\ QuietApp /\ Locks(t, "drain")
  BY SameState, SameApp DEF TickStarts
<1> QED BY <1>1, <1>2, <1>3, Locked

-----------------------------------------------------------------------------
(***************************************************************************)
(* The turns of finalize_recording, of the preview and of the answers.     *)
(***************************************************************************)

(* abort_recording keeps the invariant. *)
LEMMA AbortsQuietly ==
    ASSUME NEW t, IInv, Takes(t), task[t].kind = "tick", AtGate(task[t]), Aborts(t)
    PROVE  QuietBy(t)
<1>1. state' = Aborted /\ state \in StateType
  BY Parts DEF Aborts
<1>2. ~state'.recorder
  BY <1>1 DEF Aborted, StateType
<1>3. QuietState
  BY <1>1, <1>2, StateKept
<1>4. CancelsAndResets(t, state.recording_request_id, "aborting")
  BY DEF Aborts
<1>5. "aborting" \in HeldCalls /\ state.recording_request_id \in OwnIds
  BY DEF HeldCalls, OwnIds
<1> QED BY <1>2, <1>3, <1>4, <1>5, CancelsQuietly

(* A turn in which the recorder is drained. *)
LEMMA TurnTickDrains ==
    ASSUME NEW t, IInv, OnTurn(t), Aside, TickDrains(t)
    PROVE  QuietBy(t)
<1>1. Takes(t) /\ task[t].kind = "tick" /\ task[t].at = "drain" /\ t \in Tasks
      /\ task[t] \in TaskType
  BY TakenBy DEF TickDrains
<1>2. AtGate(task[t])
  BY <1>1 DEF AtGate, GateStations
<1>3. CASE Ends(t) /\ UNCHANGED <<state, app>>
  BY <1>1, <1>3, Ended, SameState, SameApp
<1>4. CASE Aborts(t)
  BY <1>1, <1>2, <1>4, AbortsQuietly
<1>5. ASSUME state.session # NoSession, state.recording_request_id # NoId,
             NEW due \in BOOLEAN, UNCHANGED <<state, app>>,
             \/ Drained(t, due)
             \/ CallsFrom([Polled EXCEPT !.task[t].due = due], t, state.session,
                          state.recording_request_id, "sending")
      PROVE  QuietBy(t)
  <2>1. QuietState /\ QuietApp
    BY <1>5, SameState, SameApp
  <2>2. CASE Drained(t, due)
    BY <1>1, <1>2, <2>1, <2>2, Draining
  <2>3. CASE CallsFrom([Polled EXCEPT !.task[t].due = due], t, state.session,
                       state.recording_request_id, "sending")
    <3>1. PICK x : x = [task[t] EXCEPT !.due = due]
      OBVIOUS
    <3>2. /\ x \in TaskType /\ x.at = task[t].at /\ x.on = task[t].on
          /\ x.answer = task[t].answer /\ x.kind = task[t].kind
      BY <1>1, <3>1 DEF TaskType
    <3>3. [Polled EXCEPT !.task[t].due = due] = WithTask(Polled, t, x)
      <4>1. Polled.task[t] = task[t]
        BY PolledFacts
      <4> QED BY <3>1, <4>1 DEF WithTask
    <3>4. CallsFrom(WithTask(Polled, t, x), t, state.session, state.recording_request_id, "sending")
      BY <2>3, <3>3
    <3>5. state.session \in Sessions
      BY <1>5, Parts DEF StateType
    <3>6. "sending" \in HeldCalls
      BY DEF HeldCalls
    <3>7. MayCall(t, state.session, state.recording_request_id, "sending")
      BY <1>1, <3>5, <3>6 DEF MayCall, OwnIds, Takers
    <3> QED BY <1>1, <1>2, <2>1, <3>2, <3>4, <3>6, <3>7, NotedCalling
  <2> QED BY <1>5, <2>2, <2>3
<1> QED BY <1>3, <1>4, <1>5 DEF TickDrains

(* A turn in which a chunk was sent. *)
LEMMA TurnTickSent ==
    ASSUME NEW t, IInv, OnTurn(t), Aside, TickSent(t)
    PROVE  QuietBy(t)
<1>1. Takes(t) /\ task[t].kind = "tick" /\ task[t].at = "sending"
  BY TakenBy DEF TickSent
<1>2. AtGate(task[t])
  BY <1>1 DEF AtGate, HeldCalls
<1>3. CASE Aborts(t)
  BY <1>1, <1>2, <1>3, AbortsQuietly
<1>4. CASE Drained(t, task[t].due) /\ UNCHANGED <<state, app>>
  BY <1>1, <1>2, <1>4, Draining, SameState, SameApp
<1> QED BY <1>3, <1>4 DEF TickSent

\* A call of the task that holds the gate.
LEMMA HeldCalling ==
    ASSUME NEW t, NEW s, NEW id, NEW at, Takes(t), QuietState, QuietApp, MayCall(t, s, id, at),
           at \in HeldCalls, AtGate(task[t]), Calls(t, s, id, at)
    PROVE  QuietBy(t)
BY Calling

(* Sending what is left and the end of the upload keeps the invariant. *)
LEMMA RestQuietly ==
    ASSUME NEW t, NEW s \in Sessions, NEW id \in Ids, IInv, Takes(t), QuietState, QuietApp,
           task[t].kind # "scan", AtGate(task[t]), s \in {state.session, task[t].on},
           id \in OwnIds \cup {task[t].id},
           state'.recorder /\ id = state.recording_request_id =>
             task[t].at \in Takers /\ task[t].id = id,
           SendsRest(t, s, id)
    PROVE  QuietBy(t)
<1>1. {"last", "finishing"} \subseteq HeldCalls
  BY DEF HeldCalls
<1>2. CASE Ends(t)
  BY <1>2, Ended
<1>3. ASSUME NEW at \in {"last", "finishing"}, Calls(t, s, id, at) PROVE QuietBy(t)
  <2>1. MayCall(t, s, id, at)
    BY <1>1 DEF MayCall
  <2> QED BY <1>1, <1>3, <2>1, HeldCalling
<1> QED BY <1>2, <1>3 DEF SendsRest

(* Dropping an upload keeps the invariant. *)
LEMMA DropsQuietly ==
    ASSUME NEW t, NEW s \in Sessions, NEW id, IInv, Takes(t), QuietState, QuietApp,
           task[t].kind # "scan", AtGate(task[t]), s \in {state.session, task[t].on},
           id \in OwnIds \cup {task[t].id},
           state'.recorder /\ id = state.recording_request_id =>
             task[t].at \in Takers /\ task[t].id = id,
           Calls(t, s, id, "dropping")
    PROVE  QuietBy(t)
<1>1. "dropping" \in HeldCalls
  BY DEF HeldCalls
<1>2. MayCall(t, s, id, "dropping")
  BY <1>1 DEF MayCall
<1> QED BY <1>1, <1>2, HeldCalling

(* A turn in which the recording is finalized. *)
LEMMA TurnFinalize ==
    ASSUME NEW t, IInv, OnTurn(t), Aside, Finalize(t)
    PROVE  QuietBy(t)
<1>1. Takes(t) /\ task[t].kind \in {"toggle", "tick"} /\ task[t].at = "finalize"
  BY TakenBy DEF Finalize, Finalizers
<1>2. AtGate(task[t])
  BY <1>1 DEF AtGate, GateStations
<1>3. /\ state' = [state EXCEPT !.recorder = FALSE, !.recording_request_id = NoId]
      /\ state \in StateType /\ app \in AppType
  BY Parts DEF Finalize
<1>4. ~state'.recorder
  BY <1>3 DEF StateType
<1>5. QuietState
  BY <1>3, <1>4, StateKept
<1>6. CASE Ends(t) /\ UNCHANGED app
  BY <1>1, <1>5, <1>6, Ended, SameApp
<1>7. ASSUME state.session # NoSession, state.recording_request_id # NoId,
             app' = [app EXCEPT !.voice_recording = FALSE, !.is_busy = TRUE],
             \/ SendsRest(t, state.session, state.recording_request_id)
             \/ Calls(t, state.session, state.recording_request_id, "dropping")
      PROVE  QuietBy(t)
  <2>1. QuietApp
    BY <1>3, <1>7 DEF QuietApp, AppType
  <2>2. state.session \in Sessions /\ state.recording_request_id \in Ids
        /\ state.recording_request_id \in OwnIds
    BY <1>3, <1>7 DEF StateType, OwnIds
  <2>3. CASE SendsRest(t, state.session, state.recording_request_id)
    BY <1>1, <1>2, <1>4, <1>5, <2>1, <2>2, <2>3, RestQuietly
  <2>4. CASE Calls(t, state.session, state.recording_request_id, "dropping")
    BY <1>1, <1>2, <1>4, <1>5, <2>1, <2>2, <2>4, DropsQuietly
  <2> QED BY <1>7, <2>3, <2>4
<1> QED BY <1>6, <1>7 DEF Finalize

(* A turn in which the rest of the recording was sent. *)
LEMMA TurnLastChunkSent ==
    ASSUME NEW t, IInv, OnTurn(t), Aside, LastChunkSent(t)
    PROVE  QuietBy(t)
<1>1. Takes(t) /\ task[t].kind \in {"toggle", "tick"} /\ task[t].at = "last" /\ Shaped(task[t])
  BY TakenBy DEF LastChunkSent, Finalizers
<1>2. AtGate(task[t]) /\ task[t].on \in Sessions /\ task[t].id \in Ids /\ task[t].at \in Takers
  BY <1>1 DEF AtGate, HeldCalls, Shaped, Takers
<1>3. QuietState /\ QuietApp
  BY SameState, SameApp DEF LastChunkSent
<1>4. CASE SendsRest(t, task[t].on, task[t].id)
  BY <1>1, <1>2, <1>3, <1>4, RestQuietly
<1>5. CASE Ends(t)
  BY <1>1, <1>3, <1>5, Ended
<1>6. CASE Calls(t, task[t].on, task[t].id, "dropping")
  BY <1>1, <1>2, <1>3, <1>6, DropsQuietly
<1> QED BY <1>4, <1>5, <1>6 DEF LastChunkSent

(* Forgetting a pending request or decision is quiet. *)
LEMMA NonePending ==
    ASSUME IInv, \/ state' = [state EXCEPT !.pending_request_id = NoId]
                 \/ state' = [state EXCEPT !.pending_decision = NoId]
    PROVE  QuietState
<1>1. state \in StateType /\ NoId \in Ids \cup {NoId}
  BY Parts
<1>2. CASE state' = [state EXCEPT !.pending_request_id = NoId]
  BY <1>1, <1>2 DEF QuietState, StateType, OwnIds
<1>3. CASE state' = [state EXCEPT !.pending_decision = NoId]
  BY <1>1, <1>3 DEF QuietState, StateType, OwnIds
<1> QED BY <1>2, <1>3

(* A turn in which finish_audio was answered. *)
LEMMA TurnPreviewArrives ==
    ASSUME NEW t, IInv, OnTurn(t), Aside, PreviewArrives(t)
    PROVE  QuietBy(t)
<1>1. Takes(t) /\ task[t].at = "finishing" /\ Shaped(task[t]) /\ Ends(t)
  BY TakenBy DEF PreviewArrives, Finalizers
<1>2. task[t].id \in Ids
  BY <1>1 DEF Shaped
<1>3. app \in AppType /\ Idle(app) \in AppType
      /\ Idle(app).remote_connected = app.remote_connected
  BY Parts, AppKept
<1>4. QuietState
  BY SameState, NonePending DEF PreviewArrives
<1>5. QuietApp
  <2>1. CASE UNCHANGED app
    BY <2>1, SameApp
  <2>2. CASE app' = [Idle(app) EXCEPT !.dialog = [kind |-> "plan", id |-> task[t].id]]
    <3>1. [kind |-> "plan", id |-> task[t].id] \in Dialogs
      BY <1>2 DEF Dialogs
    <3>2. PICK a \in AppType : a = Idle(app)
      BY <1>3
    <3>3. app' \in AppType /\ app'.remote_connected = a.remote_connected
      BY <2>2, <3>1, <3>2 DEF AppType
    <3> QED BY <1>3, <3>2, <3>3 DEF QuietApp
  <2>3. CASE app' = [Idle(app) EXCEPT !.dialog = Nothing]
    <3>1. Nothing \in Dialogs
      BY DEF Dialogs
    <3>2. PICK a \in AppType : a = Idle(app)
      BY <1>3
    <3>3. app' \in AppType /\ app'.remote_connected = a.remote_connected
      BY <2>3, <3>1, <3>2 DEF AppType
    <3> QED BY <1>3, <3>2, <3>3 DEF QuietApp
  <2>4. CASE app' = Idle(app)
    BY <2>4, IdleQuiet
  <2>5. CASE app' = ResetAndIdle(app)
    BY <2>5, ResetQuiet
  <2> QED BY <2>1, <2>2, <2>3, <2>4, <2>5 DEF PreviewArrives
<1> QED BY <1>1, <1>4, <1>5, Ended

(* A turn in which the dialog was answered. *)
LEMMA TurnAnswerStarts ==
    ASSUME NEW t, IInv, OnTurn(t), Aside, AnswerStarts(t)
    PROVE  QuietBy(t)
<1>1. Takes(t) /\ task[t].kind = "answer" /\ task[t].at = "start" /\ task[t] \in TaskType
  BY TakenBy DEF AnswerStarts
<1>2. ~AtGate(task[t])
  BY <1>1 DEF AtGate, GateStations, HeldCalls
<1>3. QuietState
  BY NonePending DEF AnswerStarts
<1>4. PICK busy : busy = [app EXCEPT !.is_busy = TRUE, !.dialog = Nothing]
  OBVIOUS
<1>5. busy \in AppType /\ busy.remote_connected = app.remote_connected
  <2>1. app \in AppType /\ Nothing \in Dialogs
    BY Parts DEF Dialogs
  <2> QED BY <1>4, <2>1 DEF AppType
<1>6. Idle(busy) \in AppType /\ Idle(busy).remote_connected = app.remote_connected
  BY <1>5, AppKept
<1>7. CASE Ends(t) /\ app' = Idle(busy)
  BY <1>1, <1>3, <1>6, <1>7, Ended DEF QuietApp
<1>8. ASSUME state.session # NoSession, app' = busy,
             NEW id \in OwnIds, NEW at \in {"responding", "confirming"},
             CallsFrom([Polled EXCEPT !.task[t].generation = state.generation], t, state.session, id, at)
      PROVE  QuietBy(t)
  <2>1. QuietApp
    BY <1>5, <1>8 DEF QuietApp
  <2>2. PICK x : x = [task[t] EXCEPT !.generation = state.generation]
    OBVIOUS
  <2>3. /\ x \in TaskType /\ x.at = task[t].at /\ x.on = task[t].on
        /\ x.answer = task[t].answer /\ x.kind = task[t].kind
    <3>1. state.generation \in Nat
      BY Parts DEF StateType
    <3> QED BY <1>1, <2>2, <3>1 DEF TaskType
  <2>4. [Polled EXCEPT !.task[t].generation = state.generation] = WithTask(Polled, t, x)
    <3>1. Polled.task[t] = task[t]
      BY PolledFacts
    <3> QED BY <2>2, <3>1 DEF WithTask
  <2>5. CallsFrom(WithTask(Polled, t, x), t, state.session, id, at)
    BY <1>8, <2>4
  <2>6. state.session \in Sessions
    BY <1>8, Parts DEF StateType
  <2>7. at \in HeldCalls \cup FreeCalls /\ at \notin HeldCalls /\ at \notin Takers
        /\ at \notin {"last", "finishing"} /\ at # "begin"
    BY DEF HeldCalls, FreeCalls, Takers
  <2>8. MayCall(t, state.session, id, at)
    BY <1>1, <2>6, <2>7 DEF MayCall
  <2>9. at \in HeldCalls <=> AtGate(task[t])
    BY <1>2, <2>7
  <2> QED BY <1>1, <1>3, <2>1, <2>3, <2>5, <2>8, <2>9, NotedCalling
<1>9. state.pending_decision \in OwnIds /\ state.pending_request_id \in OwnIds
  BY DEF OwnIds
<1>10. CASE state.pending_decision # NoId
  BY <1>4, <1>7, <1>8, <1>9, <1>10 DEF AnswerStarts
<1>11. CASE state.pending_decision = NoId
  BY <1>4, <1>7, <1>8, <1>9, <1>11 DEF AnswerStarts
<1> QED BY <1>10, <1>11

(* A turn in which a decision was answered for. *)
LEMMA TurnDecisionSent ==
    ASSUME NEW t, IInv, OnTurn(t), Aside, DecisionSent(t)
    PROVE  QuietBy(t)
<1>1. Takes(t)
  BY TakenBy DEF DecisionSent
<1>2. QuietState /\ QuietApp /\ Ends(t)
  BY SameState, SameApp, IdleQuiet DEF DecisionSent
<1> QED BY <1>1, <1>2, Ended

(* A turn in which a confirmation was answered. *)
LEMMA TurnConfirmed ==
    ASSUME NEW t, IInv, OnTurn(t), Aside, Confirmed(t)
    PROVE  QuietBy(t)
<1>1. Takes(t)
  BY TakenBy DEF Confirmed
<1>2. QuietState /\ QuietApp /\ Ends(t)
  BY SameState, NonePending, SameApp, IdleQuiet DEF Confirmed
<1> QED BY <1>1, <1>2, Ended

-----------------------------------------------------------------------------
(***************************************************************************)
(* The turns of a scan, and of a recording that has begun.                 *)
(***************************************************************************)

(* A turn in which a scan starts. *)
LEMMA TurnScanStarts ==
    ASSUME NEW t, IInv, OnTurn(t), Aside, ScanStarts(t)
    PROVE  QuietBy(t)
<1>1. Takes(t) /\ task[t].at = "start"
  BY TakenBy DEF ScanStarts
<1>2. ~AtGate(task[t])
  BY <1>1 DEF AtGate, GateStations, HeldCalls
<1>3. QuietState /\ QuietApp
  BY SameState, SameApp DEF ScanStarts
<1> QED BY <1>1, <1>2, <1>3, Asking DEF ScanStarts

(* A scan that is heard has no session beside it, and the window says so. *)
LEMMA ScanUnconnected ==
    ASSUME IInv, NEW t, OnTurn(t), LiveScan(t)
    PROVE  state.session = NoSession /\ app.remote_connected = FALSE
<1>1. NoneLeaving /\ t \in Tasks
  BY ScanAlone, PolledFacts
<1>2. state.session = NoSession /\ ~app.remote_connected
  BY <1>1 DEF IInv, WindowInv
<1>3. app.remote_connected \in BOOLEAN
  BY Parts DEF AppType
<1> QED BY <1>2, <1>3

(* A turn in which the permission for the camera was answered. *)
LEMMA TurnScanResumes ==
    ASSUME NEW t, IInv, OnTurn(t), Aside, ScanResumes(t)
    PROVE  QuietBy(t)
<1>1. Takes(t) /\ task[t].at = "permission" /\ task[t].kind = "scan"
  BY TakenBy DEF ScanResumes
<1>2. ~AtGate(task[t])
  BY <1>1 DEF AtGate, GateStations, HeldCalls
<1>3. QuietState
  BY SameState DEF ScanResumes
<1>4. CASE Ends(t) /\ UNCHANGED app
  BY <1>1, <1>3, <1>4, Ended, SameApp
<1>5. CASE Ends(t) /\ app' = Idle(app)
  BY <1>1, <1>3, <1>5, Ended, IdleQuiet
<1>6. CASE /\ task[t].valid
           /\ app' = [app EXCEPT !.is_busy = TRUE, !.remote_connected = FALSE,
                                 !.remote_scanning = TRUE]
           /\ Suspends(At(Polled, t, "camera"))
  <2>1. app.remote_connected = FALSE /\ app \in AppType
    BY <1>1, <1>6, ScanUnconnected, Parts DEF LiveScan
  <2>2. QuietApp
    BY <1>6, <2>1 DEF QuietApp, AppType
  <2> QED BY <1>1, <1>2, <1>3, <1>6, <2>2, Waited DEF Waits
<1> QED BY <1>4, <1>5, <1>6 DEF ScanResumes

(* A turn in which the camera has ended. *)
LEMMA TurnScanPublished ==
    ASSUME NEW t, IInv, OnTurn(t), Aside, ScanPublished(t)
    PROVE  QuietBy(t)
<1>1. Takes(t) /\ task[t].at = "camera" /\ task[t].kind = "scan"
  BY TakenBy DEF ScanPublished
<1>2. ~AtGate(task[t])
  BY <1>1 DEF AtGate, GateStations, HeldCalls
<1>3. QuietState
  BY SameState DEF ScanPublished
<1>4. PICK scanned : scanned = [app EXCEPT !.remote_scanning = FALSE]
  OBVIOUS
<1>5. scanned \in AppType /\ scanned.remote_connected = app.remote_connected
  BY <1>4, Parts DEF AppType
<1>6. Idle(scanned) \in AppType /\ Idle(scanned).remote_connected = app.remote_connected
  BY <1>5, AppKept
<1>7. CASE Ends(t) /\ UNCHANGED app
  BY <1>1, <1>3, <1>7, Ended, SameApp
<1>8. CASE Ends(t) /\ app' = Idle(scanned)
  BY <1>1, <1>3, <1>6, <1>8, Ended DEF QuietApp
<1>9. CASE Suspends(At(Polled, t, "connecting")) /\ app' = scanned
  BY <1>1, <1>2, <1>3, <1>5, <1>9, Waited DEF QuietApp, Waits
<1> QED BY <1>4, <1>7, <1>8, <1>9 DEF ScanPublished

(* A turn in which the session runs and its events are subscribed to. *)
LEMMA TurnSubscribes ==
    ASSUME NEW t, IInv, OnTurn(t), UNCHANGED <<activity, parked, active, issued>>, Subscribes(t)
    PROVE  IInv'
<1>1. t \in Tasks /\ task[t].kind = "scan" /\ task[t].at = "connected"
      /\ task[t] \in TaskType /\ Shaped(task[t])
  BY PolledFacts, Parts DEF Subscribes, Resumes
<1>2. task[t].on \in Sessions /\ ~AtGate(task[t])
  BY <1>1 DEF Shaped, AtGate, GateStations, HeldCalls
<1>3. QuietState /\ QuietApp /\ UNCHANGED life
  BY SameState, SameApp DEF Subscribes
<1>4. CASE EndsShuttingDown(t, task[t].on) /\ UNCHANGED event
  <2>1. Turned(t, NoTask)
    BY <1>2, <1>4, ShutTurn
  <2>2. Takes(t)
    BY <1>1, <1>3, <1>4 DEF Takes, Aside
  <2> QED BY <1>3, <2>1, <2>2, EndsQuietly DEF QuietBy
<1>5. CASE Locks(t, "install") /\ event' = [event EXCEPT ![task[t].on] = Nothing]
  <2>1. PICK r : r = Moved(task[t], "install")
    OBVIOUS
  <2>2. "install" \in GateStations /\ "install" \in Stations
    BY DEF GateStations, Stations
  <2>3. Turned(t, r)
    BY <1>2, <1>5, <2>1, <2>2, LockTurn
  <2>4. r.at = "install" /\ r.kind = task[t].kind /\ r.id = task[t].id /\ r.on = task[t].on
        /\ r.valid = task[t].valid
    BY <1>1, <2>1, <2>2, MovedType
  <2>5. task'[t] = r /\ ~Leaving(t) /\ Reaches(t)
    BY <1>1, <2>3 DEF Turned, Leaving, Reaches
  <2>6. QuietShape(t) /\ QuietScan(t) /\ QuietRecord(t)
    BY <1>1, <2>2, <2>4, <2>5, MovedQuiet
  <2>7. \A u \in Tasks : QuietShape(u) /\ QuietScan(u) /\ QuietRecord(u)
    BY <2>3, <2>6, TurnOthers
  <2>8. LeavingKept /\ AllInPlace'
    BY <2>3, <2>5, TurnLeaving DEF Turned
  <2>9. event \in [Sessions -> Events] /\ Nothing \in Events /\ Nothing # Disconnected
    BY Parts DEF FieldsTyped, Events, Nothing, Disconnected
  <2>10. SessionsTyped
    BY <1>3, <1>5, <2>9, Parts DEF FieldsTyped, SessionsTyped
  <2>11. QuietSessions
    BY <1>3, <1>5, <2>9 DEF QuietSessions, QuietLives
  <2> QED BY <1>3, <2>7, <2>8, <2>10, <2>11, QuietStep
<1> QED BY <1>4, <1>5 DEF Subscribes

(* The gate has one holder. *)
LEMMA OneHolds ==
    ASSUME AllInPlace, NEW u \in Tasks, NEW v \in Tasks,
           task[u].at \in HeldCalls, task[v].at \in HeldCalls
    PROVE  u = v
<1>1. Placed(loop, queue, parked, {}, u) /\ Placed(loop, queue, parked, {}, v)
  BY DEF AllInPlace, InPlace
<1>2. HeadOf(loop, u) /\ HeadOf(loop, v)
  BY <1>1 DEF Placed, task
<1> QED BY <1>2 DEF HeadOf

(* A turn in which begin_audio was answered. *)
LEMMA TurnRecordingBegins ==
    ASSUME NEW t, IInv, OnTurn(t), Aside, RecordingBegins(t)
    PROVE  IInv'
<1>1. Takes(t) /\ task[t].kind = "toggle" /\ task[t].at = "begin" /\ t \in Tasks
      /\ task[t] \in TaskType /\ Shaped(task[t])
  BY TakenBy DEF RecordingBegins
<1>2. AtGate(task[t]) /\ task[t].at \in HeldCalls /\ task[t].on \in Sessions
  BY <1>1 DEF AtGate, HeldCalls, Shaped
<1>3. CASE Ends(t) /\ app' = NotPending(t) /\ UNCHANGED state
  BY <1>1, <1>3, Ended, SameState, NotPendingQuiet DEF QuietBy
<1>4. ASSUME task[t].answer = "ok"
      PROVE  /\ task[t].id[1] = task[t].on
             /\ life[task[t].on] = "open" => active[task[t].on] = task[t].id
             /\ task[t].id \notin OwnIds
             /\ \A v \in Tasks \ {t} : task[v].id # task[t].id
             /\ task[t].id # NoId
  <2>1. Fresh(t)
    BY <1>1, <1>4 DEF Fresh
  <2>2. /\ task[t].id[1] = task[t].on
        /\ life[task[t].on] = "open" => active[task[t].on] = task[t].id
        /\ task[t].id \notin OwnIds
        /\ \A v \in Tasks \ {t} : task[v].id # task[t].id
    BY <1>1, <2>1 DEF IInv, RecordInv
  <2>3. task[t].id # NoId
    BY <1>2, <2>2 DEF NoId, Sessions
  <2> QED BY <2>2, <2>3
<1>5. CASE task[t].answer = "ok" /\ Undo(t) /\ UNCHANGED <<state, app>>
  <2>1. QuietState /\ QuietApp
    BY <1>5, SameState, SameApp
  <2>2. task[t].id # state.recording_request_id
    BY <1>4, <1>5 DEF OwnIds
  <2>3. "undo" \in HeldCalls
    BY DEF HeldCalls
  <2>4. MayCall(t, task[t].on, task[t].id, "undo")
    BY <1>1, <1>2, <2>2, <2>3 DEF MayCall
  <2> QED BY <1>1, <1>2, <1>5, <2>1, <2>3, <2>4, HeldCalling DEF Undo, QuietBy
<1>6. CASE /\ task[t].answer = "ok" /\ StillWanted(t)
           /\ state' = [state EXCEPT !.recorder = TRUE,
                                     !.recording_request_id = task[t].id,
                                     !.pending_request_id = task[t].id]
           /\ app' = [NotPending(t) EXCEPT !.voice_recording = TRUE]
           /\ Ends(t)
  <2>1. Turned(t, NoTask)
    BY <1>1, <1>6, EndTurn DEF Takes, Aside
  <2>2. task'[t] = NoTask /\ AllInPlace' /\ \A u \in Tasks \ {t} : Undisturbed(u)
    BY <2>1 DEF Turned
  <2>3. QuietShape(t) /\ QuietScan(t) /\ QuietRecord(t)
    BY <1>1, <2>2, OverQuiet
  <2>4. \A u \in Tasks : QuietShape(u) /\ QuietScan(u) /\ QuietRecord(u)
    BY <2>1, <2>3, TurnOthers
  <2>5. LeavingKept /\ SessionsTyped /\ QuietSessions
    BY <1>1, <2>1, TurnLeaving, AsideTyped DEF Leaving
  <2>6. QuietApp
    <3>1. app \in AppType /\ (app.input_pending /\ ~task[t].valid) \in BOOLEAN
      BY Parts DEF AppType
    <3>2. PICK a : a = NotPending(t)
      OBVIOUS
    <3>3. a \in AppType /\ a.remote_connected = app.remote_connected
      BY <3>1, <3>2 DEF NotPending, AppType
    <3>4. app' = [a EXCEPT !.voice_recording = TRUE]
      BY <1>6, <3>2
    <3> QED BY <3>3, <3>4 DEF QuietApp, AppType
  <2>7. state \in StateType /\ task[t].id \in Ids \cup {NoId}
    BY <1>1, Parts, TaskFields
  <2>8. /\ state' \in StateType /\ state'.session = state.session
        /\ state'.generation = state.generation /\ state'.recorder = TRUE
        /\ state'.recording_request_id = task[t].id /\ state'.pending_request_id = task[t].id
        /\ state'.pending_decision = state.pending_decision
    BY <1>6, <2>7 DEF StateType
  <2>9. FieldsTyped'
    BY <2>4, <2>5, <2>6, <2>8, Parts, QuietFields DEF SessionsTyped, QuietApp
  <2>10. WindowInv'
    BY <2>4, <2>5, <2>6, <2>8, Parts, QuietWindow DEF LeavingKept, QuietSessions
  <2>11. RecordInv /\ issued' = issued /\ life' = life /\ active' = active
    BY Parts DEF Aside
  <2>12. \A id : Known(id)' <=> Known(id)
    BY <2>11 DEF Known
  <2>13. Known(task[t].id) /\ Known(state.pending_decision) /\ \A u \in Tasks : Known(task[u].id)
    BY <1>1, <2>11 DEF RecordInv
  <2>14. \A u \in Tasks : task'[u].id \in {NoId, task[u].id}
    BY <2>2 DEF Undisturbed, NoTask
  <2>15. \A u \in Tasks : Known(task[u].id)'
    <3> SUFFICES ASSUME NEW u \in Tasks PROVE Known(task[u].id)'
      OBVIOUS
    <3>1. PICK id : id = task'[u].id
      OBVIOUS
    <3>2. Known(id)
      BY <2>13, <2>14, <3>1 DEF Known
    <3>3. Known(id)'
      BY <2>12, <3>2
    <3> QED BY <3>1, <3>3 DEF Known
  <2>16. Known(state.recording_request_id)' /\ Known(state.pending_request_id)'
         /\ Known(state.pending_decision)'
    BY <2>8, <2>11, <2>13 DEF Known
  <2>17. \A u \in Tasks : task'[u].at # "begin"
    <3> SUFFICES ASSUME NEW u \in Tasks, task'[u].at = "begin" PROVE FALSE
      OBVIOUS
    <3>1. u # t
      BY <2>2 DEF NoTask
    <3>2. task[u].at = "begin"
      BY <2>2, <3>1 DEF Undisturbed
    <3>3. task[u].at \in HeldCalls
      BY <3>2 DEF HeldCalls
    <3> QED BY <1>1, <1>2, <3>1, <3>3, Parts, OneHolds
  <2>18. state.session # NoSession /\ state.session = task[t].on
    BY <1>1, <1>6, <2>11 DEF StillWanted, RecordInv
  <2>19. \A u \in Tasks : task'[u].id # task[t].id
    BY <1>4, <1>6, <2>2 DEF Undisturbed, NoTask
  <2>20. RecordInv'
    BY <1>4, <1>6, <2>8, <2>11, <2>15, <2>16, <2>17, <2>18, <2>19 DEF RecordInv, Fresh
  <2> QED BY <2>2, <2>9, <2>10, <2>20 DEF IInv
<1> QED BY <1>3, <1>5, <1>6 DEF RecordingBegins

-----------------------------------------------------------------------------
(***************************************************************************)
(* The turns that change the connection.                                   *)
(***************************************************************************)

(* What the tasks of the others are after a turn. *)
LEMMA OthersAfter ==
    ASSUME IInv, NEW t \in Tasks, NEW r, Turned(t, r)
    PROVE  /\ task'[t] = r /\ AllInPlace'
           /\ \A u \in Tasks \ {t} : QuietShape(u) /\ QuietScan(u) /\ QuietRecord(u)
           /\ \A u \in Tasks \ {t} : /\ LiveScan(u)' => LiveScan(u) /\ task'[u].at = task[u].at
                                     /\ Leaving(u)' <=> Leaving(u)
                                     /\ task'[u].on = task[u].on
                                     /\ task'[u].at = task[u].at
                                     /\ task'[u].kind = task[u].kind
                                     /\ task'[u].generation = task[u].generation
<1>1. \A u \in Tasks \ {t} : Undisturbed(u)
  BY DEF Turned
<1>2. \A u \in Tasks \ {t} : QuietShape(u) /\ QuietScan(u) /\ QuietRecord(u)
  BY <1>1, Parts, UndisturbedQuiet
<1> QED BY <1>1, <1>2 DEF Turned, Undisturbed, LiveScan, Leaving

(* What clear_request leaves of the fields. *)
LEMMA ClearedFields ==
    ASSUME NEW c, state \in StateType, c = ClearedRequest(state)
    PROVE  /\ c \in StateType /\ c.session = state.session /\ c.generation = state.generation
           /\ c.recorder = FALSE /\ c.recording_request_id = NoId
           /\ c.pending_request_id = NoId /\ c.pending_decision = NoId
BY DEF ClearedRequest, StateType

(* A turn in which the user disconnects. *)
LEMMA TurnDisconnects ==
    ASSUME NEW t, IInv, OnTurn(t), Aside, Disconnects(t)
    PROVE  IInv'
<1>1. t \in Tasks /\ Leaving(t) /\ task[t] \in TaskType
  BY PolledFacts, Parts DEF Disconnects, Resumes, Leaving
<1>2. state \in StateType /\ app \in AppType /\ WindowInv /\ RecordInv /\ FieldsTyped
  BY Parts
<1>3. PICK c : c = ClearedRequest(state)
  OBVIOUS
<1>4. /\ state' \in StateType /\ state'.session = NoSession
      /\ state'.generation = state.generation + 1
      /\ state'.recorder = FALSE /\ OwnIds' = {NoId}
  <2>1. /\ c \in StateType /\ c.generation = state.generation
        /\ c.recorder = FALSE /\ c.recording_request_id = NoId
        /\ c.pending_request_id = NoId /\ c.pending_decision = NoId
    BY <1>2, <1>3, ClearedFields
  <2>2. state' = [c EXCEPT !.generation = @ + 1, !.session = NoSession]
    BY <1>3 DEF Disconnects
  <2>3. state.generation \in Nat
    BY <1>2 DEF StateType
  <2>5. PICK g \in Nat : g = c.generation + 1
    BY <2>1, <2>3
  <2>6. state' = [c EXCEPT !.generation = g, !.session = NoSession]
    BY <2>2, <2>5
  <2>4. /\ state' \in StateType /\ state'.session = NoSession /\ state'.generation = g
        /\ state'.recorder = FALSE /\ state'.recording_request_id = NoId
        /\ state'.pending_request_id = NoId /\ state'.pending_decision = NoId
    BY <2>1, <2>6 DEF StateType
  <2> QED BY <2>1, <2>4, <2>5 DEF OwnIds
<1>5. app' \in AppType /\ app'.remote_connected = FALSE
  <2>1. PICK a \in AppType : a = ResetAndIdle(app)
    BY <1>2, AppKept
  <2>2. app' = [a EXCEPT !.remote_connected = FALSE, !.remote_scanning = FALSE]
    BY <2>1 DEF Disconnects
  <2> QED BY <2>2 DEF AppType
<1>6. Turned(t, NoTask)
  <2>1. state.session \in Sessions \cup {NoSession} /\ EndsShuttingDown(t, state.session)
    BY <1>2 DEF StateType, Disconnects
  <2> QED BY <2>1, ShutTurn DEF Aside
<1>7. /\ task'[t] = NoTask /\ AllInPlace'
      /\ \A u \in Tasks \ {t} : QuietShape(u) /\ QuietScan(u) /\ QuietRecord(u)
      /\ \A u \in Tasks \ {t} : /\ LiveScan(u)' => LiveScan(u) /\ task'[u].at = task[u].at
                                /\ Leaving(u)' <=> Leaving(u)
                                /\ task'[u].on = task[u].on
                                /\ task'[u].at = task[u].at
                                /\ task'[u].kind = task[u].kind
                                /\ task'[u].generation = task[u].generation
  BY <1>1, <1>6, OthersAfter
<1>8. /\ task'[t].kind = "none" /\ task'[t].at = "none" /\ task'[t].on = NoSession
      /\ task'[t].id = NoId
  BY <1>7 DEF NoTask
<1>9. FieldsTyped'
  <2>1. QuietShape(t)
    BY <1>8 DEF QuietShape, Shaped, HeldCalls, FreeCalls
  <2>2. SessionsTyped
    BY AsideTyped
  <2> QED BY <1>2, <1>4, <1>5, <1>7, <2>1, <2>2, QuietFields DEF SessionsTyped
<1>10. NoneLeaving' /\ ~NoneLeaving
  <2>1. \A u \in Tasks \ {t} : ~Leaving(u)
    BY <1>1, <1>2 DEF WindowInv
  <2>2. ~Leaving(t)'
    BY <1>8 DEF Leaving
  <2> QED BY <1>1, <1>7, <2>1, <2>2 DEF NoneLeaving
<1>11. \A u \in Tasks : LiveScan(u)' => u # t /\ LiveScan(u)
  BY <1>7, <1>8 DEF LiveScan
<1>12. life' = life /\ event' = event /\ issued' = issued /\ active' = active
  BY DEF Aside
<1>13. \A k \in 0 .. MaxSessions : BornUpTo(k)' => state'.generation + Spent' <= 2 * k
  <2>1. Spent = 1 /\ Spent' = 0
    BY <1>5, <1>10 DEF Spent
  <2>2. \A k : BornUpTo(k)' <=> BornUpTo(k)
    BY <1>12 DEF BornUpTo
  <2>3. \A k \in 0 .. MaxSessions : BornUpTo(k) => state.generation + 1 <= 2 * k
    BY <1>2, <2>1 DEF WindowInv
  <2> QED BY <1>2, <1>4, <2>1, <2>2, <2>3 DEF StateType
<1>14. \A u \in Tasks : ~(LiveScan(u)' /\ Reaches(u)')
  <2> SUFFICES ASSUME NEW u \in Tasks, LiveScan(u)', Reaches(u)' PROVE FALSE
    OBVIOUS
  <2>1. task[u].at = "start" /\ task'[u].at = task[u].at
    BY <1>1, <1>2, <1>7, <1>11 DEF WindowInv
  <2> QED BY <2>1 DEF Reaches
<1>15. \A u \in Tasks : task'[u].on # NoSession => life'[task'[u].on] # "unborn"
  BY <1>2, <1>7, <1>8, <1>12 DEF WindowInv
<1>16. \A u \in Tasks : task'[u].kind = "events" =>
        /\ task'[u].generation <= state'.generation
        /\ task'[u].generation = state'.generation => state'.session \in {NoSession, task'[u].on}
  <2> SUFFICES ASSUME NEW u \in Tasks, task'[u].kind = "events"
               PROVE  task'[u].generation <= state'.generation
    BY <1>4
  <2>1. u # t /\ task[u].kind = "events" /\ task'[u].generation = task[u].generation
    BY <1>7, <1>8
  <2>2. task[u].generation <= state.generation /\ task[u].generation \in Nat
    BY <1>2, <2>1, Parts, TaskFields DEF WindowInv
  <2> QED BY <1>2, <1>4, <2>1, <2>2 DEF StateType
<1>17. WindowInv'
  <2>1. \A u, v \in Tasks : LiveScan(u)' /\ LiveScan(v)' => u = v
    BY <1>2, <1>11 DEF WindowInv
  <2>2. \A r, s \in Sessions : r < s /\ life'[s] # "unborn" => life'[r] # "unborn"
    BY <1>2, <1>12 DEF WindowInv
  <2>3. \A s \in Sessions : event'[s] = Disconnected => life'[s] = "ended"
    BY <1>2, <1>12 DEF WindowInv
  <2>4. \A d \in Tasks : ~Leaving(d)'
    BY <1>10 DEF NoneLeaving
  <2> QED BY <1>4, <1>5, <1>13, <1>14, <1>15, <1>16, <2>1, <2>2, <2>3, <2>4 DEF WindowInv
<1>18. RecordInv'
  <2>1. RecordSessions
    BY <1>12 DEF RecordSessions
  <2>2. QuietRecord(t)
    BY <1>8 DEF QuietRecord, Takers
  <2>3. \A u \in Tasks : QuietRecord(u)
    BY <1>7, <2>2
  <2> QED BY <1>2, <1>4, <2>1, <2>3, RecordsKept
<1> QED BY <1>7, <1>9, <1>17, <1>18 DEF IInv

(* A turn in which the session is installed. *)
LEMMA TurnInstalls ==
    ASSUME NEW t, IInv, OnTurn(t), Aside, Installs(t)
    PROVE  IInv'
<1>1. t \in Tasks /\ task[t].kind = "scan" /\ task[t].at = "install" /\ task[t] \in TaskType
      /\ Shaped(task[t])
  BY PolledFacts, Parts DEF Installs, Resumes
<1>2. state \in StateType /\ app \in AppType /\ WindowInv /\ RecordInv /\ FieldsTyped
  BY Parts
<1>3. task[t].on \in Sessions /\ AtGate(task[t])
  BY <1>1 DEF Shaped, AtGate, GateStations
<1>4. CASE EndsShuttingDown(t, task[t].on) /\ UNCHANGED <<state, app>>
  <2>1. Turned(t, NoTask)
    BY <1>3, <1>4, ShutTurn DEF Aside
  <2>2. Takes(t)
    BY <1>1 DEF Takes
  <2> QED BY <1>4, <2>1, <2>2, SameState, SameApp, EndsQuietly DEF QuietBy
<1>5. PICK w : w = [NewTask("events", "changed") EXCEPT
                       !.on = task[t].on, !.generation = state.generation + 1]
  OBVIOUS
<1>6. /\ w \in TaskType /\ w.kind = "events" /\ w.at = "changed" /\ w.on = task[t].on
      /\ w.generation = state.generation + 1 /\ w.id = NoId /\ w.answer = "none"
  <2>1. Nothing \in Dialogs /\ "none" \in Answers /\ "events" \in Kinds /\ "changed" \in Stations
    BY DEF Dialogs, Answers, Kinds, Stations
  <2>2. state.generation + 1 \in Nat /\ 0 \in Nat
    BY <1>2 DEF StateType
  <2>3. PICK x : x = NewTask("events", "changed")
    OBVIOUS
  <2>4. /\ x \in TaskType /\ x.kind = "events" /\ x.at = "changed" /\ x.id = NoId /\ x.answer = "none"
    BY <2>1, <2>2, <2>3 DEF NewTask, NoTask, TaskType
  <2>5. w = [x EXCEPT !.on = task[t].on, !.generation = state.generation + 1]
    BY <1>5, <2>3
  <2> QED BY <1>3, <2>2, <2>4, <2>5 DEF TaskType
<1>7. CASE /\ task[t].valid
           /\ state' = [ClearedRequest(state) EXCEPT !.generation = @ + 1, !.session = task[t].on]
           /\ app' = [Idle(app) EXCEPT !.remote_connected = TRUE]
           /\ Suspends(IF event[task[t].on] = Nothing THEN [Unlock(Polled) EXCEPT !.task[t] = w]
                       ELSE [[Unlock(Polled) EXCEPT !.task[t] = w] EXCEPT !.ready = Append(@, t)])
  <2>1. Turned(t, w)
    <3>1. \/ Suspends(WithTask(Unlock(Polled), t, w))
          \/ Suspends([WithTask(Unlock(Polled), t, w) EXCEPT !.ready = Append(@, t)])
      BY <1>7 DEF WithTask
    <3> QED BY <1>3, <1>6, <3>1, InstallTurn DEF Aside
  <2>2. /\ task'[t] = w /\ AllInPlace'
        /\ \A u \in Tasks \ {t} : QuietShape(u) /\ QuietScan(u) /\ QuietRecord(u)
        /\ \A u \in Tasks \ {t} : /\ LiveScan(u)' => LiveScan(u) /\ task'[u].at = task[u].at
                                  /\ Leaving(u)' <=> Leaving(u)
                                  /\ task'[u].on = task[u].on
                                  /\ task'[u].at = task[u].at
                                  /\ task'[u].kind = task[u].kind
                                  /\ task'[u].generation = task[u].generation
    BY <1>1, <2>1, OthersAfter
  <2>3. PICK c : c = ClearedRequest(state)
    OBVIOUS
  <2>4. /\ state' \in StateType /\ state'.session = task[t].on
        /\ state'.generation = state.generation + 1
        /\ state'.recorder = FALSE /\ OwnIds' = {NoId}
    <3>1. /\ c \in StateType /\ c.generation = state.generation
          /\ c.recorder = FALSE /\ c.recording_request_id = NoId
          /\ c.pending_request_id = NoId /\ c.pending_decision = NoId
      BY <1>2, <2>3, ClearedFields
    <3>2. state' = [c EXCEPT !.generation = @ + 1, !.session = task[t].on]
      BY <1>7, <2>3
    <3>3. state.generation \in Nat
      BY <1>2 DEF StateType
    <3>5. PICK g \in Nat : g = c.generation + 1
      BY <3>1, <3>3
    <3>7. PICK s \in Sessions : s = task[t].on
      BY <1>3
    <3>6. state' = [c EXCEPT !.generation = g, !.session = s]
      BY <3>2, <3>5, <3>7
    <3>4. /\ state' \in StateType /\ state'.session = s /\ state'.generation = g
          /\ state'.recorder = FALSE /\ state'.recording_request_id = NoId
          /\ state'.pending_request_id = NoId /\ state'.pending_decision = NoId
      BY <3>1, <3>6 DEF StateType
    <3> QED BY <3>1, <3>4, <3>5, <3>7 DEF OwnIds
  <2>5. app' \in AppType /\ app'.remote_connected = TRUE
    <3>1. PICK a \in AppType : a = Idle(app)
      BY <1>2, AppKept
    <3>2. app' = [a EXCEPT !.remote_connected = TRUE]
      BY <1>7, <3>1
    <3> QED BY <3>2 DEF AppType
  <2>6. LiveScan(t) /\ NoneLeaving
    BY <1>1, <1>7, ScanAlone DEF LiveScan
  <2>7. life' = life /\ event' = event /\ issued' = issued /\ active' = active
    BY DEF Aside
  <2>8. \A u \in Tasks : ~LiveScan(u)'
    <3>1. ~LiveScan(t)'
      BY <1>6, <2>2 DEF LiveScan
    <3> QED BY <1>1, <1>2, <2>2, <2>6, <3>1 DEF WindowInv
  <2>9. \A u \in Tasks : ~Leaving(u)'
    <3>1. ~Leaving(t)'
      BY <1>6, <2>2 DEF Leaving
    <3> QED BY <2>2, <2>6, <3>1 DEF NoneLeaving
  <2>10. FieldsTyped'
    <3>1. QuietShape(t)
      BY <1>3, <1>6, <2>2 DEF QuietShape, Shaped
    <3>2. SessionsTyped
      BY AsideTyped
    <3> QED BY <1>2, <2>2, <2>4, <2>5, <3>1, <3>2, QuietFields DEF SessionsTyped
  <2>11. life[task[t].on] # "unborn"
    BY <1>1, <1>2, <1>3 DEF WindowInv, Sessions, NoSession
  <2>12. \A k \in 0 .. MaxSessions : BornUpTo(k)' => state'.generation + Spent' <= 2 * k
    <3> SUFFICES ASSUME NEW k \in 0 .. MaxSessions, BornUpTo(k)'
                 PROVE  state'.generation + Spent' <= 2 * k
      OBVIOUS
    <3>1. Spent' = 1
      BY <2>5 DEF Spent
    <3>2. task[t].on <= k
      BY <1>3, <2>7, <2>11 DEF BornUpTo
    <3>3. state.generation <= 2 * (task[t].on - 1)
      BY <1>1, <1>2, <2>6 DEF WindowInv, Reaches
    <3>4. PICK n \in Nat : n = task[t].on
      BY <1>3 DEF Sessions
    <3> QED BY <1>2, <2>4, <3>1, <3>2, <3>3, <3>4 DEF StateType
  <2>13. \A u \in Tasks : task'[u].on # NoSession => life'[task'[u].on] # "unborn"
    BY <1>2, <1>6, <2>2, <2>7, <2>11 DEF WindowInv
  <2>14. \A u \in Tasks : task'[u].kind = "events" =>
          /\ task'[u].generation <= state'.generation
          /\ task'[u].generation = state'.generation => state'.session \in {NoSession, task'[u].on}
    <3> SUFFICES ASSUME NEW u \in Tasks, task'[u].kind = "events"
                 PROVE  /\ task'[u].generation <= state'.generation
                        /\ task'[u].generation = state'.generation =>
                             state'.session \in {NoSession, task'[u].on}
      OBVIOUS
    <3>1. state.generation \in Nat
      BY <1>2 DEF StateType
    <3>2. CASE u = t
      BY <1>6, <2>2, <2>4, <3>1, <3>2
    <3>3. CASE u # t
      <4>1. task[u].kind = "events" /\ task'[u].generation = task[u].generation
        BY <2>2, <3>3
      <4>2. task[u].generation <= state.generation /\ task[u].generation \in Nat
        BY <1>2, <4>1, Parts, TaskFields DEF WindowInv
      <4> QED BY <2>4, <3>1, <4>1, <4>2
    <3> QED BY <3>2, <3>3
  <2>15. WindowInv'
    <3>1. \A r, s \in Sessions : r < s /\ life'[s] # "unborn" => life'[r] # "unborn"
      BY <1>2, <2>7 DEF WindowInv
    <3>2. \A s \in Sessions : event'[s] = Disconnected => life'[s] = "ended"
      BY <1>2, <2>7 DEF WindowInv
    <3>3. state'.session # NoSession /\ life'[state'.session] # "unborn"
      BY <1>3, <2>4, <2>7, <2>11 DEF Sessions, NoSession
    <3> QED BY <2>4, <2>5, <2>8, <2>9, <2>12, <2>13, <2>14, <3>1, <3>2, <3>3 DEF WindowInv
  <2>16. RecordInv'
    <3>1. RecordSessions
      BY <2>7 DEF RecordSessions
    <3>2. QuietRecord(t)
      BY <1>6, <2>2 DEF QuietRecord, Takers
    <3>3. \A u \in Tasks : QuietRecord(u)
      BY <2>2, <3>2
    <3>4. \A u \in Tasks : task'[u].at # "begin"
      <4> SUFFICES ASSUME NEW u \in Tasks, task'[u].at = "begin" PROVE FALSE
        OBVIOUS
      <4>1. u # t /\ task[u].at = "begin"
        BY <1>6, <2>2
      <4>2. Placed(loop, queue, parked, {}, u) /\ task[u].at \in HeldCalls
        BY <4>1, Parts DEF AllInPlace, InPlace, HeldCalls
      <4>3. HeadOf(loop, u)
        BY <4>2 DEF Placed, task
      <4>4. HeadOf(loop, t)
        BY <1>3, PolledFacts
      <4> QED BY <4>1, <4>3, <4>4 DEF HeadOf
    <3> QED BY <1>2, <2>4, <3>1, <3>3, <3>4, RecordsKept
  <2> QED BY <2>2, <2>10, <2>15, <2>16 DEF IInv
<1> QED BY <1>4, <1>5, <1>7 DEF Installs

-----------------------------------------------------------------------------
(***************************************************************************)
(* The turns that start a session and that read its events.                *)
(***************************************************************************)

(* A turn in which the handshake is over. *)
LEMMA TurnConnects ==
    ASSUME NEW t, IInv, OnTurn(t), UNCHANGED <<activity, parked, active, issued>>, Connects(t)
    PROVE  IInv'
<1>1. t \in Tasks /\ task[t].kind = "scan" /\ task[t].at = "connecting"
      /\ task[t] \in TaskType /\ Shaped(task[t])
  BY PolledFacts, Parts DEF Connects, Resumes
<1>2. ~AtGate(task[t]) /\ ~Leaving(t)
  BY <1>1 DEF AtGate, GateStations, HeldCalls, Leaving
<1>3. UNCHANGED <<state, event>> /\ QuietState
  BY SameState DEF Connects
<1>4. CASE /\ Ends(t)
           /\ app' = IF FailureHeard(t) THEN [Idle(app) EXCEPT !.remote_connected = FALSE] ELSE app
           /\ UNCHANGED life
  <2>1. Takes(t)
    BY <1>1, <1>3, <1>4 DEF Takes, Aside
  <2>2. CASE FailureHeard(t)
    <3>1. app.remote_connected = FALSE
      BY <1>1, <2>2, ScanUnconnected DEF LiveScan, FailureHeard
    <3>2. PICK a \in AppType : a = Idle(app)
      BY Parts, AppKept
    <3>3. app' = [a EXCEPT !.remote_connected = FALSE]
      BY <1>4, <2>2, <3>2
    <3>4. QuietApp
      BY <3>1, <3>3 DEF QuietApp, AppType
    <3> QED BY <1>3, <1>4, <2>1, <3>4, Ended DEF QuietBy
  <2>3. CASE ~FailureHeard(t)
    BY <1>3, <1>4, <2>1, <2>3, Ended, SameApp DEF QuietBy
  <2> QED BY <2>2, <2>3
<1>5. ASSUME NEW s \in Sessions, life[s] = "unborn", \A r \in 1 .. s - 1 : life[r] # "unborn",
             life' = [life EXCEPT ![s] = "open"], UNCHANGED app,
             Suspends([Continues(Polled, t, "connected") EXCEPT !.task[t].on = s])
      PROVE  IInv'
  <2>1. PICK x : x = Moved(task[t], "connected")
    OBVIOUS
  <2>2. x \in TaskType /\ x.at = "connected" /\ x.kind = "scan" /\ x.id = task[t].id
        /\ x.valid = task[t].valid
    <3>1. "connected" \in Stations
      BY DEF Stations
    <3> QED BY <1>1, <2>1, <3>1, MovedType
  <2>3. PICK w : w = OnSession(x, s)
    OBVIOUS
  <2>4. w \in TaskType /\ w.at = "connected" /\ w.kind = "scan" /\ w.id = task[t].id
        /\ w.valid = task[t].valid /\ w.on = s
    BY <2>2, <2>3 DEF OnSession, TaskType
  <2>5. Turned(t, w)
    BY <1>2, <1>5, <2>1, <2>3, ConnectTurn
  <2>6. /\ task'[t] = w /\ AllInPlace'
        /\ \A u \in Tasks \ {t} : QuietShape(u) /\ QuietScan(u) /\ QuietRecord(u)
        /\ \A u \in Tasks \ {t} : /\ LiveScan(u)' => LiveScan(u) /\ task'[u].at = task[u].at
                                  /\ Leaving(u)' <=> Leaving(u)
                                  /\ task'[u].on = task[u].on
                                  /\ task'[u].at = task[u].at
                                  /\ task'[u].kind = task[u].kind
                                  /\ task'[u].generation = task[u].generation
    BY <1>1, <2>5, OthersAfter
  <2>7. FieldsTyped /\ WindowInv /\ RecordInv /\ life \in [Sessions -> {"unborn", "open", "ended"}]
    BY Parts DEF FieldsTyped
  <2>8. /\ life' \in [Sessions -> {"unborn", "open", "ended"}] /\ life'[s] = "open"
        /\ \A z \in Sessions \ {s} : life'[z] = life[z]
    BY <1>5, <2>7
  <2>9. FieldsTyped'
    <3>1. QuietShape(t)
      BY <2>4, <2>6 DEF QuietShape, Shaped, HeldCalls, FreeCalls
    <3>2. SessionsTyped
      BY <1>3, <2>7, <2>8 DEF SessionsTyped, FieldsTyped
    <3>3. state' \in StateType /\ app' \in AppType
      BY <1>3, <1>5, Parts
    <3> QED BY <2>6, <2>7, <3>1, <3>2, <3>3, QuietFields DEF SessionsTyped
  <2>10. \A u \in Tasks : /\ LiveScan(u)' => LiveScan(u)
                          /\ Leaving(u)' <=> Leaving(u)
    <3>1. LiveScan(t)' => LiveScan(t)
      BY <1>1, <2>4, <2>6 DEF LiveScan
    <3>2. ~Leaving(t)' /\ ~Leaving(t)
      BY <1>1, <2>4, <2>6 DEF Leaving
    <3> QED BY <2>6, <3>1, <3>2
  <2>11. NoneLeaving' <=> NoneLeaving
    BY <2>10 DEF NoneLeaving
  <2>12. Spent' = Spent
    BY <1>5, <2>11 DEF Spent
  <2>13. LeavingKept
    BY <1>2, <2>5, TurnLeaving
  <2>14. \A k : BornUpTo(k)' => BornUpTo(k)
    BY <1>5, <2>8 DEF BornUpTo
  <2>15. \A z \in Sessions : life[z] # "unborn" => life'[z] # "unborn"
    BY <2>8
  <2>16. \A u, v \in Tasks : LiveScan(u)' /\ LiveScan(v)' => u = v
    BY <2>7, <2>10 DEF WindowInv
  <2>17. \A d, e \in Tasks : Leaving(d)' /\ Leaving(e)' => d = e
    BY <2>7, <2>10 DEF WindowInv
  <2>18. \A d \in Tasks : Leaving(d)' => Occurs(loop'.ready, d) /\ ~app'.remote_connected
    BY <1>5, <2>7, <2>10, <2>13 DEF WindowInv, LeavingKept
  <2>19. ASSUME NEW d \in Tasks, NEW u \in Tasks, Leaving(d)', LiveScan(u)'
         PROVE  task'[u].at = "start" /\ Before(loop'.ready, d, u)
    <3>1. Leaving(d) /\ LiveScan(u)
      BY <2>10, <2>19
    <3>2. task[u].at = "start" /\ Before(loop.ready, d, u)
      BY <2>7, <3>1 DEF WindowInv
    <3>3. u # t
      BY <1>1, <3>2
    <3> QED BY <2>6, <2>13, <3>1, <3>2, <3>3 DEF LeavingKept
  <2>20. \A u \in Tasks : LiveScan(u)' /\ NoneLeaving' => state'.session = NoSession
    BY <1>3, <2>7, <2>10, <2>11 DEF WindowInv
  <2>21. NoneLeaving' => (app'.remote_connected <=> state'.session # NoSession)
    BY <1>3, <1>5, <2>7, <2>11 DEF WindowInv
  <2>22. \A r, z \in Sessions : r < z /\ life'[z] # "unborn" => life'[r] # "unborn"
    <3> SUFFICES ASSUME NEW r \in Sessions, NEW z \in Sessions, r < z, life'[z] # "unborn", r # s
                 PROVE  life[r] # "unborn"
      BY <2>8
    <3>1. CASE z = s
      <4>1. r \in 1 .. s - 1
        BY <3>1 DEF Sessions
      <4> QED BY <1>5, <4>1
    <3>2. CASE z # s
      BY <2>7, <2>8, <3>2 DEF WindowInv
    <3> QED BY <3>1, <3>2
  <2>23. \A k \in 0 .. MaxSessions : BornUpTo(k)' => state'.generation + Spent' <= 2 * k
    BY <1>3, <2>7, <2>12, <2>14 DEF WindowInv
  <2>24. state.generation <= 2 * (s - 1)
    <3>1. BornUpTo(s - 1)
      <4> SUFFICES ASSUME NEW z \in Sessions, life[z] # "unborn", ~(z <= s - 1) PROVE FALSE
        BY DEF BornUpTo
      <4>1. s < z
        BY <1>5 DEF Sessions
      <4> QED BY <1>5, <2>7, <4>1 DEF WindowInv
    <3>5. MaxSessions \in Nat
      BY AppAssumption
    <3>2. s - 1 \in 0 .. MaxSessions /\ s \in Nat
      BY <3>5 DEF Sessions
    <3>3. state.generation + Spent <= 2 * (s - 1)
      BY <2>7, <3>1, <3>2 DEF WindowInv
    <3>4. state.generation \in Nat /\ Spent \in {0, 1}
      BY Parts DEF StateType, Spent
    <3> QED BY <3>2, <3>3, <3>4
  <2>25. \A u \in Tasks : LiveScan(u)' /\ Reaches(u)' => state'.generation <= 2 * (task'[u].on - 1)
    <3> SUFFICES ASSUME NEW u \in Tasks, LiveScan(u)', Reaches(u)'
                 PROVE  state.generation <= 2 * (task'[u].on - 1)
      BY <1>3
    <3>1. CASE u = t
      BY <2>4, <2>6, <2>24, <3>1
    <3>2. CASE u # t
      <4>1. LiveScan(u) /\ Reaches(u) /\ task'[u].on = task[u].on
        BY <2>6, <2>10, <3>2 DEF Reaches
      <4> QED BY <2>7, <4>1 DEF WindowInv
    <3> QED BY <3>1, <3>2
  <2>26. \A u \in Tasks : task'[u].on # NoSession => life'[task'[u].on] # "unborn"
    <3> SUFFICES ASSUME NEW u \in Tasks, task'[u].on # NoSession, u # t
                 PROVE  life'[task'[u].on] # "unborn"
      BY <2>4, <2>6, <2>8
    <3>1. task'[u].on = task[u].on /\ life[task[u].on] # "unborn"
      BY <2>6, <2>7 DEF WindowInv
    <3>2. task[u].on \in Sessions
      BY <3>1, Parts, TaskFields
    <3> QED BY <2>15, <3>1, <3>2
  <2>27. state'.session # NoSession => life'[state'.session] # "unborn"
    <3> SUFFICES ASSUME state.session # NoSession PROVE life'[state.session] # "unborn"
      BY <1>3
    <3>1. state.session \in Sessions
      BY Parts DEF StateType
    <3> QED BY <2>7, <2>15, <3>1 DEF WindowInv
  <2>28. \A u \in Tasks : task'[u].kind = "events" =>
          /\ task'[u].generation <= state'.generation
          /\ task'[u].generation = state'.generation => state'.session \in {NoSession, task'[u].on}
    <3> SUFFICES ASSUME NEW u \in Tasks, task'[u].kind = "events"
                 PROVE  /\ task'[u].generation <= state.generation
                        /\ task'[u].generation = state.generation =>
                             state.session \in {NoSession, task'[u].on}
      BY <1>3
    <3>1. u # t
      BY <2>4, <2>6
    <3> QED BY <2>6, <2>7, <3>1 DEF WindowInv
  <2>29. \A z \in Sessions : event'[z] = Disconnected => life'[z] = "ended"
    BY <1>3, <1>5, <2>7, <2>8 DEF WindowInv
  <2>30. WindowInv'
    BY <2>16, <2>17, <2>18, <2>19, <2>20, <2>21, <2>22, <2>23, <2>25, <2>26, <2>27, <2>28, <2>29
    DEF WindowInv
  <2>31. RecordInv'
    <3>1. RecordSessions
      BY <1>5, <2>8 DEF RecordSessions
    <3>2. QuietRecord(t)
      BY <2>4, <2>6 DEF QuietRecord, Takers
    <3>3. \A u \in Tasks : QuietRecord(u)
      BY <2>6, <3>2
    <3>4. \A u \in Tasks : task'[u].at = "begin" => state'.session \in {NoSession, task'[u].on}
      <4> SUFFICES ASSUME NEW u \in Tasks, task'[u].at = "begin"
                   PROVE  state.session \in {NoSession, task'[u].on}
        BY <1>3
      <4>1. u # t
        BY <2>4, <2>6
      <4> QED BY <2>6, <2>7, <4>1 DEF RecordInv
    <3>5. OwnIds' = OwnIds
      BY <1>3 DEF OwnIds
    <3> QED BY <1>3, <2>7, <3>1, <3>3, <3>4, <3>5, RecordsKept
  <2> QED BY <2>6, <2>9, <2>30, <2>31 DEF IInv
<1> QED BY <1>4, <1>5 DEF Connects

(* A turn in which an event of the session is read. *)
LEMMA TurnEventRead ==
    ASSUME NEW t, IInv, OnTurn(t), UNCHANGED <<activity, parked, active, issued>>, EventRead(t)
    PROVE  IInv'
<1>1. t \in Tasks /\ task[t].kind = "events" /\ task[t].at = "changed"
      /\ task[t] \in TaskType /\ Shaped(task[t])
  BY PolledFacts, Parts DEF EventRead, Resumes
<1>2. task[t].on \in Sessions /\ ~Leaving(t) /\ ~LiveScan(t) /\ task[t].kind # "disconnect"
  BY <1>1 DEF Shaped, Leaving, LiveScan
<1>3. event \in [Sessions -> Events] /\ Nothing \in Events /\ Nothing # Disconnected
  BY Parts DEF FieldsTyped, Events, Nothing, Disconnected
<1>4. event' = [event EXCEPT ![task[t].on] = Nothing] /\ UNCHANGED life
  BY DEF EventRead
<1>5. SessionsTyped /\ QuietSessions
  <2>1. SessionsTyped
    BY <1>3, <1>4, Parts DEF FieldsTyped, SessionsTyped
  <2>2. QuietSessions
    BY <1>3, <1>4 DEF QuietSessions, QuietLives
  <2> QED BY <2>1, <2>2
<1>6. ASSUME NEW r, Turned(t, r), QuietState, QuietApp,
             QuietShape(t) /\ QuietScan(t) /\ QuietRecord(t)
      PROVE  IInv'
  <2>1. \A u \in Tasks : QuietShape(u) /\ QuietScan(u) /\ QuietRecord(u)
    BY <1>6, TurnOthers
  <2>2. LeavingKept /\ AllInPlace'
    BY <1>2, <1>6, TurnLeaving DEF Turned
  <2> QED BY <1>5, <1>6, <2>1, <2>2, QuietStep
<1>7. CASE Ends(t) /\ UNCHANGED <<state, app>>
  <2>1. Turned(t, NoTask)
    BY <1>7, EndTurn
  <2>2. task'[t] = NoTask
    BY <2>1 DEF Turned
  <2> QED BY <1>2, <1>6, <1>7, <2>1, <2>2, OverQuiet, SameState, SameApp
<1>8. CASE /\ event[task[t].on].kind = "decision"
           /\ state' = [state EXCEPT !.pending_decision =
                          IF IsPending(event[task[t].on].id) THEN event[task[t].on].id ELSE NoId]
           /\ app' = IF IsPending(event[task[t].on].id)
                     THEN [Idle(app) EXCEPT !.dialog = event[task[t].on]] ELSE app
           /\ Suspends(Polled)
  <2>1. PICK r : r = task[t]
    OBVIOUS
  <2>2. Turned(t, r)
    BY <1>1, <1>8, <2>1, ReadTurn
  <2>3. task'[t] = task[t]
    BY <2>1, <2>2 DEF Turned
  <2>4. QuietShape(t) /\ QuietScan(t) /\ QuietRecord(t)
    <3>1. QuietShape(t)
      BY <1>1, <2>3 DEF QuietShape
    <3>2. QuietScan(t)
      BY <1>1, <2>3 DEF QuietScan
    <3>3. QuietRecord(t)
      BY <1>1, <2>3 DEF QuietRecord, Takers
    <3> QED BY <3>1, <3>2, <3>3
  <2>5. PICK e : e = event[task[t].on]
    OBVIOUS
  <2>6. e \in [kind : {"decision"}, id : Ids]
    <3>1. e \in Events /\ e.kind = "decision"
      BY <1>2, <1>3, <1>8, <2>5
    <3> QED BY <3>1 DEF Events, Nothing, Disconnected
  <2>7. e \in Dialogs
    BY <2>6 DEF Dialogs
  <2>8. QuietState
    <3>1. state \in StateType
      BY Parts
    <3>2. PICK id \in Ids \cup {NoId} : /\ state' = [state EXCEPT !.pending_decision = id]
                                        /\ id \in {state.pending_request_id, NoId}
      BY <1>8, <2>5, <2>6 DEF IsPending
    <3>3. state' \in StateType /\ state'.session = state.session
          /\ state'.generation = state.generation /\ state'.recorder = state.recorder
          /\ state'.recording_request_id = state.recording_request_id
          /\ state'.pending_request_id = state.pending_request_id /\ state'.pending_decision = id
      BY <3>1, <3>2 DEF StateType
    <3> QED BY <3>2, <3>3 DEF QuietState, OwnIds
  <2>9. QuietApp
    <3>1. PICK a \in AppType : a = Idle(app) /\ a.remote_connected = app.remote_connected
      BY Parts, AppKept
    <3>2. app' = IF IsPending(e.id) THEN [a EXCEPT !.dialog = e] ELSE app
      BY <1>8, <2>5, <3>1
    <3>3. CASE app' = [a EXCEPT !.dialog = e]
      BY <2>7, <3>1, <3>3 DEF QuietApp, AppType
    <3> QED BY <3>2, <3>3, SameApp
  <2> QED BY <1>6, <2>2, <2>4, <2>8, <2>9
<1>9. CASE /\ state' = [ClearedRequest(state) EXCEPT !.session = NoSession]
           /\ app' = [ResetAndIdle(app) EXCEPT !.remote_connected = FALSE]
           /\ Ends(t)
  <2>1. Turned(t, NoTask)
    BY <1>9, EndTurn
  <2>2. task'[t] = NoTask
    BY <2>1 DEF Turned
  <2>3. QuietShape(t) /\ QuietScan(t) /\ QuietRecord(t)
    BY <1>2, <2>2, OverQuiet
  <2>4. \A u \in Tasks : QuietShape(u) /\ QuietScan(u) /\ QuietRecord(u)
    BY <2>1, <2>3, TurnOthers
  <2>5. LeavingKept /\ AllInPlace'
    BY <1>2, <2>1, TurnLeaving DEF Turned
  <2>6. FieldsTyped /\ WindowInv /\ RecordInv /\ state \in StateType
    BY Parts
  <2>7. PICK c : c = ClearedRequest(state)
    OBVIOUS
  <2>8. /\ state' \in StateType /\ state'.session = NoSession
        /\ state'.generation = state.generation /\ state'.recorder = FALSE /\ OwnIds' = {NoId}
    <3>1. /\ c \in StateType /\ c.generation = state.generation
          /\ c.recorder = FALSE /\ c.recording_request_id = NoId
          /\ c.pending_request_id = NoId /\ c.pending_decision = NoId
      BY <2>6, <2>7, ClearedFields
    <3>2. state' = [c EXCEPT !.session = NoSession]
      BY <1>9, <2>7
    <3>3. /\ state' \in StateType /\ state'.session = NoSession
          /\ state'.generation = c.generation
          /\ state'.recorder = FALSE /\ state'.recording_request_id = NoId
          /\ state'.pending_request_id = NoId /\ state'.pending_decision = NoId
      BY <3>1, <3>2 DEF StateType
    <3> QED BY <3>1, <3>3 DEF OwnIds
  <2>9. app' \in AppType /\ app'.remote_connected = FALSE
    <3>1. PICK a \in AppType : a = ResetAndIdle(app)
      BY Parts, AppKept
    <3>2. app' = [a EXCEPT !.remote_connected = FALSE]
      BY <1>9, <3>1
    <3> QED BY <3>2 DEF AppType
  <2>10. FieldsTyped'
    BY <1>5, <2>4, <2>6, <2>8, <2>9, QuietFields DEF SessionsTyped
  <2>11. \A u \in Tasks : /\ LiveScan(u)' => LiveScan(u)
                          /\ Leaving(u)' <=> Leaving(u)
    BY <2>4 DEF QuietScan, LiveScan, Leaving
  <2>12. NoneLeaving' <=> NoneLeaving
    BY <2>11 DEF NoneLeaving
  <2>13. Spent' \in Nat /\ Spent \in Nat /\ Spent' <= Spent
    BY <2>9, <2>12 DEF Spent
  <2>14. \A k : BornUpTo(k)' <=> BornUpTo(k)
    BY <1>4 DEF BornUpTo
  <2>15. \A u, v \in Tasks : LiveScan(u)' /\ LiveScan(v)' => u = v
    BY <2>6, <2>11 DEF WindowInv
  <2>16. \A d, e \in Tasks : Leaving(d)' /\ Leaving(e)' => d = e
    BY <2>6, <2>11 DEF WindowInv
  <2>17. \A d \in Tasks : Leaving(d)' => Occurs(loop'.ready, d) /\ ~app'.remote_connected
    BY <2>5, <2>6, <2>9, <2>11 DEF WindowInv, LeavingKept
  <2>18. ASSUME NEW d \in Tasks, NEW u \in Tasks, Leaving(d)', LiveScan(u)'
         PROVE  task'[u].at = "start" /\ Before(loop'.ready, d, u)
    <3>1. Leaving(d) /\ LiveScan(u) /\ ~NoneLeaving
      BY <2>11, <2>18 DEF NoneLeaving
    <3>2. task[u].at = "start" /\ Before(loop.ready, d, u)
      BY <2>6, <3>1 DEF WindowInv
    <3>3. task'[u].at = task[u].at
      BY <2>4, <2>18, <3>1 DEF QuietScan, LiveScan
    <3> QED BY <2>5, <3>1, <3>2, <3>3 DEF LeavingKept
  <2>19. \A k \in 0 .. MaxSessions : BornUpTo(k)' => state'.generation + Spent' <= 2 * k
    <3> SUFFICES ASSUME NEW k \in 0 .. MaxSessions, BornUpTo(k)'
                 PROVE  state'.generation + Spent' <= 2 * k
      OBVIOUS
    <3>1. state.generation + Spent <= 2 * k
      BY <2>6, <2>14 DEF WindowInv
    <3>2. state.generation \in Nat /\ 2 * k \in Nat
      BY <2>6 DEF StateType
    <3> QED BY <2>8, <2>13, <3>1, <3>2
  <2>20. \A u \in Tasks : LiveScan(u)' /\ Reaches(u)' => state'.generation <= 2 * (task'[u].on - 1)
    <3> SUFFICES ASSUME NEW u \in Tasks, LiveScan(u)', Reaches(u)'
                 PROVE  state'.generation <= 2 * (task'[u].on - 1)
      OBVIOUS
    <3>1. LiveScan(u) /\ Reaches(u) /\ task'[u].on = task[u].on
      BY <2>4 DEF QuietScan, LiveScan, Reaches
    <3> QED BY <2>6, <2>8, <3>1 DEF WindowInv
  <2>21. \A u \in Tasks : task'[u].on # NoSession => life'[task'[u].on] # "unborn"
    <3> SUFFICES ASSUME NEW u \in Tasks, task'[u].on # NoSession
                 PROVE  life'[task'[u].on] # "unborn"
      OBVIOUS
    <3>1. task'[u].on \in {state.session, task[u].on}
      BY <2>4 DEF QuietScan
    <3> QED BY <1>4, <2>6, <3>1 DEF WindowInv
  <2>22. \A u \in Tasks : task'[u].kind = "events" => task'[u].generation <= state'.generation
    BY <2>4, <2>6, <2>8 DEF QuietScan, WindowInv
  <2>23. \A z \in Sessions : event'[z] = Disconnected => life'[z] = "ended"
    BY <1>5, <2>6 DEF QuietSessions, QuietLives, WindowInv
  <2>24. \A r, z \in Sessions : r < z /\ life'[z] # "unborn" => life'[r] # "unborn"
    BY <1>4, <2>6 DEF WindowInv
  <2>25. WindowInv'
    BY <2>8, <2>9, <2>15, <2>16, <2>17, <2>18, <2>19, <2>20, <2>21, <2>22, <2>23, <2>24
    DEF WindowInv
  <2>26. RecordInv'
    <3>1. RecordSessions
      BY <1>5 DEF RecordSessions, QuietSessions, QuietLives
    <3> QED BY <2>4, <2>6, <2>8, <3>1, RecordsKept
  <2> QED BY <2>5, <2>10, <2>25, <2>26 DEF IInv
<1> QED BY <1>7, <1>8, <1>9 DEF EventRead

-----------------------------------------------------------------------------
(***************************************************************************)
(* Every turn, and what happens outside of turns.                          *)
(***************************************************************************)

(* A turn of the event loop. *)
LEMMA TurnKeeps ==
    ASSUME IInv, Turn
    PROVE  IInv'
<1>1. PICK t : t = Head(loop.ready)
  OBVIOUS
<1>2. loop.ready # <<>> /\ UNCHANGED <<activity, parked, active, issued>> /\ OnTurn(t)
  BY <1>1, Parts DEF Turn, OnTurn
<1>3. Turn
  OBVIOUS
<1> DEFINE Own ==
        \/ ToggleStarts(t) \/ ToggleResumes(t) \/ StartRecording(t)
        \/ RecordingBegins(t) \/ RecordingUndone(t)
        \/ CancelStarts(t) \/ CancelDone(t)
        \/ TickStarts(t) \/ TickDrains(t) \/ TickSent(t)
        \/ Finalize(t) \/ LastChunkSent(t) \/ PreviewArrives(t)
        \/ AnswerStarts(t) \/ DecisionSent(t) \/ Confirmed(t)
        \/ Disconnects(t) \/ ScanStarts(t) \/ ScanResumes(t) \/ ScanPublished(t)
        \/ Installs(t)
<1>4. (Own /\ UNCHANGED <<life, event>>) \/ Connects(t) \/ Subscribes(t) \/ EventRead(t)
  BY <1>1, <1>3 DEF Turn
<1>5. CASE Own /\ UNCHANGED <<life, event>>
  <2>1. Aside
    BY <1>2, <1>5 DEF Aside
  <2>2. CASE ToggleStarts(t) \/ ToggleResumes(t) \/ StartRecording(t) \/ RecordingBegins(t)
             \/ RecordingUndone(t)
    BY <1>2, <2>1, <2>2, TurnToggleStarts, TurnToggleResumes, TurnStartRecording,
       TurnRecordingBegins, TurnRecordingUndone DEF QuietBy
  <2>3. CASE CancelStarts(t) \/ CancelDone(t) \/ TickStarts(t) \/ TickDrains(t) \/ TickSent(t)
    BY <1>2, <2>1, <2>3, TurnCancelStarts, TurnCancelDone, TurnTickStarts, TurnTickDrains,
       TurnTickSent DEF QuietBy
  <2>4. CASE Finalize(t) \/ LastChunkSent(t) \/ PreviewArrives(t) \/ AnswerStarts(t)
             \/ DecisionSent(t) \/ Confirmed(t)
    BY <1>2, <2>1, <2>4, TurnFinalize, TurnLastChunkSent, TurnPreviewArrives, TurnAnswerStarts,
       TurnDecisionSent, TurnConfirmed DEF QuietBy
  <2>5. CASE Disconnects(t) \/ ScanStarts(t) \/ ScanResumes(t) \/ ScanPublished(t) \/ Installs(t)
    BY <1>2, <2>1, <2>5, TurnDisconnects, TurnScanStarts, TurnScanResumes, TurnScanPublished,
       TurnInstalls DEF QuietBy
  <2> QED BY <1>5, <2>2, <2>3, <2>4, <2>5
<1> QED BY <1>2, <1>4, <1>5, TurnConnects, TurnSubscribes, TurnEventRead

\* A step outside the sessions and the state of the application.
Beside == UNCHANGED <<state, queue, sessionVars>>

(* A step beside the sessions and the fields is quiet about them. *)
LEMMA BesideTyped ==
    ASSUME IInv, Beside, activity' \in ActivityType
    PROVE  SessionsTyped /\ QuietSessions /\ QuietState
<1>1. UNCHANGED state /\ UNCHANGED <<life, parked, active, event, issued>>
  BY DEF Beside, sessionVars
<1>2. SessionsTyped
  BY <1>1, Parts DEF FieldsTyped, SessionsTyped
<1>3. QuietSessions
  BY <1>1, Parts DEF FieldsTyped, QuietSessions, QuietLives
<1> QED BY <1>1, <1>2, <1>3, SameState

(* What one waiting task gets from outside. *)
LEMMA OutsideMoves ==
    ASSUME IInv, NEW t \in Tasks,
           PermissionPolled(t) \/ CameraReturns(t) \/ HandshakeEnds(t)
    PROVE  \E r \in TaskType :
             /\ InPlace(loop', queue', parked', {}) /\ GrowsTo(loop.ready, loop'.ready)
             /\ loop'.task = [task EXCEPT ![t] = r]
             /\ \/ r = NoTask
                \/ /\ r.kind = task[t].kind /\ r.at = task[t].at /\ r.on = task[t].on
                   /\ r.id = task[t].id /\ r.valid = task[t].valid
                   /\ r.generation = task[t].generation
<1>1. AllInPlace /\ task[t] \in TaskType /\ Shaped(task[t]) /\ task \in [Tasks -> TaskType]
  BY Parts
<1>2. "permission" \in Stations /\ {"granted", "denied", "found", "failed", "over"} \subseteq Answers
  BY DEF Stations, Waits, Answers
<1>3. CASE PermissionPolled(t)
  <2>1. PICK a \in {"granted", "denied"} :
          loop'.task = [task EXCEPT ![t] = [Moved(task[t], "permission") EXCEPT !.answer = a]]
    BY <1>1, <1>3, PolledMoves
  <2>2. PICK x \in TaskType : x = Moved(task[t], "permission")
    BY <1>1, <1>2, MovedType
  <2>3. x.kind = task[t].kind /\ x.at = "permission" /\ x.on = task[t].on /\ x.id = task[t].id
        /\ x.valid = task[t].valid /\ x.generation = task[t].generation
    BY <1>1, <1>2, <2>2, MovedType
  <2>4. PICK r : r = WithAnswer(x, a)
    OBVIOUS
  <2>5. /\ r \in TaskType /\ r.kind = x.kind /\ r.at = x.at /\ r.on = x.on /\ r.id = x.id
        /\ r.valid = x.valid /\ r.generation = x.generation
    <3>1. a \in Answers
      BY <1>2
    <3> QED BY <2>4, <3>1, WithAnswerType
  <2>6. loop'.task = [task EXCEPT ![t] = r]
    BY <2>1, <2>2, <2>4 DEF WithAnswer
  <2>7. task[t].at = "permission"
    BY <1>3 DEF PermissionPolled, DialogTasks
  <2>8. InPlace(loop', queue', parked', {}) /\ GrowsTo(loop.ready, loop'.ready)
    BY <1>1, <1>3, PolledMoves
  <2> QED BY <2>3, <2>5, <2>6, <2>7, <2>8
<1>4. CASE CameraReturns(t)
  <2>1. PICK r \in {NoTask, WithAnswer(task[t], "found"), WithAnswer(task[t], "failed")} :
          loop'.task = [task EXCEPT ![t] = r]
    BY <1>1, <1>4, CameraMoves
  <2>2. InPlace(loop', queue', parked', {}) /\ GrowsTo(loop.ready, loop'.ready)
    BY <1>1, <1>4, CameraMoves
  <2>3. NoTask \in TaskType
    BY NoTaskType
  <2>4. \A a \in {"found", "failed"} :
          /\ WithAnswer(task[t], a) \in TaskType /\ WithAnswer(task[t], a).kind = task[t].kind
          /\ WithAnswer(task[t], a).at = task[t].at /\ WithAnswer(task[t], a).on = task[t].on
          /\ WithAnswer(task[t], a).id = task[t].id /\ WithAnswer(task[t], a).valid = task[t].valid
          /\ WithAnswer(task[t], a).generation = task[t].generation
    <3>1. \A a \in {"found", "failed"} : a \in Answers
      BY <1>2
    <3>2. PICK x \in TaskType : x = task[t]
      BY <1>1
    <3> QED BY <3>1, <3>2, WithAnswerType
  <2> QED BY <2>1, <2>2, <2>3, <2>4
<1>5. CASE HandshakeEnds(t)
  <2>4. PICK a \in Answers : a = "over"
    BY <1>2
  <2>1. PICK r : r = WithAnswer(task[t], a)
    OBVIOUS
  <2>2. /\ r \in TaskType /\ r.kind = task[t].kind /\ r.at = task[t].at /\ r.on = task[t].on
        /\ r.id = task[t].id /\ r.valid = task[t].valid /\ r.generation = task[t].generation
    BY <1>1, <2>1, WithAnswerType
  <2>3. /\ InPlace(loop', queue', parked', {}) /\ GrowsTo(loop.ready, loop'.ready)
        /\ loop'.task = [task EXCEPT ![t] = r]
    BY <1>1, <1>5, <2>1, <2>4, HandshakeMoves
  <2> QED BY <2>2, <2>3
<1> QED BY <1>3, <1>4, <1>5

(* One waiting task gets what it waits for from outside. *)
LEMMA OutsideKeeps ==
    ASSUME IInv, NEW t \in Tasks,
           PermissionPolled(t) \/ CameraReturns(t) \/ HandshakeEnds(t)
    PROVE  IInv'
<1>1. UNCHANGED <<uiVars, queue, sessionVars>> /\ task[t].answer = "none" /\ task[t].at \in Waits
  BY DEF PermissionPolled, CameraReturns, HandshakeEnds, DialogTasks, Waits
<1>2. Beside /\ UNCHANGED app /\ activity' \in ActivityType
  BY <1>1, Parts DEF Beside, uiVars
<1>3. SessionsTyped /\ QuietSessions /\ QuietState /\ QuietApp
  BY <1>2, BesideTyped, SameApp
<1>4. AllInPlace /\ task[t] \in TaskType /\ Shaped(task[t]) /\ task \in [Tasks -> TaskType]
  BY Parts
<1>7. PICK r \in TaskType :
        /\ InPlace(loop', queue', parked', {}) /\ GrowsTo(loop.ready, loop'.ready)
        /\ loop'.task = [task EXCEPT ![t] = r]
        /\ \/ r = NoTask
           \/ /\ r.kind = task[t].kind /\ r.at = task[t].at /\ r.on = task[t].on
              /\ r.id = task[t].id /\ r.valid = task[t].valid
              /\ r.generation = task[t].generation
  BY OutsideMoves
<1>8. AllInPlace' /\ LeavingKept
  <2>1. LeavingKept
    BY <1>7 DEF GrowsTo, LeavingKept, IInv, WindowInv
  <2> QED BY <1>7, <2>1, AllPrimed
<1>9. task'[t] = r /\ \A u \in Tasks \ {t} : task'[u] = task[u]
  <2>1. task' = [task EXCEPT ![t] = r]
    BY <1>7 DEF task
  <2> QED BY <1>4, <2>1
<1>10. \A u \in Tasks \ {t} : QuietShape(u) /\ QuietScan(u) /\ QuietRecord(u)
  <2>1. \A u \in Tasks \ {t} : Undisturbed(u)
    BY <1>9 DEF Undisturbed
  <2> QED BY <2>1, Parts, UndisturbedQuiet
<1>11. QuietShape(t) /\ QuietScan(t) /\ QuietRecord(t)
  <2>1. task[t].kind # "disconnect" /\ task[t].at \notin {"begin", "start"} \cup Takers
    BY <1>1, <1>4 DEF Shaped, Waits, Takers
  <2>2. CASE r = NoTask
    BY <1>9, <2>1, <2>2, OverQuiet
  <2>3. CASE /\ r.kind = task[t].kind /\ r.at = task[t].at /\ r.on = task[t].on
             /\ r.id = task[t].id /\ r.valid = task[t].valid
             /\ r.generation = task[t].generation
    <3>1. QuietShape(t)
      BY <1>4, <1>9, <2>3 DEF QuietShape, Shaped
    <3>2. QuietScan(t)
      BY <1>9, <2>3 DEF QuietScan, LiveScan, Reaches
    <3>3. QuietRecord(t)
      BY <1>9, <2>1, <2>3 DEF QuietRecord
    <3> QED BY <3>1, <3>2, <3>3
  <2> QED BY <1>7, <2>2, <2>3
<1> QED BY <1>3, <1>8, <1>10, <1>11, QuietStep

-----------------------------------------------------------------------------
(***************************************************************************)
(* Callbacks that post a task.                                             *)
(***************************************************************************)

\* The loop l is the one of this state, but for tickets and tokens that are lost.
Weakened(l) ==
    /\ InPlace(l, queue, parked, {}) /\ l.ready = loop.ready
    /\ \A u \in Tasks :
        /\ l.task[u].kind = task[u].kind /\ l.task[u].at = task[u].at /\ l.task[u].id = task[u].id
        /\ l.task[u].on = task[u].on /\ l.task[u].generation = task[u].generation
        /\ l.task[u].saw = task[u].saw /\ l.task[u].answer = task[u].answer
        /\ l.task[u].valid => task[u].valid
        /\ task[u] = NoTask => l.task[u] = NoTask

(* The loop itself is one. *)
LEMMA WeakStays ==
    ASSUME IInv
    PROVE  Weakened(loop)
BY Parts DEF Weakened, AllInPlace, task

(* Withdrawing the tickets of a kind leaves one, and none of that kind valid. *)
LEMMA WeakLoses ==
    ASSUME NEW l, Weakened(l), NEW kind
    PROVE  /\ Weakened(Outdated(l, kind))
           /\ \A u \in Tasks : Outdated(l, kind).task[u].kind = kind => ~Outdated(l, kind).task[u].valid
<1>1. PICK m : m = Outdated(l, kind)
  OBVIOUS
<1>2. InPlace(l, queue, parked, {}) /\ l.task \in [Tasks -> TaskType]
  BY LoopFields DEF Weakened, InPlace, Lined
<1>3. /\ InPlace(m, queue, parked, {}) /\ m.ready = l.ready
      /\ m.task = [u \in Tasks |-> OutdatedTask(l.task[u], kind)]
  BY <1>1, <1>2, OutdatedMoves
<1>4. ASSUME NEW u \in Tasks
      PROVE  /\ m.task[u].kind = l.task[u].kind /\ m.task[u].at = l.task[u].at
             /\ m.task[u].id = l.task[u].id /\ m.task[u].on = l.task[u].on
             /\ m.task[u].generation = l.task[u].generation
             /\ m.task[u].saw = l.task[u].saw /\ m.task[u].answer = l.task[u].answer
             /\ m.task[u].valid <=> l.task[u].valid /\ l.task[u].kind # kind
             /\ l.task[u] = NoTask => m.task[u] = NoTask
  <2>1. PICK x \in TaskType : x = l.task[u]
    BY <1>2
  <2>2. m.task[u] = OutdatedTask(x, kind)
    BY <1>3, <2>1
  <2> QED BY <2>1, <2>2, OutdatedType
<1>5. Weakened(m)
  BY <1>3, <1>4 DEF Weakened
<1> QED BY <1>1, <1>4, <1>5

\* A step of the window that posts no task.
LEMMA WeakKeeps ==
    ASSUME IInv, Weakened(loop'), Beside, activity' \in ActivityType, QuietApp
    PROVE  IInv'
<1>1. SessionsTyped /\ QuietSessions /\ QuietState
  BY BesideTyped
<1>2. queue' = queue /\ parked' = parked
  BY DEF Beside, sessionVars
<1>3. InPlace(loop', queue', parked', {})
  BY <1>2 DEF Weakened
<1>4. AllInPlace'
  BY <1>3, AllPrimed
<1>5. LeavingKept
  BY DEF Weakened, LeavingKept, IInv, WindowInv
<1>6. \A u \in Tasks : Undisturbed(u)
  BY DEF Weakened, Undisturbed, task
<1>7. \A u \in Tasks : QuietShape(u) /\ QuietScan(u) /\ QuietRecord(u)
  BY <1>6, Parts, UndisturbedQuiet
<1> QED BY <1>1, <1>4, <1>5, <1>7, QuietStep

(* A new task is a task. *)
LEMMA NewTaskType ==
    ASSUME NEW kind \in Kinds
    PROVE  /\ NewTask(kind, "start") \in TaskType /\ NewTask(kind, "start").kind = kind
           /\ NewTask(kind, "start").at = "start" /\ NewTask(kind, "start").id = NoId
           /\ NewTask(kind, "start").on = NoSession /\ NewTask(kind, "start").answer = "none"
<1>1. Nothing \in Dialogs /\ "none" \in Answers /\ "start" \in Stations /\ 0 \in Nat
  BY DEF Dialogs, Answers, Stations
<1> QED BY <1>1 DEF NewTask, NoTask, TaskType

\* Task t is posted.
Posts(t, new) ==
    /\ AllInPlace' /\ LeavingKept
    /\ task[t] = NoTask /\ task'[t] = new
    /\ \A u \in Tasks \ {t} : Undisturbed(u)
    /\ GrowsTo(loop.ready, loop'.ready)
    /\ Occurs(loop'.ready, t) /\ \A v : Occurs(loop.ready, v) => Before(loop'.ready, v, t)

(* Spawning from a weakened loop posts a task and leaves the others as they were. *)
LEMMA SpawnPosts ==
    ASSUME IInv, Room, NEW l, Weakened(l), NEW new \in TaskType, new.at = "start",
           loop' = Spawn(l, new), queue' = queue, parked' = parked
    PROVE  \E t \in Tasks :
             /\ Posts(t, new)
             /\ \A u \in Tasks \ {t} : task'[u] = l.task[u]
<1>1. InPlace(l, queue, parked, {}) /\ l.ready = loop.ready
      /\ \A u \in Tasks : task[u] = NoTask => l.task[u] = NoTask
  BY DEF Weakened
<1>2. PICK m : m = Spawn(l, new)
  OBVIOUS
<1>3. AllInPlace
  BY Parts
<1>4. /\ InPlace(m, queue, parked, {}) /\ GrowsTo(loop.ready, m.ready)
      /\ \E t \in Tasks :
            /\ task[t] = NoTask
            /\ m.task = [l.task EXCEPT ![t] = new]
            /\ Occurs(m.ready, t) /\ \A v : Occurs(loop.ready, v) => Before(m.ready, v, t)
  BY <1>1, <1>2, <1>3, SpawnMoves
<1>5. PICK t \in Tasks :
            /\ task[t] = NoTask
            /\ m.task = [l.task EXCEPT ![t] = new]
            /\ Occurs(m.ready, t) /\ \A v : Occurs(loop.ready, v) => Before(m.ready, v, t)
  BY <1>4
<1>6. loop' = m
  BY <1>2
<1>7. AllInPlace'
  <2>1. InPlace(loop', queue', parked', {})
    BY <1>4, <1>6
  <2> QED BY <2>1, AllPrimed
<1>8. LeavingKept
  BY <1>4, <1>6 DEF GrowsTo, LeavingKept, IInv, WindowInv
<1>9. l.task \in [Tasks -> TaskType]
  BY <1>1, LoopFields DEF InPlace, Lined
<1>10. task'[t] = new /\ \A u \in Tasks \ {t} : task'[u] = l.task[u]
  <2>1. task' = [l.task EXCEPT ![t] = new]
    BY <1>5, <1>6 DEF task
  <2> QED BY <1>9, <2>1
<1>11. \A u \in Tasks \ {t} : Undisturbed(u)
  BY <1>10 DEF Weakened, Undisturbed
<1>12. Posts(t, new)
  BY <1>4, <1>5, <1>6, <1>7, <1>8, <1>10, <1>11 DEF Posts
<1> QED BY <1>10, <1>12

(* A task that is neither a scan nor a disconnect is posted. *)
LEMMA PostKeeps ==
    ASSUME IInv, Room, NEW l, Weakened(l), NEW new \in TaskType, new.at = "start",
           new.kind \notin {"disconnect", "events", "scan"}, new.id = NoId, new.on = NoSession,
           loop' = Spawn(l, new), Beside, activity' \in ActivityType, QuietApp
    PROVE  IInv'
<1>1. SessionsTyped /\ QuietSessions /\ QuietState
  BY BesideTyped
<1>2. queue' = queue /\ parked' = parked
  BY DEF Beside, sessionVars
<1>3. PICK t \in Tasks : Posts(t, new)
  BY <1>2, SpawnPosts
<1>4. \A u \in Tasks \ {t} : QuietShape(u) /\ QuietScan(u) /\ QuietRecord(u)
  <2>1. \A u \in Tasks \ {t} : Undisturbed(u)
    BY <1>3 DEF Posts
  <2> QED BY <2>1, Parts, UndisturbedQuiet
<1>5. task'[t] = new /\ task[t].kind = "none"
  BY <1>3 DEF Posts, NoTask
<1>6. QuietShape(t)
  BY <1>5 DEF QuietShape, Shaped, HeldCalls, FreeCalls
<1>7. QuietScan(t)
  BY <1>5 DEF QuietScan
<1>8. QuietRecord(t)
  BY <1>5 DEF QuietRecord, Takers
<1>9. AllInPlace' /\ LeavingKept
  BY <1>3 DEF Posts
<1> QED BY <1>1, <1>4, <1>6, <1>7, <1>8, <1>9, QuietStep

(* The user disconnects. *)
LEMMA TapDisconnectKeeps ==
    ASSUME IInv, Room, TapDisconnect, Beside, UNCHANGED activity
    PROVE  IInv'
<1>1. PICK l : l = Outdated(loop, "scan")
  OBVIOUS
<1>2. Weakened(l) /\ \A u \in Tasks : l.task[u].kind = "scan" => ~l.task[u].valid
  BY <1>1, WeakStays, WeakLoses
<1>3. PICK new : new = NewTask("disconnect", "start")
  OBVIOUS
<1>4. new \in TaskType /\ new.kind = "disconnect" /\ new.at = "start" /\ new.id = NoId
      /\ new.on = NoSession
  BY <1>3, NewTaskType DEF Kinds
<1>5. loop' = Spawn(l, new) /\ queue' = queue /\ parked' = parked /\ app.remote_connected
      /\ app' = [app EXCEPT !.remote_connected = FALSE, !.input_pending = FALSE, !.is_busy = TRUE]
  BY <1>1, <1>3 DEF TapDisconnect, ScanCancelled, Beside, sessionVars
<1>6. PICK t \in Tasks : Posts(t, new) /\ \A u \in Tasks \ {t} : task'[u] = l.task[u]
  BY <1>2, <1>4, <1>5, SpawnPosts
<1>7. FieldsTyped /\ WindowInv /\ RecordInv /\ SessionsTyped /\ QuietSessions /\ QuietState
  BY Parts, BesideTyped
<1>8. \A u \in Tasks \ {t} : QuietShape(u) /\ QuietScan(u) /\ QuietRecord(u)
  <2>1. \A u \in Tasks \ {t} : Undisturbed(u)
    BY <1>6 DEF Posts
  <2> QED BY <2>1, <1>7, UndisturbedQuiet
<1>9. task'[t] = new /\ task[t].kind = "none" /\ LeavingKept /\ AllInPlace' /\ Occurs(loop'.ready, t)
  BY <1>6 DEF Posts, NoTask
<1>10. app' \in AppType /\ app'.remote_connected = FALSE
  BY <1>5, Parts DEF AppType
<1>11. NoneLeaving
  BY <1>5, <1>7 DEF WindowInv, NoneLeaving
<1>12. \A u \in Tasks : Leaving(u)' <=> u = t
  <2>1. Leaving(t)'
    BY <1>4, <1>9 DEF Leaving
  <2>2. \A u \in Tasks \ {t} : ~Leaving(u)'
    BY <1>8, <1>11 DEF QuietScan, NoneLeaving, Leaving
  <2> QED BY <2>1, <2>2
<1>13. \A u \in Tasks : ~LiveScan(u)'
  <2>1. ~LiveScan(t)'
    BY <1>4, <1>9 DEF LiveScan
  <2> QED BY <1>2, <1>6, <2>1 DEF LiveScan
<1>14. UNCHANGED <<state, life, event, active, issued>>
  BY DEF Beside, sessionVars
<1>15. FieldsTyped'
  <2>1. QuietShape(t)
    BY <1>4, <1>9 DEF QuietShape, Shaped, HeldCalls, FreeCalls
  <2> QED BY <1>7, <1>8, <1>10, <2>1, QuietFields DEF SessionsTyped, QuietState
<1>16. \A k \in 0 .. MaxSessions : BornUpTo(k)' => state'.generation + Spent' <= 2 * k
  <2>1. Spent = 1 /\ Spent' = 1
    BY <1>5, <1>9, <1>12 DEF Spent, NoneLeaving
  <2>2. \A k : BornUpTo(k)' <=> BornUpTo(k)
    BY <1>14 DEF BornUpTo
  <2> QED BY <1>7, <1>14, <2>1, <2>2 DEF WindowInv
<1>17. \A u \in Tasks : task'[u].on # NoSession => life'[task'[u].on] # "unborn"
  <2>1. \A u \in Tasks \ {t} : task'[u].on = task[u].on
    BY <1>6 DEF Posts, Undisturbed
  <2> QED BY <1>4, <1>7, <1>9, <1>14, <2>1 DEF WindowInv
<1>18. \A u \in Tasks : task'[u].kind = "events" =>
        /\ task'[u].generation <= state'.generation
        /\ task'[u].generation = state'.generation => state'.session \in {NoSession, task'[u].on}
  <2>1. \A u \in Tasks \ {t} : /\ task'[u].on = task[u].on /\ task'[u].kind = task[u].kind
                               /\ task'[u].generation = task[u].generation
    BY <1>6 DEF Posts, Undisturbed
  <2> QED BY <1>4, <1>7, <1>9, <1>14, <2>1 DEF WindowInv
<1>19. \A z \in Sessions : event'[z] = Disconnected => life'[z] = "ended"
  BY <1>7, <1>14 DEF WindowInv
<1>20. \A r, z \in Sessions : r < z /\ life'[z] # "unborn" => life'[r] # "unborn"
  BY <1>7, <1>14 DEF WindowInv
<1>21. state'.session # NoSession => life'[state'.session] # "unborn"
  BY <1>7, <1>14 DEF WindowInv
<1>22. \A d, e \in Tasks : Leaving(d)' /\ Leaving(e)' => d = e
  BY <1>12
<1>23. \A d \in Tasks : Leaving(d)' => Occurs(loop'.ready, d) /\ ~app'.remote_connected
  BY <1>9, <1>10, <1>12
<1>24. ~NoneLeaving'
  BY <1>12 DEF NoneLeaving
<1>25. WindowInv'
  BY <1>13, <1>16, <1>17, <1>18, <1>19, <1>20, <1>21, <1>22, <1>23, <1>24 DEF WindowInv
<1>26. RecordInv'
  <2>1. QuietRecord(t)
    BY <1>4, <1>9 DEF QuietRecord, Takers
  <2> QED BY <1>7, <1>8, <2>1, QuietRecords
<1> QED BY <1>9, <1>15, <1>25, <1>26 DEF IInv

(* The user scans for a desktop. *)
LEMMA TapScanKeeps ==
    ASSUME IInv, Room, TapScan, Beside, UNCHANGED activity
    PROVE  IInv'
<1>1. PICK l : l = Outdated(loop, "scan")
  OBVIOUS
<1>2. Weakened(l) /\ \A u \in Tasks : l.task[u].kind = "scan" => ~l.task[u].valid
  BY <1>1, WeakStays, WeakLoses
<1>3. PICK new : new = NewTask("scan", "start")
  OBVIOUS
<1>4. new \in TaskType /\ new.kind = "scan" /\ new.at = "start" /\ new.id = NoId
      /\ new.on = NoSession
  BY <1>3, NewTaskType DEF Kinds
<1>5. loop' = Spawn(l, new) /\ queue' = queue /\ parked' = parked /\ ~app.remote_connected
      /\ app' = [app EXCEPT !.is_busy = TRUE]
  BY <1>1, <1>3 DEF TapScan, ScanCancelled, Beside, sessionVars
<1>6. PICK t \in Tasks : Posts(t, new) /\ \A u \in Tasks \ {t} : task'[u] = l.task[u]
  BY <1>2, <1>4, <1>5, SpawnPosts
<1>7. FieldsTyped /\ WindowInv /\ RecordInv /\ SessionsTyped /\ QuietSessions /\ QuietState
  BY Parts, BesideTyped
<1>8. \A u \in Tasks \ {t} : QuietShape(u) /\ QuietScan(u) /\ QuietRecord(u)
  <2>1. \A u \in Tasks \ {t} : Undisturbed(u)
    BY <1>6 DEF Posts
  <2> QED BY <2>1, <1>7, UndisturbedQuiet
<1>9. task'[t] = new /\ task[t].kind = "none" /\ LeavingKept /\ AllInPlace'
      /\ \A v : Occurs(loop.ready, v) => Before(loop'.ready, v, t)
  BY <1>6 DEF Posts, NoTask
<1>10. app' \in AppType /\ app'.remote_connected = app.remote_connected
  BY <1>5, Parts DEF AppType
<1>11. \A u \in Tasks : Leaving(u)' <=> Leaving(u)
  <2>1. ~Leaving(t)' /\ ~Leaving(t)
    BY <1>4, <1>9 DEF Leaving
  <2>2. \A u \in Tasks \ {t} : Leaving(u)' <=> Leaving(u)
    BY <1>8 DEF QuietScan, Leaving
  <2> QED BY <2>1, <2>2
<1>12. NoneLeaving' <=> NoneLeaving
  BY <1>11 DEF NoneLeaving
<1>13. \A u \in Tasks : LiveScan(u)' => u = t
  BY <1>2, <1>6 DEF LiveScan
<1>14. UNCHANGED <<state, life, event, active, issued>>
  BY DEF Beside, sessionVars
<1>15. FieldsTyped'
  <2>1. QuietShape(t)
    BY <1>4, <1>9 DEF QuietShape, Shaped, HeldCalls, FreeCalls
  <2> QED BY <1>7, <1>8, <1>10, <2>1, QuietFields DEF SessionsTyped, QuietState
<1>16. \A k \in 0 .. MaxSessions : BornUpTo(k)' => state'.generation + Spent' <= 2 * k
  <2>1. Spent' = Spent
    BY <1>10, <1>12 DEF Spent
  <2>2. \A k : BornUpTo(k)' <=> BornUpTo(k)
    BY <1>14 DEF BornUpTo
  <2> QED BY <1>7, <1>14, <2>1, <2>2 DEF WindowInv
<1>17. \A u \in Tasks : task'[u].on # NoSession => life'[task'[u].on] # "unborn"
  <2>1. \A u \in Tasks \ {t} : task'[u].on = task[u].on
    BY <1>6 DEF Posts, Undisturbed
  <2> QED BY <1>4, <1>7, <1>9, <1>14, <2>1 DEF WindowInv
<1>18. \A u \in Tasks : task'[u].kind = "events" =>
        /\ task'[u].generation <= state'.generation
        /\ task'[u].generation = state'.generation => state'.session \in {NoSession, task'[u].on}
  <2>1. \A u \in Tasks \ {t} : /\ task'[u].on = task[u].on /\ task'[u].kind = task[u].kind
                               /\ task'[u].generation = task[u].generation
    BY <1>6 DEF Posts, Undisturbed
  <2> QED BY <1>4, <1>7, <1>9, <1>14, <2>1 DEF WindowInv
<1>19. \A z \in Sessions : event'[z] = Disconnected => life'[z] = "ended"
  BY <1>7, <1>14 DEF WindowInv
<1>20. \A r, z \in Sessions : r < z /\ life'[z] # "unborn" => life'[r] # "unborn"
  BY <1>7, <1>14 DEF WindowInv
<1>21. state'.session # NoSession => life'[state'.session] # "unborn"
  BY <1>7, <1>14 DEF WindowInv
<1>22. \A d, e \in Tasks : Leaving(d)' /\ Leaving(e)' => d = e
  BY <1>7, <1>11 DEF WindowInv
<1>23. \A d \in Tasks : Leaving(d)' => Occurs(loop'.ready, d) /\ ~app'.remote_connected
  BY <1>7, <1>9, <1>10, <1>11 DEF WindowInv, LeavingKept
<1>24. \A d, u \in Tasks : Leaving(d)' /\ LiveScan(u)' =>
          task'[u].at = "start" /\ Before(loop'.ready, d, u)
  BY <1>4, <1>7, <1>9, <1>11, <1>13 DEF WindowInv
<1>25. NoneLeaving' => (app'.remote_connected <=> state'.session # NoSession)
  BY <1>7, <1>10, <1>12, <1>14 DEF WindowInv
<1>26. \A u \in Tasks : LiveScan(u)' /\ NoneLeaving' => state'.session = NoSession
  BY <1>5, <1>7, <1>12, <1>14 DEF WindowInv
<1>27. \A u \in Tasks : ~(LiveScan(u)' /\ Reaches(u)')
  BY <1>4, <1>9, <1>13 DEF Reaches
<1>28. \A u, v \in Tasks : LiveScan(u)' /\ LiveScan(v)' => u = v
  BY <1>13
<1>29. WindowInv'
  BY <1>16, <1>17, <1>18, <1>19, <1>20, <1>21, <1>22, <1>23, <1>24, <1>25, <1>26, <1>27, <1>28
  DEF WindowInv
<1>30. RecordInv'
  <2>1. QuietRecord(t)
    BY <1>4, <1>9 DEF QuietRecord, Takers
  <2> QED BY <1>7, <1>8, <2>1, QuietRecords
<1> QED BY <1>9, <1>15, <1>29, <1>30 DEF IInv

-----------------------------------------------------------------------------
(***************************************************************************)
(* The callbacks.                                                          *)
(***************************************************************************)

(* The task that cancels what there is. *)
LEMMA CancelPosted ==
    ASSUME IInv, Room, NEW l, Weakened(l), NEW a \in AppType,
           a.remote_connected = app.remote_connected, CancelsRequest(l, a),
           Beside, activity' \in ActivityType
    PROVE  IInv'
<1>1. PICK m : m = Outdated(l, "toggle")
  OBVIOUS
<1>2. Weakened(m)
  BY <1>1, WeakLoses
<1>3. PICK new : new = NewTask("cancel", "start")
  OBVIOUS
<1>4. new \in TaskType /\ new.kind = "cancel" /\ new.at = "start" /\ new.id = NoId
      /\ new.on = NoSession
  BY <1>3, NewTaskType DEF Kinds
<1>5. loop' = Spawn(m, new)
      /\ app' = [a EXCEPT !.input_pending = FALSE, !.voice_recording = FALSE, !.is_busy = TRUE]
  BY <1>1, <1>3 DEF CancelsRequest, Advanced
<1>6. QuietApp
  BY <1>5 DEF QuietApp, AppType
<1> QED BY <1>2, <1>4, <1>5, <1>6, PostKeeps

(* Every tap of the user keeps the invariant. *)
LEMMA TapsKeep ==
    ASSUME IInv, Taps
    PROVE  IInv'
<1>1. Room /\ UNCHANGED <<state, activity, queue, sessionVars>>
  BY DEF Taps
<1>2. Beside /\ UNCHANGED activity /\ activity' \in ActivityType /\ app \in AppType /\ Weakened(loop)
  BY <1>1, Parts, WeakStays DEF Beside
<1>3. CASE TapMicrophone
  <2>1. PICK new : new = NewTask("toggle", "start")
    OBVIOUS
  <2>2. new \in TaskType /\ new.kind = "toggle" /\ new.at = "start" /\ new.id = NoId
        /\ new.on = NoSession
    BY <2>1, NewTaskType DEF Kinds
  <2>3. loop' = Spawn(loop, new) /\ QuietApp
    BY <1>3, <2>1, SameApp DEF TapMicrophone
  <2> QED BY <1>1, <1>2, <2>2, <2>3, PostKeeps
<1>4. CASE TapCancel
  BY <1>1, <1>2, <1>4, CancelPosted DEF TapCancel
<1>5. CASE TapDialog
  <2>1. PICK x : x = NewTask("answer", "start")
    OBVIOUS
  <2>2. x \in TaskType /\ x.kind = "answer" /\ x.at = "start" /\ x.id = NoId /\ x.on = NoSession
    BY <2>1, NewTaskType DEF Kinds
  <2>3. PICK new : new = [x EXCEPT !.saw = app.dialog]
    OBVIOUS
  <2>4. app.dialog \in Dialogs
    BY <1>2 DEF AppType
  <2>5. new \in TaskType /\ new.kind = "answer" /\ new.at = "start" /\ new.id = NoId
        /\ new.on = NoSession
    BY <2>2, <2>3, <2>4 DEF TaskType
  <2>6. loop' = Spawn(loop, new) /\ QuietApp
    BY <1>5, <2>1, <2>3, SameApp DEF TapDialog
  <2> QED BY <1>1, <1>2, <2>5, <2>6, PostKeeps
<1>6. CASE TapDisconnect
  BY <1>1, <1>2, <1>6, TapDisconnectKeeps
<1>7. CASE TapCancelScan
  <2>1. Weakened(loop')
    BY <1>2, <1>7, WeakLoses DEF TapCancelScan, ScanCancelled
  <2>2. PICK a \in AppType : a = Idle(app) /\ a.remote_connected = app.remote_connected
    BY <1>2, AppKept
  <2>3. app' = [a EXCEPT !.remote_scanning = FALSE]
    BY <1>7, <2>2 DEF TapCancelScan
  <2>4. QuietApp
    BY <2>2, <2>3 DEF QuietApp, AppType
  <2> QED BY <1>2, <2>1, <2>4, WeakKeeps
<1>8. CASE TapScan
  BY <1>1, <1>2, <1>8, TapScanKeeps
<1> QED BY <1>3, <1>4, <1>5, <1>6, <1>7, <1>8 DEF Taps

(* The recording timer keeps the invariant. *)
LEMMA TickKeeps ==
    ASSUME IInv, TickDue
    PROVE  IInv'
<1>1. Room /\ UNCHANGED <<uiVars, queue, sessionVars>> /\ loop' = Spawn(loop, NewTask("tick", "start"))
  BY DEF TickDue
<1>2. Beside /\ UNCHANGED <<activity, app>> /\ activity' \in ActivityType /\ Weakened(loop)
  BY <1>1, Parts, WeakStays DEF Beside, uiVars
<1>3. PICK new : new = NewTask("tick", "start")
  OBVIOUS
<1>4. new \in TaskType /\ new.kind = "tick" /\ new.at = "start" /\ new.id = NoId
      /\ new.on = NoSession
  BY <1>3, NewTaskType DEF Kinds
<1>5. QuietApp
  BY <1>2, SameApp
<1> QED BY <1>1, <1>2, <1>3, <1>4, <1>5, PostKeeps

(* Going to the background keeps the invariant. *)
LEMMA BackgroundKeeps ==
    ASSUME IInv, Backgrounded, Beside, activity' \in ActivityType
    PROVE  IInv'
<1>1. PICK l : l = IF app.remote_connected THEN loop ELSE Outdated(loop, "scan")
  OBVIOUS
<1>2. Weakened(l)
  BY <1>1, WeakStays, WeakLoses
<1>3. PICK a : a = IF app.remote_connected THEN app ELSE [Idle(app) EXCEPT !.remote_scanning = FALSE]
  OBVIOUS
<1>4. a \in AppType /\ a.remote_connected = app.remote_connected
  <2>1. PICK b \in AppType : b = Idle(app) /\ b.remote_connected = app.remote_connected
    BY Parts, AppKept
  <2>2. app \in AppType
    BY Parts
  <2>3. CASE a = [b EXCEPT !.remote_scanning = FALSE]
    BY <2>1, <2>3 DEF AppType
  <2> QED BY <1>3, <2>1, <2>2, <2>3
<1>5. CASE Room /\ CancelsRequest(l, a)
  BY <1>2, <1>4, <1>5, CancelPosted
<1>6. CASE loop' = l /\ app' = a
  BY <1>2, <1>4, <1>6, WeakKeeps DEF QuietApp
<1> QED BY <1>1, <1>3, <1>5, <1>6 DEF Backgrounded, ScanCancelled

(* The activity in another phase is an activity. *)
LEMMA PhaseType ==
    ASSUME IInv, NEW phase \in {"resumed", "paused for dialog", "paused", "stopped"},
           activity' = [activity EXCEPT !.phase = phase]
    PROVE  activity' \in ActivityType
BY Parts DEF ActivityType

(* Pausing, stopping and resuming the activity keep the invariant. *)
LEMMA LifeCycleKeeps ==
    ASSUME IInv, Pause \/ Stop \/ Resume
    PROVE  IInv'
<1>1. CASE Pause
  <2>1. Beside
    BY <1>1 DEF Pause, Beside
  <2>2. CASE activity' = [activity EXCEPT !.phase = "paused"] /\ Backgrounded
    BY <2>1, <2>2, PhaseType, BackgroundKeeps
  <2>3. CASE activity' = [activity EXCEPT !.phase = "paused for dialog"] /\ UNCHANGED <<loop, app>>
    <3>1. Weakened(loop')
      BY <2>3, WeakStays
    <3> QED BY <2>1, <2>3, <3>1, PhaseType, SameApp, WeakKeeps
  <2> QED BY <1>1, <2>2, <2>3 DEF Pause
<1>2. CASE Stop
  <2>1. Beside /\ Backgrounded /\ activity' = [activity EXCEPT !.phase = "stopped"]
    BY <1>2 DEF Stop, Beside
  <2> QED BY <2>1, PhaseType, BackgroundKeeps
<1>3. CASE Resume
  <2>1. Beside /\ UNCHANGED <<app, loop>>
    BY <1>3 DEF Resume, Beside
  <2>2. PICK granted \in SUBSET {Asked(t) : t \in DialogTasks} :
          activity' = [phase |-> "resumed", permits |-> activity.permits \cup granted]
    BY <1>3 DEF Resume
  <2>3. \A t : Asked(t) \in {"camera", "microphone"}
    BY DEF Asked
  <2>4. granted \in SUBSET {"camera", "microphone"}
    BY <2>2, <2>3
  <2>5. activity' \in ActivityType
    BY <2>2, <2>4, Parts DEF ActivityType
  <2>6. Weakened(loop')
    BY <2>1, WeakStays
  <2> QED BY <2>1, <2>5, <2>6, SameApp, WeakKeeps
<1> QED BY <1>1, <1>2, <1>3

(* Every callback of the window and of the activity keeps the invariant. *)
LEMMA CallbacksKeep ==
    ASSUME IInv, Callbacks
    PROVE  IInv'
BY TapsKeep, TickKeeps, LifeCycleKeeps DEF Callbacks

-----------------------------------------------------------------------------
(***************************************************************************)
(* The sessions: what answering their callers does.                        *)
(***************************************************************************)

\* What a session does to a task: it may answer it, but gives no new upload.
Answered(u) ==
    /\ task'[u].kind = task[u].kind /\ task'[u].at = task[u].at /\ task'[u].id = task[u].id
    /\ task'[u].on = task[u].on /\ task'[u].generation = task[u].generation
    /\ task'[u].valid = task[u].valid
    /\ task'[u].at = "begin" /\ task'[u].answer = "ok" => task[u].answer = "ok"

(* A task that is only answered is quiet. *)
LEMMA AnsweredQuiet ==
    ASSUME FieldsTyped, NEW u \in Tasks, Answered(u)
    PROVE  QuietShape(u) /\ QuietScan(u) /\ QuietRecord(u)
<1>1. QuietShape(u)
  BY DEF FieldsTyped, Shaped, Answered, QuietShape
<1>2. QuietScan(u)
  BY DEF Answered, QuietScan, LiveScan, Reaches
<1>3. QuietRecord(u)
  BY DEF Answered, QuietRecord, Fresh
<1> QED BY <1>1, <1>2, <1>3

(* A step of a session that only answers tasks keeps the invariant. *)
LEMMA SessionKeeps ==
    ASSUME IInv, UNCHANGED uiVars, InPlace(loop', queue', parked', {}),
           GrowsTo(loop.ready, loop'.ready), \A u \in Tasks : Answered(u),
           SessionsTyped, QuietSessions
    PROVE  IInv'
<1>1. AllInPlace'
  BY AllPrimed
<1>2. LeavingKept
  BY DEF GrowsTo, LeavingKept, IInv, WindowInv
<1>3. QuietState /\ QuietApp
  BY SameState, SameApp DEF uiVars
<1>4. \A u \in Tasks : QuietShape(u) /\ QuietScan(u) /\ QuietRecord(u)
  BY Parts, AnsweredQuiet
<1> QED BY <1>1, <1>2, <1>3, <1>4, QuietStep

(* Several tasks are woken with one answer. *)
LEMMA WokenSets ==
    ASSUME NEW l \in LoopType, NEW ts \in Seq(Tasks), NEW a \in Answers
    PROVE  /\ Woken(l, ts, a) \in LoopType
           /\ Woken(l, ts, a).ready = l.ready \o ts /\ Woken(l, ts, a).gate = l.gate
           /\ \A u \in Tasks : Woken(l, ts, a).task[u] =
                IF Occurs(ts, u) THEN WithAnswer(l.task[u], a) ELSE l.task[u]
<1>1. PICK f : f = [u \in Tasks |-> IF u \in ToSet(ts) THEN WithAnswer(l.task[u], a) ELSE l.task[u]]
  OBVIOUS
<1>2. l.task \in [Tasks -> TaskType] /\ l.ready \in Seq(Tasks)
  BY LoopFields
<1>3. f \in [Tasks -> TaskType]
  <2>1. \A u \in Tasks : WithAnswer(l.task[u], a) \in TaskType
    BY <1>2, WithAnswerType
  <2> QED BY <1>1, <1>2, <2>1
<1>4. PICK m : m = Woken(l, ts, a)
  OBVIOUS
<1>5. m = [l EXCEPT !.ready = l.ready \o ts, !.task = f]
  BY <1>1, <1>4 DEF Woken, WithAnswer
<1>6. l.ready \o ts \in Seq(Tasks)
  BY <1>2, ConcatOccurs
<1>7. m \in LoopType /\ m.ready = l.ready \o ts /\ m.gate = l.gate /\ m.task = f
  BY <1>3, <1>5, <1>6 DEF LoopType
<1>8. \A u \in Tasks : f[u] = IF Occurs(ts, u) THEN WithAnswer(l.task[u], a) ELSE l.task[u]
  BY <1>1, ToSetOccurs
<1> QED BY <1>4, <1>7, <1>8

(* Any set of tasks can be laid out. *)
LEMMA PartFinite ==
    ASSUME NEW S \in SUBSET Tasks
    PROVE  /\ SetToSeq(S) \in Seq(Tasks) /\ IsInjective(SetToSeq(S))
           /\ \A x : Occurs(SetToSeq(S), x) <=> x \in S
<1>1. IsFiniteSet(S)
  BY AppAssumption, FS_Subset
<1>2. SetToSeq(S) \in Seq(S) /\ IsInjective(SetToSeq(S)) /\ \A x : Occurs(SetToSeq(S), x) <=> x \in S
  BY <1>1, SetToSeqOccurs
<1>3. Seq(S) \subseteq Seq(Tasks)
  OBVIOUS
<1> QED BY <1>2, <1>3

\* The tasks whose reply a session keeps, and that is about ids.
KeptTasks(s, ids) ==
    {t \in parked : task[t].on = s /\ task[t].at \in {"finishing", "confirming"} /\ task[t].id \in ids}

(* Kept lays out the calls of KeptTasks. *)
LEMMA KeptOccurs ==
    ASSUME parked \subseteq Tasks, NEW s, NEW ids
    PROVE  /\ Kept(s, ids) \in Seq(Tasks) /\ IsInjective(Kept(s, ids))
           /\ \A x : Occurs(Kept(s, ids), x) <=> x \in KeptTasks(s, ids)
<1>1. PICK A \in SUBSET Tasks : A = {t \in ParkedAt(s, "finishing") : task[t].id \in ids}
  BY DEF ParkedAt
<1>2. PICK B \in SUBSET Tasks : B = {t \in ParkedAt(s, "confirming") : task[t].id \in ids}
  BY DEF ParkedAt
<1>3. Kept(s, ids) = SetToSeq(A) \o SetToSeq(B)
  BY <1>1, <1>2 DEF Kept
<1>4. /\ SetToSeq(A) \in Seq(Tasks) /\ IsInjective(SetToSeq(A))
      /\ \A x : Occurs(SetToSeq(A), x) <=> x \in A
  BY PartFinite
<1>5. /\ SetToSeq(B) \in Seq(Tasks) /\ IsInjective(SetToSeq(B))
      /\ \A x : Occurs(SetToSeq(B), x) <=> x \in B
  BY PartFinite
<1>6. \A x : ~(x \in A /\ x \in B)
  BY <1>1, <1>2 DEF ParkedAt
<1>7. PICK a, b : a = SetToSeq(A) /\ b = SetToSeq(B)
  OBVIOUS
<1>8. /\ a \o b \in Seq(Tasks) /\ IsInjective(a \o b)
      /\ \A y : Occurs(a \o b, y) <=> y \in A \/ y \in B
  BY <1>4, <1>5, <1>6, <1>7, ConcatOccurs
<1>9. \A x : x \in KeptTasks(s, ids) <=> x \in A \/ x \in B
  BY <1>1, <1>2 DEF KeptTasks, ParkedAt
<1> QED BY <1>3, <1>7, <1>8, <1>9

\* The reader of a session's events, when it waits for the next.
Watching(s) == {t \in Tasks : ~Occurs(loop.ready, t) /\ task[t].kind = "events" /\ task[t].on = s}

(* Watcher lays out the tasks of Watching. *)
LEMMA WatcherOccurs ==
    ASSUME loop.ready \in Seq(Tasks), NEW s
    PROVE  /\ Watcher(s) \in Seq(Tasks) /\ IsInjective(Watcher(s))
           /\ \A x : Occurs(Watcher(s), x) <=> x \in Watching(s)
<1>1. PICK W \in SUBSET Tasks :
        W = {t \in Tasks \ ToSet(loop.ready) : task[t].kind = "events" /\ task[t].on = s}
  OBVIOUS
<1>2. Watcher(s) = SetToSeq(W)
  BY <1>1 DEF Watcher
<1>3. \A x : x \in W <=> x \in Watching(s)
  BY <1>1, ToSetOccurs DEF Watching
<1> QED BY <1>2, <1>3, PartFinite

\* Where the tasks are that a session may wake.
LEMMA WhereTasksAre ==
    ASSUME IInv, NEW u \in Tasks
    PROVE  /\ Placed(loop, queue, parked, {}, u)
           /\ AtGate(task[u]) <=> Occurs(loop.gate, u)
           /\ \A s \in Sessions : Occurs(queue[s], u) =>
                task[u].on = s /\ task[u].at \in HeldCalls \cup FreeCalls
                /\ ~Occurs(loop.ready, u) /\ u \notin parked
           /\ u \in parked => task[u].at \in {"finishing", "confirming"} /\ ~Occurs(loop.ready, u)
           /\ \A s : u \in Watching(s) => task[u].at = "changed" /\ ~Occurs(loop.ready, u)
<1>1. Placed(loop, queue, parked, {}, u) /\ Shaped(task[u])
  BY Parts DEF AllInPlace, InPlace
<1>2. /\ AtGate(task[u]) <=> Occurs(loop.gate, u)
      /\ \A s \in Sessions : Occurs(queue[s], u) =>
            task[u].on = s /\ task[u].at \in HeldCalls \cup FreeCalls
            /\ ~Occurs(loop.ready, u) /\ u \notin parked
      /\ u \in parked => task[u].at \in {"finishing", "confirming"} /\ ~Occurs(loop.ready, u)
  BY <1>1 DEF Placed, task
<1>3. \A s : u \in Watching(s) => task[u].at = "changed" /\ ~Occurs(loop.ready, u)
  BY <1>1 DEF Watching, Shaped
<1> QED BY <1>1, <1>2, <1>3

-----------------------------------------------------------------------------
(***************************************************************************)
(* The sessions: one command answered.                                     *)
(***************************************************************************)

(* A session takes its next command. *)
LEMMA CommandTaken ==
    ASSUME IInv, NEW s \in Sessions, queue[s] # <<>>, Head(queue[s]) # Shutdown,
           NEW t, t = Head(queue[s])
    PROVE  /\ t \in Tasks /\ InPlace(loop, [queue EXCEPT ![s] = Tail(@)], parked, {t})
           /\ task[t].on = s /\ task[t].at \in HeldCalls \cup FreeCalls
           /\ AtGate(task[t]) <=> Occurs(loop.gate, t)
           /\ t \notin parked /\ ~Occurs(loop.ready, t)
<1>1. AllInPlace /\ queue[s] \in Seq(Tasks \cup {Shutdown}) /\ Shutdown \notin Tasks
  BY Parts, LoopTyped
<1>2. Occurs(queue[s], t) /\ t = queue[s][1] /\ t \in Tasks
  BY <1>1, HeadOccurs
<1>3. PICK q2, E : q2 = [queue EXCEPT ![s] = Tail(@)] /\ E = {}
  OBVIOUS
<1>4. InPlace(loop, q2, parked, E \cup {t})
  <2>1. InPlace(loop, queue, parked, E)
    BY <1>1, <1>3 DEF AllInPlace
  <2> QED BY <1>1, <1>2, <1>3, <2>1, Dequeues
<1>5. InPlace(loop, [queue EXCEPT ![s] = Tail(@)], parked, {t})
  <2>1. E \cup {t} = {t}
    BY <1>3
  <2> QED BY <1>3, <1>4, <2>1
<1> QED BY <1>2, <1>5, WhereTasksAre

(* A task whose call is answered. *)
LEMMA WakesCaller ==
    ASSUME NEW l, NEW q, NEW p, NEW t \in Tasks, InPlace(l, q, p, {t}),
           l.task[t].at # "none", Steady(l, t), NEW a \in Answers, a # "none"
    PROVE  /\ InPlace(Wake(l, t, a), q, p, {})
           /\ Wake(l, t, a).task = [l.task EXCEPT ![t] = WithAnswer(l.task[t], a)]
           /\ GrowsTo(l.ready, Wake(l, t, a).ready)
<1>1. PICK T : T = {t}
  OBVIOUS
<1>2. InPlace(l, q, p, T) /\ t \in T
  BY <1>1
<1>3. a \in Answers /\ a # "none" /\ l.task[t].at # "none"
  OBVIOUS
<1>4. /\ InPlace(Wake(l, t, a), q, p, T \ {t})
      /\ Wake(l, t, a).task = [l.task EXCEPT ![t] = WithAnswer(l.task[t], a)]
      /\ GrowsTo(l.ready, Wake(l, t, a).ready)
  BY <1>2, <1>3, WakeMoves
<1>5. T \ {t} = {}
  BY <1>1
<1> QED BY <1>4, <1>5

(* Answering one task, not with an upload begun, is an answer to each. *)
LEMMA AnsweredOne ==
    ASSUME IInv, NEW t \in Tasks, NEW a \in Answers,
           task' = [task EXCEPT ![t] = WithAnswer(task[t], a)], a = "ok" => task[t].at # "begin"
    PROVE  \A u \in Tasks : Answered(u)
<1>1. task \in [Tasks -> TaskType] /\ task[t] \in TaskType
  BY Parts
<1>2. task'[t] = WithAnswer(task[t], a) /\ \A u \in Tasks \ {t} : task'[u] = task[u]
  BY <1>1
<1>3. PICK x : x = WithAnswer(task[t], a)
  OBVIOUS
<1>4. /\ x.answer = a /\ x.kind = task[t].kind /\ x.at = task[t].at
      /\ x.on = task[t].on /\ x.id = task[t].id
      /\ x.valid = task[t].valid /\ x.generation = task[t].generation
  BY <1>1, <1>3, WithAnswerType
<1>5. Answered(t)
  BY <1>2, <1>3, <1>4 DEF Answered
<1>6. \A u \in Tasks \ {t} : Answered(u)
  BY <1>2 DEF Answered
<1> QED BY <1>5, <1>6

(* A command is answered at once. *)
LEMMA AnswerAtOnce ==
    ASSUME IInv, NEW s \in Sessions, queue[s] # <<>>, Head(queue[s]) # Shutdown,
           NEW t, t = Head(queue[s]), queue' = [queue EXCEPT ![s] = Tail(@)],
           NEW a \in {"ok", "error"}, loop' = Wake(loop, t, a), a = "ok" => task[t].at # "begin",
           UNCHANGED parked, UNCHANGED uiVars, SessionsTyped, QuietSessions
    PROVE  IInv'
<1>1. /\ t \in Tasks /\ InPlace(loop, queue', parked, {t})
      /\ task[t].at \in HeldCalls \cup FreeCalls /\ (AtGate(task[t]) <=> Occurs(loop.gate, t))
  BY CommandTaken
<1>2. /\ InPlace(loop', queue', parked', {})
      /\ task' = [task EXCEPT ![t] = WithAnswer(task[t], a)]
      /\ GrowsTo(loop.ready, loop'.ready)
  <2>1. t \in Tasks /\ InPlace(loop, queue', parked, {t}) /\ loop.task[t].at # "none"
    BY <1>1 DEF task, HeldCalls, FreeCalls
  <2>4. PICK b \in Answers : b = a
    BY DEF Answers
  <2>5. b # "none"
    BY <2>4
  <2>2. Steady(loop, t)
    BY <1>1 DEF task, Steady
  <2>6. PICK q : q = queue'
    OBVIOUS
  <2>7. InPlace(loop, q, parked, {t})
    BY <2>1, <2>6
  <2>3. /\ InPlace(Wake(loop, t, b), q, parked, {})
        /\ Wake(loop, t, b).task = [loop.task EXCEPT ![t] = WithAnswer(loop.task[t], b)]
        /\ GrowsTo(loop.ready, Wake(loop, t, b).ready)
    BY <2>1, <2>2, <2>5, <2>7, WakesCaller
  <2> QED BY <2>3, <2>4, <2>6 DEF task
<1>3. a \in Answers
  BY DEF Answers
<1>4. \A u \in Tasks : Answered(u)
  BY <1>1, <1>2, <1>3, AnsweredOne
<1> QED BY <1>2, <1>4, SessionKeeps

(* A command is kept for a preview or a status. *)
LEMMA AnswerKept ==
    ASSUME IInv, NEW s \in Sessions, queue[s] # <<>>, Head(queue[s]) # Shutdown,
           NEW t, t = Head(queue[s]), queue' = [queue EXCEPT ![s] = Tail(@)],
           task[t].at \in {"finishing", "confirming"},
           parked' = parked \cup {t}, UNCHANGED loop, UNCHANGED uiVars, SessionsTyped, QuietSessions
    PROVE  IInv'
<1>1. t \in Tasks /\ InPlace(loop, queue', parked, {t}) /\ (AtGate(task[t]) <=> Occurs(loop.gate, t))
  BY CommandTaken
<1>2. PICK T : T = {t}
  OBVIOUS
<1>3. InPlace(loop, queue', parked \cup {t}, T \ {t})
  BY <1>1, <1>2, Parks DEF task
<1>4. T \ {t} = {}
  BY <1>2
<1>5. InPlace(loop', queue', parked', {})
  BY <1>3, <1>4
<1>6. \A u \in Tasks : Answered(u)
  BY DEF Answered, task
<1>7. GrowsTo(loop.ready, loop'.ready)
  BY DEF GrowsTo
<1> QED BY <1>5, <1>6, <1>7, SessionKeeps

(* The kept replies about a request are given, and then the command's. *)
LEMMA AnswerCancel ==
    ASSUME IInv, NEW s \in Sessions, queue[s] # <<>>, Head(queue[s]) # Shutdown,
           NEW t, t = Head(queue[s]), queue' = [queue EXCEPT ![s] = Tail(@)],
           task[t].at # "begin", NEW ids,
           loop' = Wake(Woken(loop, Kept(s, ids), "cancelled"), t, "ok"),
           parked' = parked \ ToSet(Kept(s, ids)), UNCHANGED uiVars, SessionsTyped, QuietSessions
    PROVE  IInv'
<1>1. /\ t \in Tasks /\ InPlace(loop, queue', parked, {t})
      /\ task[t].at \in HeldCalls \cup FreeCalls /\ (AtGate(task[t]) <=> Occurs(loop.gate, t))
      /\ t \notin parked /\ ~Occurs(loop.ready, t)
  BY CommandTaken
<1>2. /\ loop \in LoopType /\ task \in [Tasks -> TaskType] /\ loop.ready \in Seq(Tasks)
      /\ IsInjective(loop.ready) /\ parked \subseteq Tasks
  BY Parts, LoopTyped
<1>3. PICK ts : ts = Kept(s, ids)
  OBVIOUS
<1>4. PICK K \in SUBSET parked : K = KeptTasks(s, ids)
  BY DEF KeptTasks
<1>5. ts \in Seq(Tasks) /\ IsInjective(ts) /\ \A x : Occurs(ts, x) <=> x \in K
  BY <1>2, <1>3, <1>4, KeptOccurs
<1>6. ToSet(ts) = K
  BY <1>5, ToSetOccurs
<1>7. PICK a \in Answers : a = "cancelled"
  BY DEF Answers
<1>8. PICK m : m = Woken(loop, ts, a)
  OBVIOUS
<1>9. /\ m \in LoopType /\ m.ready = loop.ready \o ts /\ m.gate = loop.gate
      /\ \A u \in Tasks : m.task[u] = IF Occurs(ts, u) THEN WithAnswer(task[u], a) ELSE task[u]
  <2>1. /\ Woken(loop, ts, a) \in LoopType
        /\ Woken(loop, ts, a).ready = loop.ready \o ts /\ Woken(loop, ts, a).gate = loop.gate
        /\ \A u \in Tasks : Woken(loop, ts, a).task[u] =
             IF Occurs(ts, u) THEN WithAnswer(loop.task[u], a) ELSE loop.task[u]
    BY <1>2, <1>5, WokenSets
  <2> QED BY <1>8, <2>1 DEF task
<1>10. /\ \A u \in K : ~Occurs(loop.ready, u) /\ (AtGate(task[u]) <=> Occurs(loop.gate, u))
                       /\ task[u].at \in {"finishing", "confirming"} /\ u \in Tasks
       /\ K \subseteq Tasks /\ t \notin K
  BY <1>1, <1>2, WhereTasksAre
<1>11. /\ IsInjective(m.ready) /\ \A x : Occurs(m.ready, x) <=> Occurs(loop.ready, x) \/ x \in K
       /\ GrowsTo(loop.ready, m.ready)
  <2>1. \A x : ~(Occurs(loop.ready, x) /\ Occurs(ts, x))
    BY <1>5, <1>10
  <2>2. \A y, z : Before(loop.ready, y, z) => Before(m.ready, y, z)
    BY <1>2, <1>5, <1>9, ConcatOccurs
  <2>3. /\ IsInjective(m.ready)
        /\ \A x : Occurs(m.ready, x) <=> Occurs(loop.ready, x) \/ Occurs(ts, x)
    BY <1>2, <1>5, <1>9, <2>1, ConcatOccurs
  <2> QED BY <1>5, <2>2, <2>3 DEF GrowsTo
<1>12. \A u \in Tasks : /\ m.task[u].kind = task[u].kind /\ m.task[u].at = task[u].at
                        /\ m.task[u].on = task[u].on /\ m.task[u].id = task[u].id
                        /\ m.task[u].valid = task[u].valid
                        /\ m.task[u].generation = task[u].generation
                        /\ m.task[u].answer = IF u \in K THEN a ELSE task[u].answer
  BY <1>2, <1>5, <1>9, WithAnswerType
<1>13. InPlace(m, queue', parked \ K, {t})
  <2>1. InPlace(loop, queue', parked \ K, {t} \cup K)
    BY <1>1, Unparks
  <2>2. PICK T : T = {t} \cup K
    OBVIOUS
  <2>3. K \in SUBSET T /\ InPlace(loop, queue', parked \ K, T)
    BY <2>1, <2>2
  <2>4. \A v \in Tasks : m.task[v].at = loop.task[v].at /\ m.task[v].on = loop.task[v].on
    BY <1>12 DEF task
  <2>5. \A v \in Tasks \ K : m.task[v].answer = loop.task[v].answer
    BY <1>12 DEF task
  <2>6. \A v \in K : Awake(m.task[v]) /\ (AtGate(loop.task[v]) <=> Occurs(loop.gate, v))
    <3>1. \A v \in K : m.task[v].at \in {"finishing", "confirming"}
      BY <1>10, <1>12
    <3> QED BY <1>10, <3>1 DEF Awake, Waits, task
  <2>7. InPlace(m, queue', parked \ K, T \ K)
    BY <1>9, <1>10, <1>11, <2>3, <2>4, <2>5, <2>6, Wakes
  <2>8. T \ K = {t}
    BY <1>10, <2>2
  <2> QED BY <2>7, <2>8
<1>14. m.task[t] = task[t] /\ m.task \in [Tasks -> TaskType]
  BY <1>1, <1>5, <1>9, <1>10, LoopFields
<1>15. /\ InPlace(Wake(m, t, "ok"), queue', parked \ K, {})
       /\ Wake(m, t, "ok").task = [m.task EXCEPT ![t] = WithAnswer(m.task[t], "ok")]
       /\ GrowsTo(m.ready, Wake(m, t, "ok").ready)
  <2>1. PICK b \in Answers : b = "ok"
    BY DEF Answers
  <2>2. t \in Tasks /\ m.task[t].at # "none" /\ b # "none"
    BY <1>1, <1>14, <2>1 DEF HeldCalls, FreeCalls
  <2>3. Steady(m, t)
    BY <1>1, <1>9, <1>14 DEF Steady
  <2>4. PICK p : p = parked \ K
    OBVIOUS
  <2>5. InPlace(m, queue', p, {t})
    BY <1>13, <2>4
  <2>6. /\ InPlace(Wake(m, t, b), queue', p, {})
        /\ Wake(m, t, b).task = [m.task EXCEPT ![t] = WithAnswer(m.task[t], b)]
        /\ GrowsTo(m.ready, Wake(m, t, b).ready)
    BY <2>2, <2>3, <2>5, WakesCaller
  <2> QED BY <2>1, <2>4, <2>6
<1>16. loop' = Wake(m, t, "ok") /\ parked' = parked \ K
  BY <1>3, <1>6, <1>7, <1>8
<1>17. InPlace(loop', queue', parked', {}) /\ GrowsTo(loop.ready, loop'.ready)
  BY <1>11, <1>15, <1>16 DEF GrowsTo
<1>18. \A u \in Tasks : Answered(u)
  <2>1. task' = [m.task EXCEPT ![t] = WithAnswer(m.task[t], "ok")]
    BY <1>15, <1>16 DEF task
  <2>2. task'[t] = WithAnswer(task[t], "ok") /\ \A u \in Tasks \ {t} : task'[u] = m.task[u]
    BY <1>1, <1>14, <2>1
  <2>3. Answered(t)
    <3>1. PICK b \in Answers : b = "ok"
      BY DEF Answers
    <3>2. PICK x : x = WithAnswer(task[t], b)
      OBVIOUS
    <3>3. /\ x.kind = task[t].kind /\ x.at = task[t].at /\ x.on = task[t].on /\ x.id = task[t].id
          /\ x.valid = task[t].valid /\ x.generation = task[t].generation
      BY <1>1, <1>2, <3>2, WithAnswerType
    <3> QED BY <2>2, <3>1, <3>2, <3>3 DEF Answered
  <2>4. \A u \in Tasks \ {t} : Answered(u)
    BY <1>7, <1>12, <2>2 DEF Answered
  <2> QED BY <2>3, <2>4
<1> QED BY <1>17, <1>18, SessionKeeps

-----------------------------------------------------------------------------
(***************************************************************************)
(* The sessions: an upload begins.                                         *)
(***************************************************************************)

(* A session loses at most the upload that some task takes. *)
LEMMA UploadQuiet ==
    ASSUME IInv, NEW s \in Sessions, UNCHANGED <<activity, life, event, issued>>,
           \/ active' = active
           \/ active' = [active EXCEPT ![s] = NoId]
              /\ \E u \in Tasks : task[u].at \in Takers /\ task[u].id = active[s]
    PROVE  SessionsTyped /\ QuietSessions
<1>1. /\ activity \in ActivityType /\ life \in [Sessions -> {"unborn", "open", "ended"}]
      /\ active \in [Sessions -> Ids \cup {NoId}] /\ event \in [Sessions -> Events]
      /\ issued \in [Sessions -> 0 .. MaxRequests]
  BY DEF IInv, FieldsTyped
<1>2. active' \in [Sessions -> Ids \cup {NoId}]
  BY <1>1
<1>3. SessionsTyped
  BY <1>1, <1>2 DEF SessionsTyped
<1>4. \A r \in Sessions : active'[r] # active[r] =>
        \E u \in Tasks : task[u].at \in Takers /\ task[u].id = active[r]
  BY <1>1
<1> QED BY <1>3, <1>4 DEF QuietSessions, QuietLives

(* The next id of a session is nobody's. *)
LEMMA NextIdIsNew ==
    ASSUME IInv, NEW s \in Sessions, issued[s] < MaxRequests
    PROVE  /\ issued[s] \in Nat /\ issued[s] + 1 \in 1 .. MaxRequests
           /\ <<s, issued[s] + 1>> \in Ids /\ <<s, issued[s] + 1>> # NoId
           /\ ~Known(<<s, issued[s] + 1>>)
           /\ <<s, issued[s] + 1>> \notin OwnIds
           /\ \A u \in Tasks : task[u].id # <<s, issued[s] + 1>>
<1>1. issued[s] \in 0 .. MaxRequests /\ MaxRequests \in Nat
  BY AppAssumption DEF IInv, FieldsTyped
<1>2. PICK k \in 1 .. MaxRequests : k = issued[s] + 1
  BY <1>1
<1>3. PICK id : id = <<s, k>>
  OBVIOUS
<1>4. id \in Ids /\ id # NoId /\ id[1] = s /\ id[2] = k
  BY <1>3 DEF Ids, NoId, Sessions
<1>5. ~Known(id)
  BY <1>1, <1>2, <1>4 DEF Known
<1>6. /\ \A x \in OwnIds : Known(x)
      /\ \A u \in Tasks : Known(task[u].id)
  BY DEF IInv, RecordInv, OwnIds
<1>7. id \notin OwnIds /\ \A u \in Tasks : task[u].id # id
  BY <1>5, <1>6
<1> QED BY <1>1, <1>2, <1>3, <1>4, <1>5, <1>7

(* A task with an id. *)
WithId(r, id) == [r EXCEPT !.id = id]

(* An upload begins: the caller is woken with its id. *)
LEMMA BeginMoves ==
    ASSUME IInv, NEW t \in Tasks, NEW q, InPlace(loop, q, parked, {t}), Steady(loop, t),
           task[t].at = "begin", NEW id \in Ids,
           loop' = Wake([loop EXCEPT !.task[t].id = id], t, "ok")
    PROVE  /\ InPlace(loop', q, parked, {}) /\ GrowsTo(loop.ready, loop'.ready)
           /\ task' = [task EXCEPT ![t] = WithAnswer(WithId(task[t], id), "ok")]
<1>1. /\ loop \in LoopType /\ task \in [Tasks -> TaskType] /\ loop.task = task
      /\ task[t] \in TaskType
  BY Parts, LoopTyped DEF task
<1>2. PICK r : r = WithId(task[t], id)
  OBVIOUS
<1>3. /\ r \in TaskType /\ r.at = task[t].at /\ r.on = task[t].on /\ r.answer = task[t].answer
  BY <1>1, <1>2 DEF WithId, TaskType
<1>4. PICK f : f = [task EXCEPT ![t] = r]
  OBVIOUS
<1>5. f \in [Tasks -> TaskType] /\ f[t] = r /\ \A v \in Tasks \ {t} : f[v] = task[v]
  BY <1>1, <1>3, <1>4
<1>6. PICK m : m = [loop EXCEPT !.task[t].id = id]
  OBVIOUS
<1>7. m = [loop EXCEPT !.task = f]
  BY <1>1, <1>2, <1>4, <1>6 DEF WithId, LoopType
<1>8. m \in LoopType /\ m.task = f /\ m.ready = loop.ready /\ m.gate = loop.gate
  BY <1>1, <1>5, <1>7 DEF LoopType
<1>9. PICK T : T = {t}
  OBVIOUS
<1>10. InPlace(m, q, parked, T)
  <2>1. \A v \in Tasks : /\ m.task[v].at = loop.task[v].at /\ m.task[v].on = loop.task[v].on
                         /\ m.task[v].answer = loop.task[v].answer
    BY <1>1, <1>3, <1>5, <1>8
  <2>2. InPlace(loop, q, parked, T)
    BY <1>9
  <2> QED BY <1>8, <2>1, <2>2, Relabels
<1>11. InPlace(m, q, parked, {t}) /\ m.task[t].at # "none"
  BY <1>3, <1>5, <1>8, <1>9, <1>10
<1>12. Steady(m, t)
  BY <1>1, <1>3, <1>5, <1>8 DEF Steady, AtGate
<1>13. PICK a \in Answers : a = "ok"
  BY DEF Answers
<1>14. a # "none"
  BY <1>13
<1>15. /\ InPlace(Wake(m, t, a), q, parked, {})
       /\ Wake(m, t, a).task = [m.task EXCEPT ![t] = WithAnswer(m.task[t], a)]
       /\ GrowsTo(m.ready, Wake(m, t, a).ready)
  BY <1>11, <1>12, <1>14, WakesCaller
<1>16. loop' = Wake(m, t, a)
  BY <1>6, <1>13
<1>17. task' = [f EXCEPT ![t] = WithAnswer(r, a)]
  BY <1>5, <1>8, <1>15, <1>16 DEF task
<1>18. task' = [task EXCEPT ![t] = WithAnswer(r, a)]
  BY <1>1, <1>4, <1>17
<1> QED BY <1>2, <1>8, <1>13, <1>15, <1>16, <1>18

(* A session begins an upload. *)
LEMMA BeginKeeps ==
    ASSUME IInv, NEW s \in Sessions, life[s] = "open", queue[s] # <<>>, Head(queue[s]) # Shutdown,
           NEW t, t = Head(queue[s]), queue' = [queue EXCEPT ![s] = Tail(@)],
           task[t].at = "begin", active[s] = NoId, issued[s] < MaxRequests,
           NEW k, k = issued[s] + 1, NEW id, id = <<s, k>>,
           issued' = [issued EXCEPT ![s] = k], active' = [active EXCEPT ![s] = id],
           loop' = Wake([loop EXCEPT !.task[t].id = id], t, "ok"),
           UNCHANGED parked, UNCHANGED uiVars, UNCHANGED <<life, event>>
    PROVE  IInv'
<1>1. /\ t \in Tasks /\ InPlace(loop, queue', parked, {t}) /\ task[t].on = s
      /\ (AtGate(task[t]) <=> Occurs(loop.gate, t))
  BY CommandTaken
<1>2. /\ issued[s] \in Nat /\ k \in 1 .. MaxRequests /\ id \in Ids /\ id # NoId
      /\ ~Known(id) /\ id \notin OwnIds /\ \A u \in Tasks : task[u].id # id
  BY NextIdIsNew
<1>3. /\ InPlace(loop', queue', parked', {}) /\ GrowsTo(loop.ready, loop'.ready)
      /\ task' = [task EXCEPT ![t] = WithAnswer(WithId(task[t], id), "ok")]
  <2>1. Steady(loop, t)
    BY <1>1 DEF Steady, task
  <2>2. PICK q : q = queue'
    OBVIOUS
  <2>3. InPlace(loop, q, parked, {t})
    BY <1>1, <2>2
  <2>4. /\ InPlace(loop', q, parked, {}) /\ GrowsTo(loop.ready, loop'.ready)
        /\ task' = [task EXCEPT ![t] = WithAnswer(WithId(task[t], id), "ok")]
    BY <1>1, <1>2, <2>1, <2>3, BeginMoves
  <2> QED BY <2>2, <2>4
<1>4. /\ task \in [Tasks -> TaskType] /\ task[t] \in TaskType /\ FieldsTyped /\ WindowInv /\ RecordInv
  BY <1>1, Parts
<1>5. PICK x : x = WithAnswer(WithId(task[t], id), "ok")
  OBVIOUS
<1>6. /\ x.kind = task[t].kind /\ x.at = "begin" /\ x.on = s /\ x.id = id /\ x.answer = "ok"
      /\ x.valid = task[t].valid /\ x.generation = task[t].generation
  <2>1. PICK y : y = WithId(task[t], id)
    OBVIOUS
  <2>2. /\ y \in TaskType /\ y.kind = task[t].kind /\ y.at = task[t].at /\ y.on = task[t].on
        /\ y.id = id /\ y.valid = task[t].valid /\ y.generation = task[t].generation
    BY <1>2, <1>4, <2>1 DEF WithId, TaskType
  <2>3. PICK a \in Answers : a = "ok"
    BY DEF Answers
  <2>4. x = WithAnswer(y, a)
    BY <1>5, <2>1, <2>3
  <2>5. /\ x.kind = y.kind /\ x.at = y.at /\ x.on = y.on /\ x.id = y.id /\ x.answer = a
        /\ x.valid = y.valid /\ x.generation = y.generation
    BY <2>2, <2>4, WithAnswerType
  <2> QED BY <1>1, <2>2, <2>3, <2>5
<1>7. task'[t] = x /\ \A v \in Tasks \ {t} : task'[v] = task[v]
  BY <1>1, <1>3, <1>4, <1>5
<1>8. UNCHANGED <<state, app, activity>>
  BY DEF uiVars
<1>9. /\ issued' \in [Sessions -> 0 .. MaxRequests] /\ active' \in [Sessions -> Ids \cup {NoId}]
      /\ \A r \in Sessions : issued[r] <= issued'[r]
      /\ issued'[s] = k /\ active'[s] = id
      /\ \A r \in Sessions \ {s} : active'[r] = active[r]
  <2>1. issued \in [Sessions -> 0 .. MaxRequests] /\ active \in [Sessions -> Ids \cup {NoId}]
    BY <1>4 DEF FieldsTyped
  <2>2. k \in 0 .. MaxRequests /\ issued[s] <= k
    <3>1. MaxRequests \in Nat /\ k \in 1 .. MaxRequests /\ issued[s] \in Nat
      BY <1>2, AppAssumption
    <3> QED BY <3>1
  <2> QED BY <1>2, <2>1, <2>2
<1>10. AllInPlace'
  BY <1>3, AllPrimed
<1>11. FieldsTyped'
  <2>1. \A u \in Tasks : QuietShape(u)
    <3>1. ASSUME NEW u \in Tasks PROVE QuietShape(u)
      <4>1. Shaped(task[u])
        BY <1>4 DEF FieldsTyped
      <4>2. CASE u = t
        BY <1>2, <1>6, <1>7, <4>1, <4>2 DEF QuietShape, Shaped
      <4>3. CASE u # t
        BY <1>7, <4>1, <4>3 DEF QuietShape
      <4> QED BY <4>2, <4>3
    <3> QED BY <3>1
  <2> QED BY <1>4, <1>8, <1>9, <2>1, QuietFields DEF FieldsTyped
<1>12. WindowInv'
  <2>1. QuietApp
    BY <1>4, <1>8 DEF QuietApp, FieldsTyped
  <2>2. \A u \in Tasks : QuietScan(u)
    <3> SUFFICES ASSUME NEW u \in Tasks PROVE QuietScan(u)
      OBVIOUS
    <3>1. /\ task'[u].kind = task[u].kind /\ task'[u].at = task[u].at /\ task'[u].on = task[u].on
          /\ task'[u].valid = task[u].valid /\ task'[u].generation = task[u].generation
      BY <1>1, <1>6, <1>7
    <3> QED BY <3>1 DEF QuietScan, LiveScan, Reaches
  <2>3. /\ \A d \in Tasks : Leaving(d) => Occurs(loop'.ready, d)
        /\ \A d, u \in Tasks : Leaving(d) /\ Before(loop.ready, d, u) => Before(loop'.ready, d, u)
    BY <1>3, <1>4 DEF GrowsTo, WindowInv
  <2>4. QuietLives
    BY <1>4 DEF QuietLives, WindowInv
  <2>5. state'.session = state.session /\ state'.generation = state.generation
    BY <1>8
  <2> QED BY <1>4, <2>1, <2>2, <2>3, <2>4, <2>5, QuietWindow, Parts
<1>13. RecordInv'
  <2>1. \A i \in Ids \cup {NoId} : Known(i) => Known(i)'
    <3> SUFFICES ASSUME NEW i \in Ids, i # NoId, i[2] <= issued[i[1]] PROVE i[2] <= issued'[i[1]]
      BY DEF Known
    <3>1. i[1] \in Sessions /\ i[2] \in Nat
      BY DEF Ids
    <3>2. issued[i[1]] \in Nat /\ issued'[i[1]] \in Nat /\ issued[i[1]] <= issued'[i[1]]
      <4>1. PICK r \in Sessions : r = i[1]
        BY <3>1
      <4>2. issued \in [Sessions -> 0 .. MaxRequests]
        BY <1>4 DEF FieldsTyped
      <4>3. issued[r] \in Nat /\ issued'[r] \in Nat /\ issued[r] <= issued'[r]
        BY <1>9, <4>2
      <4> QED BY <4>1, <4>3
    <3> QED BY <3>1, <3>2
  <2>2. /\ state.recording_request_id \in Ids \cup {NoId} /\ state.pending_request_id \in Ids \cup {NoId}
        /\ state.pending_decision \in Ids \cup {NoId}
    BY <1>4 DEF FieldsTyped, StateType
  <2>3. Known(state.recording_request_id)' /\ Known(state.pending_request_id)'
        /\ Known(state.pending_decision)'
    <3>1. \A i \in OwnIds : Known(i)'
      BY <1>4, <2>1, <2>2 DEF OwnIds, RecordInv
    <3>2. PICK a, b, c : /\ a = state.recording_request_id /\ b = state.pending_request_id
                         /\ c = state.pending_decision
      OBVIOUS
    <3>3. Known(a)' /\ Known(b)' /\ Known(c)'
      BY <3>1, <3>2 DEF OwnIds
    <3> QED BY <1>8, <3>2, <3>3 DEF Known
  <2>4. \A u \in Tasks : Known(task[u].id)'
    <3> SUFFICES ASSUME NEW u \in Tasks PROVE Known(task[u].id)'
      OBVIOUS
    <3>1. PICK i : i = task'[u].id
      OBVIOUS
    <3>2. Known(i)'
      <4>1. CASE u = t
        <5>1. i = <<s, k>>
          BY <1>6, <1>7, <3>1, <4>1
        <5>2. i[2] = k /\ issued'[i[1]] = k /\ k \in Nat
          BY <1>2, <1>9, <5>1
        <5> QED BY <5>2 DEF Known
      <4>2. CASE u # t
        <5>1. i = task[u].id /\ task[u].id \in Ids \cup {NoId}
          <6>1. task[u] \in TaskType
            BY <1>4
          <6> QED BY <1>7, <3>1, <4>2, <6>1, TaskFields
        <5> QED BY <1>4, <2>1, <5>1 DEF RecordInv
      <4> QED BY <4>1, <4>2
    <3> QED BY <3>1, <3>2 DEF Known
  <2>5. \A u \in Tasks : task'[u].at = "begin" => state'.session \in {NoSession, task'[u].on}
    BY <1>1, <1>4, <1>6, <1>7, <1>8 DEF RecordInv
  <2>6. ASSUME NEW u \in Tasks, Fresh(u)'
        PROVE  /\ task'[u].id[1] = task'[u].on
               /\ life'[task'[u].on] = "open" => active'[task'[u].on] = task'[u].id
               /\ task'[u].id \notin OwnIds'
               /\ \A v \in Tasks \ {u} : task'[v].id # task'[u].id
    <3>1. u = t
      <4> SUFFICES ASSUME u # t PROVE FALSE
        OBVIOUS
      <4>1. task[u].at = "begin"
        BY <1>7, <2>6 DEF Fresh
      <4>2. task[u].at \in HeldCalls /\ task[t].at \in HeldCalls
        BY <4>1 DEF HeldCalls
      <4> QED BY <1>1, <4>2, OneHolds, Parts
    <3>2. task'[u].id = id /\ task'[u].on = s /\ id[1] = s
      BY <1>6, <1>7, <3>1
    <3>3. id \notin OwnIds'
      BY <1>2, <1>8 DEF OwnIds
    <3>4. \A v \in Tasks \ {u} : task'[v].id # id
      BY <1>2, <1>7, <3>1
    <3> QED BY <1>9, <3>2, <3>3, <3>4
  <2>7. ASSUME state'.recorder
        PROVE  /\ state'.session # NoSession /\ state'.recording_request_id # NoId
               /\ state'.recording_request_id[1] = state'.session
               /\ life'[state'.session] = "open" => active'[state'.session] = state'.recording_request_id
               /\ \A u \in Tasks : task'[u].id = state'.recording_request_id => task'[u].at \notin Takers
    <3>1. /\ state.session # NoSession /\ state.recording_request_id # NoId
          /\ state.recording_request_id[1] = state.session
          /\ life[state.session] = "open" => active[state.session] = state.recording_request_id
          /\ \A u \in Tasks : task[u].id = state.recording_request_id => task[u].at \notin Takers
      BY <1>4, <1>8, <2>7 DEF RecordInv
    <3>2. state.session \in Sessions /\ state.session # s
      BY <1>4, <3>1 DEF FieldsTyped, StateType
    <3>3. active'[state.session] = active[state.session]
      BY <1>9, <3>2
    <3>4. \A u \in Tasks : task'[u].id = state.recording_request_id => task'[u].at \notin Takers
      BY <1>6, <1>7, <3>1 DEF Takers
    <3> QED BY <1>8, <3>1, <3>3, <3>4
  <2> QED BY <2>3, <2>4, <2>5, <2>6, <2>7 DEF RecordInv
<1> QED BY <1>10, <1>11, <1>12, <1>13 DEF IInv

(* A session handles its next command. *)
LEMMA HandlesCommand ==
    ASSUME IInv, NEW s \in Sessions, HandleCommand(s)
    PROVE  IInv'
<1>1. PICK t : t = Head(queue[s])
  OBVIOUS
<1>2. /\ life[s] = "open" /\ queue[s] # <<>> /\ Head(queue[s]) # Shutdown
      /\ queue' = [queue EXCEPT ![s] = Tail(@)]
      /\ UNCHANGED uiVars /\ UNCHANGED <<life, event>>
  BY DEF HandleCommand, InLoop
<1>3. UNCHANGED activity
  BY <1>2 DEF uiVars
<1>4. t \in Tasks /\ t = Head(queue[s])
  BY <1>1, <1>2, CommandTaken
<1>5. ASSUME UNCHANGED issued, \/ active' = active
                               \/ /\ active' = [active EXCEPT ![s] = NoId]
                                  /\ task[t].at \in Takers /\ task[t].id = active[s]
      PROVE  SessionsTyped /\ QuietSessions
  BY <1>2, <1>3, <1>4, <1>5, UploadQuiet
<1>6. CASE loop' = Wake(loop, t, "error") /\ UNCHANGED <<parked, active, issued>>
  <2>1. PICK a \in {"ok", "error"} : a = "error"
    OBVIOUS
  <2>2. loop' = Wake(loop, t, a) /\ (a = "ok" => task[t].at # "begin") /\ UNCHANGED parked
    BY <1>6, <2>1
  <2>3. SessionsTyped /\ QuietSessions
    BY <1>5, <1>6
  <2> QED BY <1>1, <1>2, <2>2, <2>3, AnswerAtOnce
<1>7. CASE /\ task[t].at = "finishing" /\ active[s] = task[t].id
           /\ active' = [active EXCEPT ![s] = NoId]
           /\ \/ loop' = Wake(loop, t, "error") /\ UNCHANGED parked
              \/ parked' = parked \cup {t} /\ UNCHANGED loop
           /\ UNCHANGED issued
  <2>1. SessionsTyped /\ QuietSessions
    BY <1>5, <1>7 DEF Takers
  <2>2. CASE loop' = Wake(loop, t, "error") /\ UNCHANGED parked
    <3>1. PICK a \in {"ok", "error"} : a = "error"
      OBVIOUS
    <3>2. loop' = Wake(loop, t, a) /\ (a = "ok" => task[t].at # "begin") /\ UNCHANGED parked
      BY <2>2, <3>1
    <3> QED BY <1>1, <1>2, <2>1, <3>2, AnswerAtOnce
  <2>3. CASE parked' = parked \cup {t} /\ UNCHANGED loop
    BY <1>1, <1>2, <1>7, <2>1, <2>3, AnswerKept
  <2> QED BY <1>7, <2>2, <2>3
<1>8. CASE /\ task[t].at = "begin" /\ active[s] = NoId /\ issued[s] < MaxRequests
           /\ issued' = [issued EXCEPT ![s] = @ + 1]
           /\ active' = [active EXCEPT ![s] = <<s, issued'[s]>>]
           /\ loop' = Wake([loop EXCEPT !.task[t].id = active'[s]], t, "ok")
           /\ UNCHANGED parked
  <2>1. PICK k : k = issued[s] + 1
    OBVIOUS
  <2>2. PICK id : id = <<s, k>>
    OBVIOUS
  <2>3. issued \in [Sessions -> 0 .. MaxRequests] /\ active \in [Sessions -> Ids \cup {NoId}]
    BY Parts DEF FieldsTyped
  <2>4. issued' = [issued EXCEPT ![s] = k] /\ issued'[s] = k
    BY <1>8, <2>1, <2>3
  <2>5. active' = [active EXCEPT ![s] = id] /\ active'[s] = id
    BY <1>8, <2>2, <2>3, <2>4
  <2>6. loop' = Wake([loop EXCEPT !.task[t].id = id], t, "ok")
    BY <1>8, <2>5
  <2>7. task[t].at = "begin" /\ active[s] = NoId /\ issued[s] < MaxRequests /\ UNCHANGED parked
    BY <1>8
  <2> QED BY <1>1, <1>2, <2>1, <2>2, <2>4, <2>5, <2>6, <2>7, BeginKeeps
<1>9. CASE /\ task[t].at \in {"sending", "last", "responding"}
           /\ loop' = Wake(loop, t, "ok") /\ UNCHANGED <<parked, active, issued>>
  <2>1. PICK a \in {"ok", "error"} : a = "ok"
    OBVIOUS
  <2>2. loop' = Wake(loop, t, a) /\ (a = "ok" => task[t].at # "begin") /\ UNCHANGED parked
    BY <1>9, <2>1
  <2>3. SessionsTyped /\ QuietSessions
    BY <1>5, <1>9
  <2> QED BY <1>1, <1>2, <2>2, <2>3, AnswerAtOnce
<1>10. CASE /\ task[t].at = "confirming" /\ parked' = parked \cup {t}
            /\ UNCHANGED <<loop, active, issued>>
  <2>1. SessionsTyped /\ QuietSessions
    BY <1>5, <1>10
  <2> QED BY <1>1, <1>2, <1>10, <2>1, AnswerKept
<1>11. CASE /\ task[t].at \in {"undo", "cancelling", "aborting", "dropping"}
            /\ loop' = Wake(Woken(loop, Kept(s, {task[t].id}), "cancelled"), t, "ok")
            /\ parked' = parked \ ToSet(Kept(s, {task[t].id}))
            /\ IF active[s] = task[t].id THEN active' = [active EXCEPT ![s] = NoId]
               ELSE UNCHANGED active
            /\ UNCHANGED issued
  <2>1. SessionsTyped /\ QuietSessions
    BY <1>5, <1>11 DEF Takers
  <2>2. PICK ids : ids = {task[t].id}
    OBVIOUS
  <2>3. /\ loop' = Wake(Woken(loop, Kept(s, ids), "cancelled"), t, "ok")
        /\ parked' = parked \ ToSet(Kept(s, ids)) /\ task[t].at # "begin"
    BY <1>11, <2>2
  <2> QED BY <1>1, <1>2, <2>1, <2>3, AnswerCancel
<1> QED BY <1>1, <1>6, <1>7, <1>8, <1>9, <1>10, <1>11 DEF HandleCommand

-----------------------------------------------------------------------------
(***************************************************************************)
(* The sessions: the peer's answers and questions, and the end.            *)
(***************************************************************************)

(* The desktop answers a kept reply. *)
LEMMA PeerAnswersKeeps ==
    ASSUME IInv, NEW s \in Sessions, PeerAnswers(s)
    PROVE  IInv'
<1>1. PICK t \in parked : /\ task[t].on = s
                          /\ \E b \in {"plan", "no_plan", "cancelled", "error", "ok"} : loop' = Wake(loop, t, b)
                          /\ parked' = parked \ {t}
  BY DEF PeerAnswers
<1>2. PICK b \in {"plan", "no_plan", "cancelled", "error", "ok"} : loop' = Wake(loop, t, b)
  BY <1>1
<1>3. PICK a \in Answers : a = b
  BY DEF Answers
<1>4. a # "none" /\ loop' = Wake(loop, t, a)
  BY <1>2, <1>3
<1>5. /\ AllInPlace /\ parked \subseteq Tasks /\ loop.task = task /\ t \in Tasks
  BY Parts, LoopTyped DEF task
<1>6. task[t].at \in {"finishing", "confirming"} /\ (AtGate(task[t]) <=> Occurs(loop.gate, t))
  BY <1>5, WhereTasksAre
<1>7. PICK p : p = parked \ {t}
  OBVIOUS
<1>8. InPlace(loop, queue, p, {t})
  <2>1. PICK K \in SUBSET parked : K = {t}
    OBVIOUS
  <2>2. InPlace(loop, queue, parked \ K, {} \cup K)
    BY <1>5, Unparks DEF AllInPlace
  <2>3. {} \cup K = {t}
    BY <2>1
  <2> QED BY <1>7, <2>1, <2>2, <2>3
<1>9. Steady(loop, t) /\ loop.task[t].at # "none"
  BY <1>5, <1>6 DEF Steady
<1>10. /\ InPlace(Wake(loop, t, a), queue, p, {})
       /\ Wake(loop, t, a).task = [loop.task EXCEPT ![t] = WithAnswer(loop.task[t], a)]
       /\ GrowsTo(loop.ready, Wake(loop, t, a).ready)
  BY <1>4, <1>5, <1>8, <1>9, WakesCaller
<1>11. UNCHANGED uiVars /\ UNCHANGED <<queue, life, active, event, issued>>
  BY DEF PeerAnswers
<1>12. InPlace(loop', queue', parked', {}) /\ GrowsTo(loop.ready, loop'.ready)
  BY <1>1, <1>4, <1>7, <1>10, <1>11
<1>13. task' = [task EXCEPT ![t] = WithAnswer(task[t], a)]
  BY <1>4, <1>5, <1>10 DEF task
<1>14. a = "ok" => task[t].at # "begin"
  BY <1>6
<1>15. \A u \in Tasks : Answered(u)
  BY <1>5, <1>13, <1>14, AnsweredOne
<1>16. SessionsTyped /\ QuietSessions
  <2>1. UNCHANGED <<activity, life, event, issued>> /\ active' = active
    BY <1>11 DEF uiVars
  <2> QED BY <2>1, UploadQuiet
<1> QED BY <1>11, <1>12, <1>15, <1>16, SessionKeeps

(* Readers of events in no line. *)
LEMMA WatchersRest ==
    ASSUME IInv, NEW s
    PROVE  /\ Watching(s) \in SUBSET Tasks
           /\ \A u \in Watching(s) :
                /\ ~Occurs(loop.ready, u) /\ ~Occurs(loop.gate, u) /\ ~AtGate(task[u])
                /\ task[u].at = "changed" /\ task[u].at \notin FreeCalls
<1>1. Watching(s) \in SUBSET Tasks
  BY DEF Watching
<1>2. ASSUME NEW u \in Watching(s)
      PROVE  /\ ~Occurs(loop.ready, u) /\ ~Occurs(loop.gate, u) /\ ~AtGate(task[u])
             /\ task[u].at = "changed" /\ task[u].at \notin FreeCalls
  <2>1. task[u].at = "changed" /\ ~Occurs(loop.ready, u) /\ (AtGate(task[u]) <=> Occurs(loop.gate, u))
    BY <1>1, WhereTasksAre
  <2>2. ~AtGate(task[u]) /\ task[u].at \notin FreeCalls
    BY <2>1 DEF AtGate, GateStations, HeldCalls, FreeCalls
  <2> QED BY <2>1, <2>2
<1> QED BY <1>1, <1>2

(* The desktop asks for a decision. *)
LEMMA PeerAsksKeeps ==
    ASSUME IInv, NEW s \in Sessions, PeerAsks(s)
    PROVE  IInv'
<1>1. PICK t \in ParkedAt(s, "finishing") :
        event' = [event EXCEPT ![s] = [kind |-> "decision", id |-> task[t].id]]
  BY DEF PeerAsks
<1>2. loop' = [loop EXCEPT !.ready = @ \o Watcher(s)]
      /\ UNCHANGED uiVars /\ UNCHANGED <<queue, life, parked, active, issued>>
  BY DEF PeerAsks
<1>3. /\ AllInPlace /\ loop \in LoopType /\ loop.ready \in Seq(Tasks) /\ IsInjective(loop.ready)
      /\ parked \subseteq Tasks /\ loop.task = task /\ FieldsTyped
  BY Parts, LoopTyped DEF task
<1>4. PICK w \in Seq(Tasks) : w = Watcher(s)
  BY <1>3, WatcherOccurs
<1>5. IsInjective(w) /\ \A x : Occurs(w, x) <=> x \in Watching(s)
  BY <1>3, <1>4, WatcherOccurs
<1>6. PICK W \in SUBSET Tasks : W = Watching(s)
  BY WatchersRest
<1>7. \A u \in W : /\ ~Occurs(loop.ready, u) /\ ~Occurs(loop.gate, u) /\ ~AtGate(task[u])
                   /\ task[u].at = "changed" /\ task[u].at \notin FreeCalls
  BY <1>6, WatchersRest
<1>8. /\ loop.ready \o w \in Seq(Tasks) /\ IsInjective(loop.ready \o w)
      /\ \A x : Occurs(loop.ready \o w, x) <=> Occurs(loop.ready, x) \/ x \in W
      /\ \A y, z : Before(loop.ready, y, z) => Before(loop.ready \o w, y, z)
  <2>1. \A x : ~(Occurs(loop.ready, x) /\ Occurs(w, x))
    BY <1>5, <1>6, <1>7
  <2> QED BY <1>3, <1>5, <1>6, <2>1, ConcatOccurs
<1>9. PICK m : m = loop'
  OBVIOUS
<1>10. m \in LoopType /\ m.task = loop.task /\ m.ready = loop.ready \o w /\ m.gate = loop.gate
  BY <1>2, <1>3, <1>4, <1>8, <1>9 DEF LoopType
<1>11. InPlace(m, queue, parked, {})
  <2>1. InPlace(loop, queue, parked, {} \cup W)
    BY <1>3, <1>7, TakesResting DEF AllInPlace
  <2>2. InPlace(loop, queue, parked, W)
    <3>1. {} \cup W = W
      OBVIOUS
    <3> QED BY <2>1, <3>1
  <2>3. IsInjective(m.ready) /\ \A x : Occurs(m.ready, x) <=> Occurs(loop.ready, x) \/ x \in W
    BY <1>8, <1>10
  <2>4. \A v \in W : Awake(m.task[v]) /\ (AtGate(loop.task[v]) <=> Occurs(loop.gate, v))
    BY <1>3, <1>7, <1>10 DEF Awake, Waits
  <2>5. \A v \in Tasks : m.task[v].at = loop.task[v].at /\ m.task[v].on = loop.task[v].on
    BY <1>10
  <2>6. \A v \in Tasks \ W : m.task[v].answer = loop.task[v].answer
    BY <1>10
  <2>7. W \in SUBSET W /\ W \subseteq Tasks
    OBVIOUS
  <2>8. InPlace(m, queue, parked, W \ W)
    BY <1>10, <2>2, <2>3, <2>4, <2>5, <2>6, <2>7, Wakes
  <2>9. W \ W = {}
    OBVIOUS
  <2> QED BY <2>8, <2>9
<1>12. InPlace(loop', queue', parked', {}) /\ GrowsTo(loop.ready, loop'.ready)
  BY <1>2, <1>8, <1>9, <1>10, <1>11 DEF GrowsTo
<1>13. task' = task
  BY <1>9, <1>10 DEF task
<1>14. \A u \in Tasks : Answered(u)
  BY <1>13 DEF Answered
<1>15. event' \in [Sessions -> Events] /\ \A r \in Sessions : event'[r] = Disconnected => event[r] = Disconnected
  <2>1. t \in Tasks /\ task[t].at = "finishing"
    BY <1>1, <1>3 DEF ParkedAt
  <2>2. task[t].id \in Ids
    BY <1>3, <2>1 DEF FieldsTyped, Shaped
  <2>3. PICK d : d = [kind |-> "decision", id |-> task[t].id]
    OBVIOUS
  <2>4. d \in Events /\ d # Disconnected
    BY <2>2, <2>3 DEF Events, Disconnected
  <2> QED BY <1>1, <1>3, <2>3, <2>4 DEF FieldsTyped
<1>16. SessionsTyped /\ QuietSessions
  <2>1. UNCHANGED activity
    BY <1>2 DEF uiVars
  <2> QED BY <1>2, <1>3, <1>15, <2>1 DEF SessionsTyped, QuietSessions, QuietLives, FieldsTyped
<1> QED BY <1>2, <1>12, <1>14, <1>16, SessionKeeps

(* Two lines without a common task, joined. *)
LEMMA Joining ==
    ASSUME NEW s \in Seq(Tasks), NEW r \in Seq(Tasks), IsInjective(s), IsInjective(r),
           \A x : ~(Occurs(s, x) /\ Occurs(r, x)), NEW h, h = s \o r
    PROVE  /\ h \in Seq(Tasks) /\ IsInjective(h)
           /\ \A x : Occurs(h, x) <=> Occurs(s, x) \/ Occurs(r, x)
           /\ \A y, z : Before(s, y, z) => Before(h, y, z)
BY ConcatOccurs

(* A session ends: everybody who waits for it is answered. *)
LEMMA EndMovesAll ==
    ASSUME IInv, NEW s \in Sessions, SessionEnds(s)
    PROVE  /\ InPlace(loop', queue', parked', {}) /\ GrowsTo(loop.ready, loop'.ready)
           /\ \A u \in Tasks : Answered(u)
<1> DEFINE c == Awaited(queue[s])
<1>1. /\ loop' = Woken([Woken(loop, Kept(s, Ids), "error")
                            EXCEPT !.ready = @ \o Watcher(s)], c, "error")
      /\ parked' = parked \ ToSet(Kept(s, Ids))
  BY DEF SessionEnds
<1>2. queue' = [queue EXCEPT ![s] = <<>>]
  BY DEF SessionEnds
<1>3. /\ AllInPlace /\ loop \in LoopType /\ loop.ready \in Seq(Tasks) /\ IsInjective(loop.ready)
      /\ parked \subseteq Tasks /\ loop.task = task /\ task \in [Tasks -> TaskType]
      /\ queue[s] \in Seq(Tasks \cup {Shutdown}) /\ Shutdown \notin Tasks /\ Once(queue[s])
  BY Parts, LoopTyped DEF task, AllInPlace, InPlace, Lined
<1>4. c \in Seq(Tasks) /\ IsInjective(c) /\ \A x : Occurs(c, x) <=> Occurs(queue[s], x) /\ x # Shutdown
  BY <1>3, AwaitedOccurs
<1> HIDE DEF c
<1>5. PICK r \in Seq(Tasks) : r = c
  BY <1>4
<1>6. IsInjective(r) /\ \A x : Occurs(c, x) <=> Occurs(r, x)
  BY <1>4, <1>5
<1>7. PICK k : k = Kept(s, Ids)
  OBVIOUS
<1>8. PICK K \in SUBSET parked : K = KeptTasks(s, Ids)
  BY DEF KeptTasks
<1>9. k \in Seq(Tasks) /\ IsInjective(k) /\ (\A x : Occurs(k, x) <=> x \in K) /\ ToSet(k) = K
  <2>1. k \in Seq(Tasks) /\ IsInjective(k) /\ \A x : Occurs(k, x) <=> x \in K
    BY <1>3, <1>7, <1>8, KeptOccurs
  <2> QED BY <2>1, ToSetOccurs
<1>10. PICK w \in Seq(Tasks) : w = Watcher(s)
  BY <1>3, WatcherOccurs
<1>11. PICK W \in SUBSET Tasks : W = Watching(s)
  BY WatchersRest
<1>12. IsInjective(w) /\ \A x : Occurs(w, x) <=> x \in W
  BY <1>3, <1>10, <1>11, WatcherOccurs
<1>13. PICK Q : Q = {u \in Tasks : Occurs(queue[s], u)}
  OBVIOUS
<1>14. \A x : x \in Q <=> Occurs(r, x)
  <2>1. \A x : Occurs(c, x) => x \in Tasks
    BY <1>4, OccursIn
  <2> QED BY <1>3, <1>4, <1>6, <1>13, <2>1
<1>15. \A u \in Q : /\ u \in Tasks /\ ~Occurs(loop.ready, u) /\ u \notin parked
                    /\ task[u].at \in HeldCalls \cup FreeCalls
                    /\ (AtGate(task[u]) <=> Occurs(loop.gate, u))
  BY <1>13, WhereTasksAre
<1>16. \A u \in K : /\ u \in Tasks /\ ~Occurs(loop.ready, u) /\ u \in parked
                    /\ task[u].at \in HeldCalls \cup FreeCalls
                    /\ (AtGate(task[u]) <=> Occurs(loop.gate, u))
  BY <1>3, WhereTasksAre DEF HeldCalls, FreeCalls
<1>17. \A u \in W : /\ u \in Tasks /\ ~Occurs(loop.ready, u) /\ ~Occurs(loop.gate, u)
                    /\ ~AtGate(task[u]) /\ task[u].at = "changed" /\ task[u].at \notin FreeCalls
  BY <1>11, WatchersRest
<1>18. \A u \in W : u \notin Q /\ u \notin K
  BY <1>15, <1>16, <1>17 DEF HeldCalls, FreeCalls
<1>19. PICK T : T = Q \cup K \cup W
  OBVIOUS
<1>20. PICK a \in Answers : a = "error"
  BY DEF Answers
<1>21. PICK m1 : m1 = Woken(loop, k, a)
  OBVIOUS
<1>40. PICK g \in Seq(Tasks) : g = k
  BY <1>9
<1>41. IsInjective(g) /\ \A x : Occurs(g, x) <=> x \in K
  BY <1>9, <1>40
<1>23. /\ m1 \in LoopType /\ m1.ready = loop.ready \o g /\ m1.gate = loop.gate
       /\ \A u \in Tasks : m1.task[u] =
            IF Occurs(g, u) THEN WithAnswer(task[u], a) ELSE task[u]
  <2>1. m1 = Woken(loop, g, a)
    BY <1>21, <1>40
  <2>2. /\ Woken(loop, g, a) \in LoopType
        /\ Woken(loop, g, a).ready = loop.ready \o g /\ Woken(loop, g, a).gate = loop.gate
        /\ \A u \in Tasks : Woken(loop, g, a).task[u] =
             IF Occurs(g, u) THEN WithAnswer(loop.task[u], a) ELSE loop.task[u]
    <3>1. PICK n \in Seq(Tasks) : n = g
      OBVIOUS
    <3>2. PICK e \in Answers : e = a
      OBVIOUS
    <3>4. PICK l \in LoopType : l = loop
      BY <1>3
    <3>3. /\ Woken(l, n, e) \in LoopType
          /\ Woken(l, n, e).ready = l.ready \o n /\ Woken(l, n, e).gate = l.gate
          /\ \A u \in Tasks : Woken(l, n, e).task[u] =
               IF Occurs(n, u) THEN WithAnswer(l.task[u], e) ELSE l.task[u]
      BY WokenSets
    <3> QED BY <3>1, <3>2, <3>3, <3>4
  <2> QED BY <1>3, <2>1, <2>2
<1>24. PICK m2 : m2 = [m1 EXCEPT !.ready = m1.ready \o w]
  OBVIOUS
<1>25. /\ m1.ready \in Seq(Tasks) /\ IsInjective(m1.ready)
       /\ \A x : Occurs(m1.ready, x) <=> Occurs(loop.ready, x) \/ x \in K
       /\ \A y, z : Before(loop.ready, y, z) => Before(m1.ready, y, z)
  <2>1. \A x : ~(Occurs(loop.ready, x) /\ Occurs(g, x))
    BY <1>14, <1>15, <1>16, <1>41
  <2>2. PICK h : h = loop.ready \o g
    OBVIOUS
  <2>3. /\ h \in Seq(Tasks) /\ IsInjective(h)
        /\ \A x : Occurs(h, x) <=> Occurs(loop.ready, x) \/ Occurs(g, x)
        /\ \A y, z : Before(loop.ready, y, z) => Before(h, y, z)
    <3>1. PICK d \in Seq(Tasks) : d = loop.ready
      BY <1>3
    <3>2. IsInjective(d) /\ IsInjective(g)
      BY <1>3, <1>41, <3>1
    <3>3. (\A x : ~(Occurs(d, x) /\ Occurs(g, x))) /\ h = d \o g
      BY <2>1, <2>2, <3>1
    <3>4. /\ h \in Seq(Tasks) /\ IsInjective(h)
          /\ \A x : Occurs(h, x) <=> Occurs(d, x) \/ Occurs(g, x)
          /\ \A y, z : Before(d, y, z) => Before(h, y, z)
      BY <3>2, <3>3, Joining
    <3> QED BY <3>1, <3>4
  <2>4. m1.ready = h
    BY <1>23, <2>2
  <2> QED BY <1>41, <2>3, <2>4
<1>26. /\ m1.ready \o w \in Seq(Tasks) /\ IsInjective(m1.ready \o w)
       /\ \A x : Occurs(m1.ready \o w, x) <=> Occurs(loop.ready, x) \/ x \in K \/ x \in W
       /\ \A y, z : Before(loop.ready, y, z) => Before(m1.ready \o w, y, z)
  <2>1. \A x : ~(Occurs(m1.ready, x) /\ Occurs(w, x))
    BY <1>12, <1>14, <1>17, <1>18, <1>25
  <2> QED BY <1>12, <1>25, <2>1, ConcatOccurs
<1>27. m2 \in LoopType /\ m2.ready = m1.ready \o w /\ m2.gate = loop.gate /\ m2.task = m1.task
  BY <1>23, <1>24, <1>26 DEF LoopType
<1>28. PICK m : m = Woken(m2, r, a)
  OBVIOUS
<1>29. /\ m \in LoopType /\ m.ready = m2.ready \o r /\ m.gate = loop.gate
       /\ \A u \in Tasks : m.task[u] = IF Occurs(r, u) THEN WithAnswer(m2.task[u], a) ELSE m2.task[u]
  BY <1>27, <1>28, WokenSets
<1>30. /\ IsInjective(m.ready)
       /\ \A x : Occurs(m.ready, x) <=> Occurs(loop.ready, x) \/ x \in T
       /\ \A y, z : Before(loop.ready, y, z) => Before(m.ready, y, z)
  <2>1. \A x : ~(Occurs(m2.ready, x) /\ Occurs(r, x))
    BY <1>6, <1>14, <1>15, <1>16, <1>18, <1>26, <1>27
  <2>2. /\ m2.ready \in Seq(Tasks) /\ IsInjective(m2.ready)
        /\ \A x : Occurs(m2.ready, x) <=> Occurs(loop.ready, x) \/ x \in K \/ x \in W
        /\ \A y, z : Before(loop.ready, y, z) => Before(m2.ready, y, z)
    BY <1>26, <1>27
  <2>3. /\ IsInjective(m2.ready \o r)
        /\ \A x : Occurs(m2.ready \o r, x) <=> Occurs(m2.ready, x) \/ Occurs(r, x)
        /\ \A y, z : Before(m2.ready, y, z) => Before(m2.ready \o r, y, z)
    BY <1>6, <2>1, <2>2, ConcatOccurs
  <2> QED BY <1>14, <1>19, <1>29, <2>2, <2>3
<1>31. loop' = m
  BY <1>1, <1>5, <1>7, <1>10, <1>20, <1>21, <1>24, <1>28
<1>32. ASSUME NEW u \in Tasks
       PROVE  /\ m.task[u].kind = task[u].kind /\ m.task[u].at = task[u].at
              /\ m.task[u].on = task[u].on /\ m.task[u].id = task[u].id
              /\ m.task[u].valid = task[u].valid /\ m.task[u].generation = task[u].generation
              /\ m.task[u].answer = IF u \in Q \cup K THEN a ELSE task[u].answer
  <2>1. task[u] \in TaskType
    BY <1>3
  <2>2. m.task[u] = IF u \in Q \cup K THEN WithAnswer(task[u], a) ELSE task[u]
    <3>1. CASE Occurs(r, u)
      <4>1. ~Occurs(g, u) /\ u \in Q
        BY <1>14, <1>15, <1>16, <1>41, <3>1
      <4> QED BY <1>23, <1>27, <1>29, <3>1, <4>1
    <3>2. CASE ~Occurs(r, u)
      BY <1>14, <1>41, <1>23, <1>27, <1>29, <3>2
    <3> QED BY <3>1, <3>2
  <2> QED BY <2>1, <2>2, WithAnswerType
<1>33. PICK q2 : q2 = [queue EXCEPT ![s] = <<>>]
  OBVIOUS
<1>34. InPlace(loop, q2, parked \ K, T)
  <2>1. InPlace(loop, q2, parked, {} \cup Q)
    <3>1. \A u \in Tasks : u \in Q <=> Occurs(queue[s], u)
      BY <1>13
    <3>2. PICK E : E = {}
      OBVIOUS
    <3>3. InPlace(loop, queue, parked, E)
      BY <1>3, <3>2 DEF AllInPlace
    <3>4. InPlace(loop, q2, parked, E \cup Q)
      BY <1>33, <3>1, <3>3, EmptiesQueue
    <3> QED BY <3>2, <3>4
  <2>2. {} \cup Q = Q
    OBVIOUS
  <2>3. InPlace(loop, q2, parked, Q)
    BY <2>1, <2>2
  <2>4. InPlace(loop, q2, parked \ K, Q \cup K)
    BY <2>3, Unparks
  <2>5. PICK p, A : p = parked \ K /\ A = Q \cup K
    OBVIOUS
  <2>6. InPlace(loop, q2, p, A)
    BY <2>4, <2>5
  <2>7. \A u \in W : /\ ~Occurs(loop.ready, u) /\ u \notin A /\ ~AtGate(loop.task[u])
                     /\ loop.task[u].at \notin FreeCalls
    BY <1>3, <1>17, <1>18, <2>5
  <2>8. InPlace(loop, q2, p, A \cup W)
    BY <2>6, <2>7, TakesResting
  <2> QED BY <1>19, <2>5, <2>8
<1>35. InPlace(m, q2, parked \ K, {})
  <2>1. PICK p : p = parked \ K
    OBVIOUS
  <2>2. InPlace(loop, q2, p, T)
    BY <1>34, <2>1
  <2>3. T \in SUBSET T /\ T \subseteq Tasks
    BY <1>15, <1>16, <1>19
  <2>4. \A v \in T : Awake(m.task[v]) /\ (AtGate(loop.task[v]) <=> Occurs(loop.gate, v))
    <3> SUFFICES ASSUME NEW v \in T
                 PROVE  Awake(m.task[v]) /\ (AtGate(loop.task[v]) <=> Occurs(loop.gate, v))
      OBVIOUS
    <3>1. v \in Tasks /\ task[v].at \in HeldCalls \cup FreeCalls \cup {"changed"}
      BY <1>15, <1>16, <1>17, <1>19
    <3>2. m.task[v].at = task[v].at
      BY <1>32, <3>1
    <3>3. Awake(m.task[v])
      BY <3>1, <3>2 DEF Awake, Waits, HeldCalls, FreeCalls
    <3>4. AtGate(task[v]) <=> Occurs(loop.gate, v)
      BY <3>1, WhereTasksAre
    <3> QED BY <1>3, <3>3, <3>4
  <2>5. \A v \in Tasks : m.task[v].at = loop.task[v].at /\ m.task[v].on = loop.task[v].on
    BY <1>3, <1>32
  <2>6. \A v \in Tasks \ T : m.task[v].answer = loop.task[v].answer
    BY <1>3, <1>19, <1>32
  <2>7. m \in LoopType /\ m.gate = loop.gate /\ IsInjective(m.ready)
        /\ \A x : Occurs(m.ready, x) <=> Occurs(loop.ready, x) \/ x \in T
    BY <1>29, <1>30
  <2>8. InPlace(m, q2, p, T \ T)
    BY <2>2, <2>3, <2>4, <2>5, <2>6, <2>7, Wakes
  <2>9. T \ T = {}
    OBVIOUS
  <2> QED BY <2>1, <2>8, <2>9
<1>36. parked' = parked \ K
  BY <1>1, <1>7, <1>9
<1>37. InPlace(loop', queue', parked', {})
  BY <1>2, <1>31, <1>33, <1>35, <1>36
<1>38. GrowsTo(loop.ready, loop'.ready)
  BY <1>30, <1>31 DEF GrowsTo
<1>39. \A u \in Tasks : Answered(u)
  <2> SUFFICES ASSUME NEW u \in Tasks PROVE Answered(u)
    OBVIOUS
  <2>1. task'[u] = m.task[u]
    BY <1>31 DEF task
  <2> QED BY <1>20, <1>32, <2>1 DEF Answered
<1> QED BY <1>37, <1>38, <1>39

(* The end of a session keeps the invariant: everybody who waits for it is
   answered, and its events task is told. *)
LEMMA SessionEndsKeeps ==
    ASSUME IInv, NEW s \in Sessions, SessionEnds(s)
    PROVE  IInv'
<1>1. /\ InPlace(loop', queue', parked', {}) /\ GrowsTo(loop.ready, loop'.ready)
      /\ \A u \in Tasks : Answered(u)
  BY EndMovesAll
<1>2. /\ life[s] = "open" /\ life' = [life EXCEPT ![s] = "ended"]
      /\ event' = [event EXCEPT ![s] = Disconnected] /\ active' = [active EXCEPT ![s] = NoId]
      /\ UNCHANGED uiVars /\ UNCHANGED issued
  BY DEF SessionEnds
<1>3. FieldsTyped /\ UNCHANGED activity
  BY <1>2, Parts DEF uiVars
<1>4. Disconnected \in Events
  BY DEF Events
<1>5. SessionsTyped
  BY <1>2, <1>3, <1>4 DEF SessionsTyped, FieldsTyped
<1>6. QuietSessions
  BY <1>2, <1>3 DEF QuietSessions, QuietLives, FieldsTyped
<1> QED BY <1>1, <1>2, <1>5, <1>6, SessionKeeps

(* A session takes the shutdown from its queue: no task is moved. *)
LEMMA ShutdownTaken ==
    ASSUME NEW l, NEW q, NEW p, NEW T, InPlace(l, q, p, T), NEW s \in Sessions,
           q[s] # <<>>, Head(q[s]) = Shutdown, Shutdown \notin Tasks,
           NEW q2, q2 = [q EXCEPT ![s] = Tail(@)]
    PROVE  InPlace(l, q2, p, T)
<1>1. Lined(l, q, p) /\ q \in [Sessions -> Seq(Tasks \cup {Shutdown})]
      /\ q[s] \in Seq(Tasks \cup {Shutdown}) /\ Once(q[s])
  BY DEF InPlace, Lined
<1>2. PICK c \in Seq(Tasks \cup {Shutdown}) : c = q[s]
  BY <1>1
<1>3. PICK n \in Nat : n = Len(c) /\ n # 0
  BY <1>2, EmptySeq
<1>4. /\ Tail(c) \in Seq(Tasks \cup {Shutdown}) /\ Len(Tail(c)) = n - 1
      /\ (\A i \in 1 .. n - 1 : Tail(c)[i] = c[i + 1]) /\ c[1] = Shutdown
  BY <1>2, <1>3, HeadTailProperties
<1>5. \A i, j \in 1 .. n : c[i] = c[j] /\ c[i] # Shutdown => i = j
  BY <1>1, <1>2, <1>3 DEF Once
<1>6. Once(Tail(c))
  <2> SUFFICES ASSUME NEW i \in 1 .. n - 1, NEW j \in 1 .. n - 1,
                      Tail(c)[i] = Tail(c)[j], Tail(c)[i] # Shutdown
               PROVE  i = j
    BY <1>4 DEF Once
  <2>1. i + 1 \in 1 .. n /\ j + 1 \in 1 .. n /\ c[i + 1] = c[j + 1] /\ c[i + 1] # Shutdown
    BY <1>4
  <2>2. i + 1 = j + 1
    BY <2>1, <1>5
  <2> QED BY <2>2
<1>7. \A v \in Tasks : Occurs(Tail(c), v) => Occurs(c, v)
  <2> TAKE v \in Tasks
  <2> SUFFICES ASSUME NEW i \in 1 .. n - 1, Tail(c)[i] = v PROVE Occurs(c, v)
    BY <1>4 DEF Occurs
  <2>1. i + 1 \in 1 .. n /\ c[i + 1] = v
    BY <1>4
  <2> QED BY <2>1, <1>3 DEF Occurs
<1>9. /\ q2 \in [Sessions -> Seq(Tasks \cup {Shutdown})] /\ q2[s] = Tail(c)
      /\ \A z \in Sessions \ {s} : q2[z] = q[z]
  BY <1>1, <1>2, <1>4
<1>10. Lined(l, q2, p)
  BY <1>1, <1>6, <1>9 DEF Lined
<1>12. ASSUME NEW v \in Tasks PROVE Placed(l, q2, p, T, v)
  <2>1. Placed(l, q, p, T, v)
    BY DEF InPlace
  <2>2. \A z \in Sessions : Occurs(q2[z], v) => Occurs(q[z], v)
    BY <1>2, <1>7, <1>9
  <2> QED BY <2>1, <2>2 DEF Placed
<1> QED BY <1>10, <1>12 DEF InPlace

(* A session takes the shutdown and leaves its loop. *)
LEMMA ShutdownKeeps ==
    ASSUME IInv, NEW s \in Sessions, ShutdownHandled(s)
    PROVE  IInv'
<1>1. /\ queue[s] # <<>> /\ Head(queue[s]) = Shutdown
      /\ queue' = [queue EXCEPT ![s] = Tail(@)]
      /\ UNCHANGED uiVars /\ UNCHANGED <<loop, life, parked, active, event, issued>>
  BY DEF ShutdownHandled
<1>2. AllInPlace /\ Shutdown \notin Tasks
  BY Parts, LoopTyped
<1>3. PICK E : E = {}
  OBVIOUS
<1>4. InPlace(loop, queue, parked, E)
  BY <1>2, <1>3 DEF AllInPlace
<1>5. InPlace(loop, queue', parked, E)
  BY <1>1, <1>2, <1>4, ShutdownTaken
<1>6. InPlace(loop', queue', parked', {})
  BY <1>1, <1>3, <1>5
<1>7. GrowsTo(loop.ready, loop'.ready)
  BY <1>1 DEF GrowsTo
<1>8. \A u \in Tasks : Answered(u)
  BY <1>1 DEF Answered, task
<1>9. SessionsTyped /\ QuietSessions
  <2>1. UNCHANGED <<activity, life, event, issued>> /\ active' = active
    BY <1>1 DEF uiVars
  <2> QED BY <2>1, UploadQuiet
<1> QED BY <1>1, <1>6, <1>7, <1>8, <1>9, SessionKeeps

(* The loop of a session breaks: its command, if one was taken, is answered. *)
LEMMA LoopBreaksKeeps ==
    ASSUME IInv, NEW s \in Sessions, LoopBreaks(s)
    PROVE  IInv'
<1>1. UNCHANGED uiVars /\ UNCHANGED <<life, parked, active, event, issued>>
  BY DEF LoopBreaks
<1>2. SessionsTyped /\ QuietSessions
  <2>1. UNCHANGED <<activity, life, event, issued>> /\ active' = active
    BY <1>1 DEF uiVars
  <2> QED BY <2>1, UploadQuiet
<1>3. CASE UNCHANGED <<loop, queue>>
  <2>1. InPlace(loop', queue', parked', {})
    <3>1. InPlace(loop, queue, parked, {})
      BY Parts DEF AllInPlace
    <3> QED BY <1>1, <1>3, <3>1
  <2>2. GrowsTo(loop.ready, loop'.ready) /\ \A u \in Tasks : Answered(u)
    BY <1>3 DEF GrowsTo, Answered, task
  <2> QED BY <1>1, <1>2, <2>1, <2>2, SessionKeeps
<1>4. CASE ~UNCHANGED <<loop, queue>>
  <2>1. PICK t : t = Head(queue[s])
    OBVIOUS
  <2>2. /\ queue[s] # <<>> /\ Head(queue[s]) # Shutdown
        /\ loop' = Wake(loop, t, "error") /\ queue' = [queue EXCEPT ![s] = Tail(@)]
    BY <1>4, <2>1 DEF LoopBreaks
  <2>3. PICK a \in {"ok", "error"} : a = "error"
    OBVIOUS
  <2>4. loop' = Wake(loop, t, a) /\ (a = "ok" => task[t].at # "begin") /\ UNCHANGED parked
    BY <1>1, <2>2, <2>3
  <2> QED BY <1>1, <1>2, <2>1, <2>2, <2>4, AnswerAtOnce
<1> QED BY <1>3, <1>4

(* A step of a session. *)
LEMMA ActorsKeep ==
    ASSUME IInv, Actors
    PROVE  IInv'
<1>1. PICK s \in Sessions :
        \/ HandleCommand(s) \/ ShutdownHandled(s) \/ PeerAnswers(s) \/ PeerAsks(s)
        \/ LoopBreaks(s) \/ SessionEnds(s)
  BY DEF Actors
<1>2. CASE HandleCommand(s)
  BY <1>2, HandlesCommand
<1>3. CASE ShutdownHandled(s)
  BY <1>3, ShutdownKeeps
<1>4. CASE PeerAnswers(s)
  BY <1>4, PeerAnswersKeeps
<1>5. CASE PeerAsks(s)
  BY <1>5, PeerAsksKeeps
<1>6. CASE LoopBreaks(s)
  BY <1>6, LoopBreaksKeeps
<1>7. CASE SessionEnds(s)
  BY <1>7, SessionEndsKeeps
<1> QED BY <1>1, <1>2, <1>3, <1>4, <1>5, <1>6, <1>7

-----------------------------------------------------------------------------
(***************************************************************************)
(* The theorems.                                                           *)
(***************************************************************************)

(* At the start there is no task, no command and no session. *)
LEMMA InitHolds ==
    ASSUME Init
    PROVE  IInv
<1>1. /\ \A u \in Tasks : task[u] = NoTask
      /\ loop.ready = <<>> /\ loop.gate = <<>> /\ parked = {}
      /\ queue = [s \in Sessions |-> <<>>]
  BY DEF Init, task
<1>2. NoTask \in TaskType /\ NoTask.at = "none" /\ NoTask.kind = "none" /\ NoTask.valid = FALSE
      /\ NoTask.id = NoId /\ NoTask.on = NoSession /\ NoTask.answer = "none"
  BY NoTaskType DEF NoTask
<1>3. loop \in LoopType
  <2>1. [u \in Tasks |-> NoTask] \in [Tasks -> TaskType] /\ <<>> \in Seq(Tasks) /\ 0 \in Tasks \cup {0}
    BY <1>2, EmptySeq
  <2> QED BY <2>1 DEF Init, LoopType
<1>4. Lined(loop, queue, parked)
  <2>1. <<>> \in Seq(Tasks \cup {Shutdown}) /\ Once(<<>>) /\ IsInjective(<<>>)
    BY EmptySeq DEF Once, IsInjective
  <2> QED BY <1>1, <1>3, <2>1 DEF Lined
<1>5. \A u \in Tasks : Placed(loop, queue, parked, {}, u)
  <2> SUFFICES ASSUME NEW u \in Tasks PROVE Placed(loop, queue, parked, {}, u)
    OBVIOUS
  <2>1. loop.task[u].at = "none" /\ ~AtGate(loop.task[u]) /\ loop.task[u].at \notin HeldCalls
    BY <1>1, <1>2 DEF task, AtGate, GateStations, HeldCalls
  <2>2. /\ ~Occurs(loop.ready, u) /\ ~Occurs(loop.gate, u)
        /\ \A s \in Sessions : ~Occurs(queue[s], u)
    BY <1>1, EmptyOccurs
  <2> QED BY <1>1, <2>1, <2>2 DEF Placed
<1>6. FieldsTyped
  <2>1. state \in StateType /\ state.session = NoSession /\ state.generation = 0
        /\ state.recorder = FALSE
    BY DEF Init, StateType
  <2>2. app \in AppType /\ app.remote_connected = FALSE
    BY DEF Init, AppType, Dialogs
  <2>3. activity \in ActivityType
    BY AppAssumption DEF Init, ActivityType
  <2>4. /\ life \in [Sessions -> {"unborn", "open", "ended"}]
        /\ active \in [Sessions -> Ids \cup {NoId}] /\ event \in [Sessions -> Events]
    BY DEF Init, Events
  <2>5. issued \in [Sessions -> 0 .. MaxRequests]
    <3>1. PICK n \in Nat : n = MaxRequests
      BY AppAssumption
    <3>2. 0 \in 0 .. n
      OBVIOUS
    <3> QED BY <3>1, <3>2 DEF Init
  <2>6. \A u \in Tasks : Shaped(task[u])
    BY <1>1, <1>2 DEF Shaped, HeldCalls, FreeCalls
  <2> QED BY <2>1, <2>2, <2>3, <2>4, <2>5, <2>6 DEF FieldsTyped
<1>7. WindowInv
  <2>1. \A u \in Tasks : ~LiveScan(u) /\ ~Leaving(u) /\ task[u].on = NoSession /\ task[u].kind # "events"
    BY <1>1, <1>2 DEF LiveScan, Leaving
  <2>2. /\ state.session = NoSession /\ state.generation = 0 /\ app.remote_connected = FALSE
        /\ \A s \in Sessions : life[s] = "unborn" /\ event[s] # Disconnected
    BY DEF Init, Nothing, Disconnected
  <2>3. NoneLeaving
    BY <2>1 DEF NoneLeaving
  <2>4. Spent = 0
    BY <2>2, <2>3 DEF Spent
  <2>5. \A k \in 0 .. MaxSessions : state.generation + Spent <= 2 * k
    <3>1. \A k \in 0 .. MaxSessions : k \in Nat
      OBVIOUS
    <3> QED BY <2>2, <2>4, <3>1
  <2> QED BY <2>1, <2>2, <2>5 DEF WindowInv
<1>8. RecordInv
  <2>1. /\ state.recording_request_id = NoId /\ state.pending_request_id = NoId
        /\ state.pending_decision = NoId /\ state.recorder = FALSE
    BY DEF Init
  <2>2. Known(NoId)
    BY DEF Known
  <2>3. \A u \in Tasks : task[u].id = NoId /\ task[u].at # "begin" /\ ~Fresh(u)
    BY <1>1, <1>2 DEF Fresh
  <2> QED BY <2>1, <2>2, <2>3 DEF RecordInv, Known
<1> QED BY <1>4, <1>5, <1>6, <1>7, <1>8 DEF IInv, AllInPlace, InPlace

(* Every step keeps the invariant. *)
LEMMA NextKeeps ==
    ASSUME IInv, [Next]_vars
    PROVE  IInv'
<1>1. CASE Callbacks
  BY <1>1, CallbacksKeep
<1>2. CASE Turn
  BY <1>2, TurnKeeps
<1>3. CASE Outside
  BY <1>3, OutsideKeeps DEF Outside
<1>4. CASE Actors
  BY <1>4, ActorsKeep
<1>5. CASE UNCHANGED vars
  <2>1. UNCHANGED <<state, app, activity, loop, life, queue, parked, active, event, issued>>
    BY <1>5 DEF vars, uiVars, sessionVars
  <2>2. AllInPlace' /\ FieldsTyped'
    BY <2>1 DEF IInv, AllInPlace, FieldsTyped, task
  <2>3. WindowInv'
    BY <2>1 DEF IInv, WindowInv, task, LiveScan, Leaving, NoneLeaving, Reaches, Spent, BornUpTo
  <2>4. RecordInv'
    BY <2>1 DEF IInv, RecordInv, task, Known, Fresh, OwnIds
  <2> QED BY <2>2, <2>3, <2>4 DEF IInv
<1> QED BY <1>1, <1>2, <1>3, <1>4, <1>5 DEF Next

(* The invariant of the application and its tasks. *)
THEOREM TasksInPlace == Spec => []IInv
<1>1. Init => IInv
  BY InitHolds
<1>2. IInv /\ [Next]_vars => IInv'
  BY NextKeeps
<1> QED BY <1>1, <1>2, PTL DEF Spec

\* A loop is left for the close of the socket by a session only.
ClosingTyped == closing \subseteq Sessions

(* Only a session of the model closes its socket. *)
LEMMA OnlySessionsClose == Spec => []ClosingTyped
<1>1. Init => ClosingTyped
  BY DEF Init, ClosingTyped
<1>2. ClosingTyped /\ [Next]_vars => ClosingTyped'
  <2> SUFFICES ASSUME ClosingTyped, [Next]_vars PROVE ClosingTyped'
    OBVIOUS
  <2>1. CASE closing' = closing
    BY <2>1 DEF ClosingTyped
  <2>2. CASE Actors
    <3>1. PICK s \in Sessions :
            \/ HandleCommand(s) \/ ShutdownHandled(s) \/ PeerAnswers(s) \/ PeerAsks(s)
            \/ LoopBreaks(s) \/ SessionEnds(s)
      BY <2>2 DEF Actors
    <3>2. closing' \in {closing, closing \cup {s}, closing \ {s}}
      BY <3>1 DEF HandleCommand, ShutdownHandled, PeerAnswers, PeerAsks, LoopBreaks, SessionEnds
    <3> QED BY <3>2 DEF ClosingTyped
  <2>3. ASSUME Callbacks \/ Turn \/ Outside \/ UNCHANGED vars
        PROVE  closing' = closing
    BY <2>3 DEF Callbacks, Taps, TapMicrophone, TapCancel, TapDialog, TapDisconnect, TapScan,
                TickDue, Pause, Stop, Resume, Turn, Outside, PermissionPolled,
                CameraReturns, HandshakeEnds, vars, sessionVars
  <2> QED BY <2>1, <2>2, <2>3 DEF Next
<1> QED BY <1>1, <1>2, PTL DEF Spec

(* The invariant gives the types. *)
LEMMA InvariantTypes ==
    ASSUME IInv, ClosingTyped
    PROVE  TypeOK
<1>1. /\ state \in StateType /\ app \in AppType /\ activity \in ActivityType
      /\ FieldsTyped /\ WindowInv /\ AllInPlace
  BY Parts
<1>2. state.generation \in 0 .. 2 * MaxSessions
  <2>1. PICK n \in Nat : n = MaxSessions
    BY AppAssumption
  <2>2. BornUpTo(n) /\ n \in 0 .. MaxSessions
    BY <2>1 DEF BornUpTo, Sessions
  <2>3. state.generation + Spent <= 2 * n
    BY <1>1, <2>2 DEF WindowInv
  <2>4. Spent \in Nat /\ state.generation \in Nat
    BY <1>1 DEF Spent, StateType
  <2> QED BY <2>1, <2>3, <2>4
<1>3. state \in [session : Sessions \cup {NoSession}, generation : 0 .. 2 * MaxSessions,
                 recorder : BOOLEAN, recording_request_id : Ids \cup {NoId},
                 pending_request_id : Ids \cup {NoId}, pending_decision : Ids \cup {NoId}]
  BY <1>1, <1>2 DEF StateType
<1>4. /\ DOMAIN loop.task = Tasks /\ loop.ready \in Seq(Tasks) /\ IsInjective(loop.ready)
      /\ loop.turn \in Tasks \cup {0} /\ loop.gate \in Seq(Tasks) /\ IsInjective(loop.gate)
      /\ queue \in [Sessions -> Seq(Tasks \cup {Shutdown})] /\ parked \subseteq Tasks
  <2>1. Lined(loop, queue, parked)
    BY <1>1 DEF AllInPlace, InPlace
  <2> QED BY <2>1, LoopFields DEF Lined
<1> QED BY <1>1, <1>3, <1>4 DEF TypeOK, ClosingTyped, AppType, ActivityType, FieldsTyped

(* The application's variables keep their types; the generation, which counts
   installs and disconnects, never passes twice the number of sessions. *)
THEOREM TypeCorrect == Spec => []TypeOK
<1>1. IInv /\ ClosingTyped => TypeOK
  BY InvariantTypes
<1> QED BY <1>1, TasksInPlace, OnlySessionsClose, PTL

(* The window says it is connected exactly when the application holds a session,
   but for a disconnect that is posted. *)
THEOREM WindowAlwaysShowsSession == Spec => []WindowShowsSession
<1>1. IInv => WindowShowsSession
  <2> SUFFICES ASSUME IInv, ~Pending("disconnect")
               PROVE  app.remote_connected <=> state.session # NoSession
    BY DEF WindowShowsSession
  <2>1. NoneLeaving
    <3> SUFFICES ASSUME NEW d \in Tasks, Leaving(d) PROVE FALSE
      BY DEF NoneLeaving
    <3>1. Shaped(task[d])
      BY Parts
    <3> QED BY <3>1 DEF Shaped, Leaving, Pending
  <2> QED BY <2>1, Parts DEF WindowInv
<1> QED BY <1>1, TasksInPlace, PTL

(* A recording is of the session the application is connected to, and its upload
   is the one that session has open. *)
THEOREM AlwaysRecordsOnCurrentSession == Spec => []RecordsOnCurrentSession
<1>1. IInv => RecordsOnCurrentSession
  BY Parts DEF RecordInv, RecordsOnCurrentSession
<1> QED BY <1>1, TasksInPlace, PTL

(* A turn that is not of the disconnect or of the events. *)
LEMMA OwnTurnsKeepSession ==
    ASSUME IInv, NEW t \in Tasks,
           \/ ToggleStarts(t) \/ ToggleResumes(t) \/ StartRecording(t)
           \/ RecordingBegins(t) \/ RecordingUndone(t)
           \/ CancelStarts(t) \/ CancelDone(t)
           \/ TickStarts(t) \/ TickDrains(t) \/ TickSent(t)
           \/ Finalize(t) \/ LastChunkSent(t) \/ PreviewArrives(t)
           \/ AnswerStarts(t) \/ DecisionSent(t) \/ Confirmed(t)
           \/ ScanStarts(t) \/ ScanResumes(t) \/ ScanPublished(t)
           \/ Connects(t) \/ Subscribes(t)
    PROVE  state'.session = state.session
<1>1. state \in StateType
  BY Parts
<1>2. CASE ToggleStarts(t) \/ ToggleResumes(t) \/ StartRecording(t) \/ RecordingUndone(t)
           \/ CancelDone(t) \/ TickStarts(t) \/ LastChunkSent(t) \/ DecisionSent(t)
           \/ ScanStarts(t) \/ ScanResumes(t) \/ ScanPublished(t) \/ Connects(t) \/ Subscribes(t)
  BY <1>2 DEF ToggleStarts, ToggleResumes, StartRecording, RecordingUndone, CancelDone, TickStarts,
              LastChunkSent, DecisionSent, ScanStarts, ScanResumes, ScanPublished, Connects, Subscribes
<1>3. CASE RecordingBegins(t)
  BY <1>1, <1>3 DEF RecordingBegins, StateType
<1>4. CASE CancelStarts(t)
  BY <1>1, <1>4 DEF CancelStarts, ClearedRequest, StateType
<1>5. CASE TickDrains(t)
  BY <1>1, <1>5 DEF TickDrains, Aborts, Aborted, StateType
<1>6. CASE TickSent(t)
  BY <1>1, <1>6 DEF TickSent, Aborts, Aborted, StateType
<1>7. CASE Finalize(t)
  BY <1>1, <1>7 DEF Finalize, StateType
<1>8. CASE PreviewArrives(t)
  BY <1>1, <1>8 DEF PreviewArrives, StateType
<1>9. CASE AnswerStarts(t)
  BY <1>1, <1>9 DEF AnswerStarts, StateType
<1>10. CASE Confirmed(t)
  BY <1>1, <1>10 DEF Confirmed, StateType
<1> QED BY <1>2, <1>3, <1>4, <1>5, <1>6, <1>7, <1>8, <1>9, <1>10

(* The connection goes from the application only by its user's disconnect or by
   the end of that very session. *)
LEMMA SessionLost ==
    ASSUME IInv, Next, state.session # NoSession, state'.session = NoSession
    PROVE  Pending("disconnect") \/ life[state.session] = "ended"
<1>1. CASE Callbacks \/ Outside \/ Actors
  <2>1. state' = state
    BY <1>1 DEF Callbacks, Taps, TickDue, Pause, Stop, Resume, Outside, PermissionPolled,
                CameraReturns, HandshakeEnds, Actors, HandleCommand, ShutdownHandled, PeerAnswers,
                PeerAsks, LoopBreaks, SessionEnds, uiVars
  <2> QED BY <2>1
<1>2. CASE Turn
  <2>1. PICK t : t = Head(loop.ready) /\ t \in Tasks
    BY <1>2, Parts, LoopTyped, HeadOccurs DEF Turn
  <2>2. CASE Disconnects(t)
    BY <2>1, <2>2 DEF Disconnects, Resumes, Pending
  <2>3. CASE Installs(t)
    <3>1. state'.session \in {state.session, task[t].on}
      BY <2>3, Parts DEF Installs, ClearedRequest, StateType
    <3>2. task[t].at = "install" /\ Shaped(task[t])
      BY <2>1, <2>3, Parts DEF Installs, Resumes
    <3>3. task[t].on \in Sessions
      BY <3>2 DEF Shaped
    <3> QED BY <3>1, <3>3 DEF Sessions, NoSession
  <2>4. CASE EventRead(t)
    <3>1. state'.session = state.session \/ (SameGeneration(t) /\ event[task[t].on] = Disconnected)
      BY <2>4, Parts DEF EventRead, StateType
    <3>2. task[t].kind = "events" /\ Shaped(task[t]) /\ WindowInv
      BY <2>1, <2>4, Parts DEF EventRead, Resumes
    <3>3. SameGeneration(t) => state.session = task[t].on
      BY <2>1, <3>2 DEF WindowInv, SameGeneration
    <3>4. task[t].on \in Sessions
      BY <3>2 DEF Shaped
    <3> QED BY <3>1, <3>2, <3>3, <3>4 DEF WindowInv
  <2>5. CASE ~(Disconnects(t) \/ Installs(t) \/ EventRead(t))
    <3>1. state'.session = state.session
      BY <1>2, <2>1, <2>5, OwnTurnsKeepSession DEF Turn
    <3> QED BY <3>1
  <2> QED BY <2>2, <2>3, <2>4, <2>5
<1> QED BY <1>1, <1>2 DEF Next

(* The application loses its session only to a disconnect its user posted, or to the
   end of the session it is connected to, never to the late end of an earlier one. *)
THEOREM OnlyItsOwnEndDisconnects == Spec => OnlyOwnEndDisconnects
<1>1. IInv /\ [Next]_vars =>
        [state.session # NoSession /\ state'.session = NoSession
            => Pending("disconnect") \/ life[state.session] = "ended"]_vars
  BY SessionLost
<1> QED BY <1>1, TasksInPlace, PTL DEF Spec, OnlyOwnEndDisconnects
=============================================================================
