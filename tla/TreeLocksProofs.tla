--------------------------- MODULE TreeLocksProofs ---------------------------
(***************************************************************************)
(* The lock hierarchy of the tree package, for any number of goroutines:   *)
(* as long as nobody calls GetAtVersion, the one method that read-locks    *)
(* Tree.mu twice, every lock asked for is above the locks held, and no     *)
(* goroutines wait for one another in a circle.                            *)
(*                                                                         *)
(* The argument is about the shape of a method: short critical sections of *)
(* one inner lock each, one after the other, either alone or all of them   *)
(* inside writeMu.  What is left of a method of this shape tells which     *)
(* locks its caller holds (ClientShape), and every step keeps that true.   *)
(***************************************************************************)
EXTENDS TreeLocks, TLAPS

\* The locks below writeMu in the hierarchy.
Inner == Locks \ {"writeMu"}

\* The lock operations.
Ops == [op : {"RLock", "Lock", "Unlock"}, lock : Locks]

\* The operations that take lock l.
Takes(l) == {R(l), L(l)}

\* Critical sections of one inner lock each, one after the other.
Sections(s) ==
    /\ s \in Seq(Ops)
    /\ \A i \in 1 .. Len(s) : \E l \in Inner :
        \/ s[i] \in Takes(l) /\ i + 1 \in 1 .. Len(s) /\ s[i + 1] = U(l)
        \/ s[i] = U(l) /\ i - 1 \in 1 .. Len(s) /\ s[i - 1] \in Takes(l)

\* What may be left of a method: some of its first operations are done.
Remainder(s) ==
    /\ s \in Seq(Ops)
    /\ \A i \in 1 .. Len(s) :
        \/ s[i] = L("writeMu") /\ i = 1 /\ s[Len(s)] = U("writeMu")
        \/ s[i] = U("writeMu") /\ i = Len(s)
        \/ \E l \in Inner :
             s[i] \in Takes(l) /\ i + 1 \in 1 .. Len(s) /\ s[i + 1] = U(l)
        \/ \E l \in Inner :
             s[i] = U(l) /\ (i = 1 \/ s[i - 1] \in Takes(l))

\* The locks a client holds follow from what it has left to do.
ClientShape(c) ==
    /\ Remainder(todo[c])
    /\ writer["writeMu"] = c <=>
         /\ todo[c] # <<>>
         /\ todo[c][1] # L("writeMu")
         /\ todo[c][Len(todo[c])] = U("writeMu")
    /\ \A l \in Inner :
         Holds(c, l) <=> todo[c] # <<>> /\ todo[c][1] = U(l)
    /\ readers["writeMu"][c] = 0

\* The inductive invariant: types, shapes, no lock read and written by one
\* client, and an announced writer waits at its Lock while nobody writes.
LocksInv ==
    /\ todo \in [Clients -> Seq(Ops)]
    /\ readers \in [Locks -> [Clients -> {0, 1}]]
    /\ writer \in [Locks -> Clients \cup {Nobody}]
    /\ announced \in [Locks -> Clients \cup {Nobody}]
    /\ \A c \in Clients : ClientShape(c)
    /\ \A l \in Locks, c \in Clients :
         /\ writer[l] = c => readers[l][c] = 0
         /\ announced[l] = c =>
              todo[c] # <<>> /\ todo[c][1] = L(l) /\ writer[l] = Nobody

-----------------------------------------------------------------------------
(* The methods have the shape.                                             *)

\* No critical section, and one.
LEMMA SectionsBase ==
    /\ Sections(<<>>)
    /\ \A l \in Inner : Sections(Read(l)) /\ Sections(Write(l))
    <1>1. Sections(<<>>)
        BY DEF Sections
    <1>2. ASSUME NEW l \in Inner, NEW x \in Takes(l) PROVE Sections(<<x, U(l)>>)
        <2>1. x \in Ops /\ U(l) \in Ops
            BY DEF Inner, Takes, R, L, U, Ops
        <2>2. PICK s : s = <<x, U(l)>>
            OBVIOUS
        <2>3. s \in Seq(Ops) /\ Len(s) = 2 /\ s[1] = x /\ s[2] = U(l)
            BY <2>1, <2>2
        <2> QED
            BY <2>2, <2>3 DEF Sections
    <1> QED
        BY <1>1, <1>2 DEF Read, Write, Takes

\* What one sequence after another is, index by index.
LEMMA Join ==
    ASSUME NEW s \in Seq(Ops), NEW t \in Seq(Ops)
    PROVE  /\ s \o t \in Seq(Ops)
           /\ Len(s) \in Nat /\ Len(t) \in Nat
           /\ Len(s \o t) = Len(s) + Len(t)
           /\ \A i \in 1 .. Len(s) : (s \o t)[i] = s[i]
           /\ \A i \in 1 .. Len(t) : (s \o t)[Len(s) + i] = t[i]
    OBVIOUS

\* One list of critical sections after another.
LEMMA SectionsJoin ==
    ASSUME NEW s, NEW t, Sections(s), Sections(t)
    PROVE  Sections(s \o t)
    <1>1. s \in Seq(Ops) /\ t \in Seq(Ops)
        BY DEF Sections
    <1>2. PICK m, n, r : m = Len(s) /\ n = Len(t) /\ r = s \o t
        OBVIOUS
    <1>3. /\ m \in Nat /\ n \in Nat /\ r \in Seq(Ops) /\ Len(r) = m + n
          /\ \A i \in 1 .. m : r[i] = s[i]
          /\ \A i \in 1 .. n : r[m + i] = t[i]
        BY <1>1, <1>2, Join
    <1>4. ASSUME NEW i \in 1 .. Len(r)
          PROVE  \E l \in Inner :
                    \/ r[i] \in Takes(l) /\ i + 1 \in 1 .. Len(r) /\ r[i + 1] = U(l)
                    \/ r[i] = U(l) /\ i - 1 \in 1 .. Len(r) /\ r[i - 1] \in Takes(l)
        <2>1. CASE i <= m
            <3>1. i \in 1 .. m
                BY <1>3, <2>1
            <3>2. PICK l \in Inner :
                    \/ s[i] \in Takes(l) /\ i + 1 \in 1 .. m /\ s[i + 1] = U(l)
                    \/ s[i] = U(l) /\ i - 1 \in 1 .. m /\ s[i - 1] \in Takes(l)
                BY <1>2, <3>1 DEF Sections
            <3> QED
                BY <1>3, <3>1, <3>2
        <2>2. CASE ~ (i <= m)
            <3>1. PICK j \in 1 .. n : i = m + j
                <4>1. i - m \in 1 .. n /\ i = m + (i - m)
                    BY <1>3, <2>2
                <4> QED
                    BY <4>1
            <3>2. PICK l \in Inner :
                    \/ t[j] \in Takes(l) /\ j + 1 \in 1 .. n /\ t[j + 1] = U(l)
                    \/ t[j] = U(l) /\ j - 1 \in 1 .. n /\ t[j - 1] \in Takes(l)
                BY <1>2, <3>1 DEF Sections
            <3>3. CASE t[j] \in Takes(l) /\ j + 1 \in 1 .. n /\ t[j + 1] = U(l)
                <4>1. r[m + (j + 1)] = t[j + 1] /\ m + (j + 1) = i + 1
                    BY <1>3, <3>1, <3>3
                <4> QED
                    BY <1>3, <3>1, <3>3, <4>1
            <3>4. CASE t[j] = U(l) /\ j - 1 \in 1 .. n /\ t[j - 1] \in Takes(l)
                <4>1. r[m + (j - 1)] = t[j - 1] /\ m + (j - 1) = i - 1
                    BY <1>3, <3>1, <3>4
                <4> QED
                    BY <1>3, <3>1, <3>4, <4>1
            <3> QED
                BY <3>2, <3>3, <3>4
        <2> QED
            BY <2>1, <2>2
    <1> QED
        BY <1>2, <1>3, <1>4 DEF Sections

\* A method none of whose operations is done: it holds nothing yet.
Whole(s) ==
    /\ Remainder(s)
    /\ s # <<>> =>
        /\ s[1] = L("writeMu") \/ s[Len(s)] # U("writeMu")
        /\ \A l \in Inner : s[1] # U(l)

\* Critical sections are a method, alone or inside writeMu.
LEMMA WholeMethods ==
    ASSUME NEW s, Sections(s)
    PROVE  Whole(s) /\ Whole(UnderWriteMu(s))
    <1>1. s \in Seq(Ops)
        BY DEF Sections
    <1>2. PICK n : n = Len(s)
        OBVIOUS
    <1>3. n \in Nat
        BY <1>1, <1>2
    <1>4. \A l, h \in Locks : /\ U(l) \notin Takes(h)
                              /\ U(l) = U(h) => l = h
                              /\ L("writeMu") # U(l)
                              /\ L("writeMu") \in Takes(l) => l = "writeMu"
        BY DEF U, L, R, Takes
    <1>5. ASSUME NEW i \in 1 .. n
          PROVE  \E l \in Inner :
                    \/ s[i] \in Takes(l) /\ i + 1 \in 1 .. n /\ s[i + 1] = U(l)
                    \/ s[i] = U(l) /\ i - 1 \in 1 .. n /\ s[i - 1] \in Takes(l)
        BY <1>2 DEF Sections
    <1>6. Inner \subseteq Locks /\ "writeMu" \notin Inner /\ "writeMu" \in Locks
        BY DEF Inner, Locks
    <1>7. Whole(s)
        <2>1. Remainder(s)
            BY <1>1, <1>2, <1>5 DEF Remainder
        <2>2. ASSUME s # <<>>
              PROVE  s[Len(s)] # U("writeMu") /\ \A l \in Inner : s[1] # U(l)
            <3>1. n # 0
                BY <1>1, <1>2, <2>2
            <3>2. 1 \in 1 .. n /\ n \in 1 .. n
                BY <1>3, <3>1
            <3>3. PICK l \in Inner : s[1] \in Takes(l)
                <4>1. 1 - 1 \notin 1 .. n
                    BY <1>3
                <4> QED
                    BY <1>5, <3>2, <4>1
            <3>4. s[n] # U("writeMu")
                BY <1>4, <1>5, <1>6, <3>2
            <3> QED
                BY <1>2, <1>4, <1>6, <3>3, <3>4
        <2> QED
            BY <2>1, <2>2 DEF Whole
    <1>8. Whole(UnderWriteMu(s))
        <2>1. PICK r : r = UnderWriteMu(s)
            OBVIOUS
        <2>2. L("writeMu") \in Ops /\ U("writeMu") \in Ops
            BY DEF L, U, Ops, Locks
        <2>3. /\ r \in Seq(Ops) /\ Len(r) = n + 2
              /\ r[1] = L("writeMu")
              /\ r[n + 2] = U("writeMu")
              /\ \A i \in 1 .. n : r[i + 1] = s[i]
            <3>1. PICK a, b : a = <<L("writeMu")>> /\ b = <<U("writeMu")>>
                OBVIOUS
            <3>2. /\ a \in Seq(Ops) /\ Len(a) = 1 /\ a[1] = L("writeMu")
                  /\ b \in Seq(Ops) /\ Len(b) = 1 /\ b[1] = U("writeMu")
                BY <2>2, <3>1
            <3>3. PICK q : q = a \o s
                OBVIOUS
            <3>4. /\ q \in Seq(Ops) /\ Len(q) = n + 1
                  /\ q[1] = L("writeMu")
                  /\ \A i \in 1 .. n : q[i + 1] = s[i]
                <4>1. /\ q \in Seq(Ops) /\ Len(q) = 1 + n
                      /\ \A i \in 1 .. 1 : q[i] = a[i]
                      /\ \A i \in 1 .. n : q[1 + i] = s[i]
                    BY <1>1, <1>2, <3>2, <3>3, Join
                <4>2. \A i \in 1 .. n : 1 + i = i + 1
                    BY <1>3
                <4> QED
                    BY <1>3, <3>2, <4>1, <4>2
            <3>5. r = q \o b
                BY <2>1, <3>1, <3>3 DEF UnderWriteMu
            <3>6. /\ r \in Seq(Ops) /\ Len(r) = (n + 1) + 1
                  /\ \A i \in 1 .. n + 1 : r[i] = q[i]
                  /\ \A i \in 1 .. 1 : r[(n + 1) + i] = b[i]
                <4>1. /\ r \in Seq(Ops) /\ Len(r) = Len(q) + Len(b)
                      /\ \A i \in 1 .. Len(q) : r[i] = q[i]
                      /\ \A i \in 1 .. Len(b) : r[Len(q) + i] = b[i]
                    <5>1. q \in Seq(Ops) /\ b \in Seq(Ops)
                        BY <3>2, <3>4
                    <5> QED
                        BY <3>5, <5>1, Join, Zenon
                <4> QED
                    BY <3>2, <3>4, <4>1, Zenon
            <3>7. \A i \in 1 .. n : r[i + 1] = q[i + 1]
                BY <1>3, <3>6
            <3>8. r[n + 2] = b[1] /\ r[1] = q[1] /\ Len(r) = n + 2
                BY <1>3, <3>6
            <3> QED
                BY <3>2, <3>4, <3>6, <3>7, <3>8
        <2>4. ASSUME NEW i \in 1 .. n + 2
              PROVE  \/ r[i] = L("writeMu") /\ i = 1 /\ r[n + 2] = U("writeMu")
                     \/ r[i] = U("writeMu") /\ i = n + 2
                     \/ \E l \in Inner :
                          r[i] \in Takes(l) /\ i + 1 \in 1 .. n + 2 /\ r[i + 1] = U(l)
                     \/ \E l \in Inner :
                          r[i] = U(l) /\ (i = 1 \/ r[i - 1] \in Takes(l))
            <3>1. CASE i = 1 \/ i = n + 2
                BY <2>3, <3>1
            <3>2. CASE i # 1 /\ i # n + 2
                <4>1. PICK j \in 1 .. n : i = j + 1
                    <5>1. i - 1 \in 1 .. n /\ i = (i - 1) + 1
                        BY <1>3, <3>2
                    <5> QED
                        BY <5>1
                <4>2. r[i] = s[j]
                    BY <2>3, <4>1
                <4>3. PICK l \in Inner :
                        \/ s[j] \in Takes(l) /\ j + 1 \in 1 .. n /\ s[j + 1] = U(l)
                        \/ s[j] = U(l) /\ j - 1 \in 1 .. n /\ s[j - 1] \in Takes(l)
                    BY <1>5
                <4>4. CASE s[j] \in Takes(l) /\ j + 1 \in 1 .. n /\ s[j + 1] = U(l)
                    <5>1. r[(j + 1) + 1] = U(l)
                        BY <2>3, <4>4
                    <5> QED
                        BY <1>3, <4>1, <4>2, <4>4, <5>1
                <4>5. CASE s[j] = U(l) /\ j - 1 \in 1 .. n /\ s[j - 1] \in Takes(l)
                    <5>1. r[(j - 1) + 1] = s[j - 1] /\ (j - 1) + 1 = i - 1
                        BY <2>3, <4>1, <4>5
                    <5> QED
                        BY <4>2, <4>5, <5>1
                <4> QED
                    BY <4>3, <4>4, <4>5
            <3> QED
                BY <3>1, <3>2
        <2>5. Remainder(r)
            BY <2>3, <2>4 DEF Remainder
        <2> QED
            BY <1>4, <1>6, <2>1, <2>3, <2>5 DEF Whole
    <1> QED
        BY <1>7, <1>8

\* Every path of every method but GetAtVersion has the shape.
LEMMA PathsWhole ==
    ASSUME NEW m \in AllMethods \ {"GetAtVersion"}, NEW path \in Paths(m)
    PROVE  Whole(path)
    <1>1. {"mu", "vm", "cache"} \subseteq Inner
        BY DEF Inner, Locks
    <1>2. ASSUME NEW l \in {"mu", "vm", "cache"}
          PROVE  Sections(Read(l)) /\ Sections(Write(l))
        BY <1>1, SectionsBase
    <1>3. \A s, t : Sections(s) /\ Sections(t) => Sections(s \o t)
        BY SectionsJoin
    <1>4. \A reads \in CachedReads : Sections(reads)
        BY <1>2, <1>3, SectionsBase DEF CachedReads
    <1>5. \A s : Sections(s) => Whole(s) /\ Whole(UnderWriteMu(s))
        BY WholeMethods
    <1>6. CASE m = "BeginVersion"
        BY <1>2, <1>3, <1>5, <1>6 DEF Paths, BeginVersion
    <1>7. CASE m = "PutVersioned"
        <2>1. \A init \in {<<>>, Write("vm") \o Read("vm")} : Sections(init)
            BY <1>2, <1>3, SectionsBase
        <2>2. \A incr \in {<<>>, Write("vm")} : Sections(incr)
            BY <1>2, SectionsBase
        <2>3. \A init \in {<<>>, Write("vm") \o Read("vm")}, reads \in CachedReads,
                incr \in {<<>>, Write("vm")} :
                Whole(UnderWriteMu(Read("vm") \o init \o reads \o incr))
            BY <1>2, <1>3, <1>4, <1>5, <2>1, <2>2
        <2>4. /\ Whole(UnderWriteMu(Read("vm")))
              /\ Whole(UnderWriteMu(Read("vm") \o Write("vm")))
            BY <1>2, <1>3, <1>5
        <2> QED
            BY <1>7, <2>3, <2>4 DEF Paths, PutVersioned
    <1>8. CASE m = "CommitVersion"
        <2>1. \A rest \in {<<>>, Read("mu"), Read("mu") \o Write("mu") \o Write("vm")} :
                Sections(rest)
            BY <1>2, <1>3, SectionsBase
        <2>2. \A reads \in CachedReads,
                rest \in {<<>>, Read("mu"), Read("mu") \o Write("mu") \o Write("vm")} :
                Whole(UnderWriteMu(Read("vm") \o reads \o rest))
            BY <1>2, <1>3, <1>4, <1>5, <2>1
        <2>3. /\ Whole(UnderWriteMu(Read("vm")))
              /\ Whole(UnderWriteMu(Read("vm") \o Write("mu") \o Write("vm")))
              /\ Whole(UnderWriteMu(Read("vm") \o Read("mu") \o Write("mu") \o Write("vm")))
            BY <1>2, <1>3, <1>5
        <2> QED
            BY <1>8, <2>2, <2>3 DEF Paths, CommitVersion
    <1>9. CASE m = "AbortVersion"
        BY <1>2, <1>5, <1>9 DEF Paths, AbortVersion
    <1>10. CASE m = "CollectVersionGarbage"
        BY <1>2, <1>3, <1>5, <1>10 DEF Paths, CollectVersionGarbage
    <1>11. CASE m = "Get"
        <2>1. \A reads \in CachedReads : Whole(Read("mu") \o reads)
            BY <1>2, <1>3, <1>4, <1>5
        <2> QED
            BY <1>11, <2>1 DEF Paths, Get
    <1> QED
        BY <1>6, <1>7, <1>8, <1>9, <1>10, <1>11 DEF AllMethods

-----------------------------------------------------------------------------
(* Every step keeps the shape.                                             *)

\* The kinds of operations differ, and so do the locks of two of a kind.
LEMMA OpsDiffer ==
    /\ Inner \subseteq Locks /\ "writeMu" \in Locks /\ "writeMu" \notin Inner
    /\ \A l, h \in Locks :
         /\ U(l) \notin Takes(h)
         /\ U(l) = U(h) => l = h
         /\ \A x \in Takes(l) : x \in Takes(h) => l = h
         /\ L(l) \in Takes(l) /\ R(l) \in Takes(l) /\ L(l) # R(h)
    BY DEF U, L, R, Takes, Inner, Locks

\* What is left after the first operation of a remainder.
LEMMA NextRemainder ==
    ASSUME NEW s, NEW t, Remainder(s), s # <<>>, t = Tail(s)
    PROVE  /\ Remainder(t)
           /\ Head(s) = s[1]
           /\ s[1] # R("writeMu")
           /\ s[1] = U("writeMu") => t = <<>>
           /\ s[1] = L("writeMu") => t # <<>> /\ s[Len(s)] = U("writeMu")
           /\ \A l \in Inner : s[1] \in Takes(l) <=> t # <<>> /\ t[1] = U(l)
           /\ t # <<>> => t[1] # L("writeMu") /\ t[Len(t)] = s[Len(s)]
           /\ t = <<>> => s[1] = s[Len(s)]
    <1>1. s \in Seq(Ops)
        BY DEF Remainder
    <1>2. PICK n : n = Len(s)
        OBVIOUS
    <1>3. n \in Nat /\ n # 0
        BY <1>1, <1>2
    <1>4. /\ t \in Seq(Ops) /\ Len(t) = n - 1 /\ Head(s) = s[1]
          /\ \A i \in 1 .. n - 1 : t[i] = s[i + 1]
        BY <1>1, <1>2
    <1>5. t = <<>> <=> n = 1
        BY <1>3, <1>4
    <1>6. ASSUME NEW i \in 1 .. n
          PROVE  \/ s[i] = L("writeMu") /\ i = 1 /\ s[n] = U("writeMu")
                 \/ s[i] = U("writeMu") /\ i = n
                 \/ \E l \in Inner :
                      s[i] \in Takes(l) /\ i + 1 \in 1 .. n /\ s[i + 1] = U(l)
                 \/ \E l \in Inner :
                      s[i] = U(l) /\ (i = 1 \/ s[i - 1] \in Takes(l))
        BY <1>2 DEF Remainder
    <1>7. 1 \in 1 .. n /\ 1 + 1 = 2
        BY <1>3
    <1>8. n # 1 => 2 \in 1 .. n /\ t[1] = s[2] /\ t[n - 1] = s[n] /\ 2 - 1 = 1
        BY <1>3, <1>4
    <1>9. Remainder(t)
        <2>1. ASSUME NEW i \in 1 .. n - 1
              PROVE  \/ t[i] = U("writeMu") /\ i = n - 1
                     \/ \E l \in Inner :
                          t[i] \in Takes(l) /\ i + 1 \in 1 .. n - 1 /\ t[i + 1] = U(l)
                     \/ \E l \in Inner :
                          t[i] = U(l) /\ (i = 1 \/ t[i - 1] \in Takes(l))
            <3>1. i + 1 \in 1 .. n /\ t[i] = s[i + 1] /\ i + 1 # 1
                BY <1>3, <1>4
            <3>2. ASSUME s[i + 1] = U("writeMu"), i + 1 = n
                  PROVE  t[i] = U("writeMu") /\ i = n - 1
                <4>1. i = n - 1
                    BY <1>3, <3>2
                <4> QED
                    BY <3>1, <3>2, <4>1, Zenon
            <3>3. ASSUME NEW l \in Inner, s[i + 1] \in Takes(l),
                         (i + 1) + 1 \in 1 .. n, s[(i + 1) + 1] = U(l)
                  PROVE  t[i] \in Takes(l) /\ i + 1 \in 1 .. n - 1 /\ t[i + 1] = U(l)
                BY <1>3, <1>4, <3>1, <3>3
            <3>4. ASSUME NEW l \in Inner, s[i + 1] = U(l), s[(i + 1) - 1] \in Takes(l)
                  PROVE  t[i] = U(l) /\ (i = 1 \/ t[i - 1] \in Takes(l))
                <4>1. CASE i = 1
                    BY <3>1, <3>4, <4>1
                <4>2. CASE i # 1
                    <5>1. t[i - 1] = s[(i - 1) + 1] /\ (i - 1) + 1 = (i + 1) - 1
                        BY <1>3, <1>4, <4>2
                    <5> QED
                        BY <3>1, <3>4, <5>1
                <4> QED
                    BY <4>1, <4>2
            <3> QED
                BY <1>6, <3>1, <3>2, <3>3, <3>4
        <2> QED
            BY <1>4, <2>1 DEF Remainder
    <1>10. ASSUME NEW l \in Inner PROVE s[1] \in Takes(l) <=> t # <<>> /\ t[1] = U(l)
        <2>1. ASSUME s[1] \in Takes(l) PROVE t # <<>> /\ t[1] = U(l)
            <3>1. PICK h \in Inner :
                    s[1] \in Takes(h) /\ 2 \in 1 .. n /\ s[2] = U(h)
                BY <1>6, <1>7, <2>1, OpsDiffer
            <3> QED
                BY <1>3, <1>5, <1>8, <2>1, <3>1, OpsDiffer
        <2>2. ASSUME t # <<>>, t[1] = U(l) PROVE s[1] \in Takes(l)
            <3>1. 2 \in 1 .. n /\ s[2] = U(l) /\ 2 - 1 = 1
                BY <1>5, <1>8, <2>2
            <3>2. PICK h \in Inner : s[2] = U(h) /\ s[2 - 1] \in Takes(h)
                BY <1>3, <1>6, <3>1, OpsDiffer
            <3> QED
                BY <3>1, <3>2, OpsDiffer
        <2> QED
            BY <2>1, <2>2
    <1>11. t # <<>> => t[1] # L("writeMu") /\ t[Len(t)] = s[Len(s)]
        BY <1>2, <1>4, <1>5, <1>6, <1>8, OpsDiffer
    <1>12. s[1] = L("writeMu") => t # <<>> /\ s[Len(s)] = U("writeMu")
        BY <1>2, <1>5, <1>6, <1>7, OpsDiffer
    <1>13. s[1] = U("writeMu") => t = <<>>
        BY <1>5, <1>6, <1>7, OpsDiffer
    <1>14. s[1] # R("writeMu")
        BY <1>6, <1>7, OpsDiffer
    <1>15. t = <<>> => s[1] = s[Len(s)]
        BY <1>2, <1>5
    <1> QED
        BY <1>4, <1>9, <1>10, <1>11, <1>12, <1>13, <1>14, <1>15

\* A client another client's step leaves alone keeps its shape.
LEMMA OthersShape ==
    ASSUME LocksInv, NEW d \in Clients, todo'[d] = todo[d],
           \A l \in Locks : /\ writer'[l] = d <=> writer[l] = d
                            /\ readers'[l][d] = readers[l][d]
    PROVE  ClientShape(d)'
    <1>1. ClientShape(d)
        BY DEF LocksInv
    <1>2. \A l \in Inner : Holds(d, l)' <=> Holds(d, l)
        BY OpsDiffer DEF Holds
    <1> QED
        BY <1>1, <1>2, OpsDiffer DEF ClientShape

\* A call: the client holds nothing and starts a whole method.
LEMMA CallInv ==
    ASSUME LocksInv, NEW c \in Clients, NEW m \in AllMethods \ {"GetAtVersion"},
           Call(c, m)
    PROVE  LocksInv'
    <1>1. PICK path \in Paths(m) : todo' = [todo EXCEPT ![c] = path]
        BY DEF Call
    <1>2. todo[c] = <<>> /\ UNCHANGED <<readers, writer, announced>>
        BY DEF Call
    <1>3. Whole(path)
        BY PathsWhole
    <1>4. /\ todo' \in [Clients -> Seq(Ops)] /\ todo'[c] = path
          /\ \A d \in Clients \ {c} : todo'[d] = todo[d]
        BY <1>1, <1>3 DEF LocksInv, Whole, Remainder
    <1>5. ClientShape(c)'
        <2>1. /\ writer["writeMu"] # c /\ readers["writeMu"][c] = 0
              /\ \A l \in Inner : ~ Holds(c, l)
            BY <1>2 DEF LocksInv, ClientShape
        <2>2. \A l \in Inner : ~ Holds(c, l)'
            BY <1>2, <2>1 DEF Holds
        <2> QED
            BY <1>2, <1>3, <1>4, <2>1, <2>2 DEF ClientShape, Whole
    <1>6. ASSUME NEW d \in Clients \ {c} PROVE ClientShape(d)'
        BY <1>2, <1>4, OthersShape
    <1>7. \A l \in Locks : announced[l] # c
        BY <1>2 DEF LocksInv
    <1> QED
        BY <1>2, <1>4, <1>5, <1>6, <1>7 DEF LocksInv

\* An announcement changes no lock and no remainder.
LEMMA AnnounceInv ==
    ASSUME LocksInv, NEW c \in Clients, NEW l \in Locks, Announce(c, l)
    PROVE  LocksInv'
    <1>1. /\ todo[c] # <<>> /\ todo[c][1] = L(l)
          /\ writer[l] = Nobody
          /\ announced' = [announced EXCEPT ![l] = c]
          /\ UNCHANGED <<todo, readers, writer>>
        BY NextRemainder DEF Announce, Wants, L, LocksInv, ClientShape
    <1>2. ASSUME NEW d \in Clients PROVE ClientShape(d)'
        BY <1>1, OthersShape
    <1> QED
        BY <1>1, <1>2 DEF LocksInv

\* Client c's next operation is x, and doing it leaves the remainder t.
LEMMA DoneShape ==
    ASSUME LocksInv, NEW c \in Clients, NEW op, NEW l \in Locks, Wants(c, op, l),
           Done(c)
    PROVE  /\ todo' \in [Clients -> Seq(Ops)]
           /\ todo'[c] = Tail(todo[c])
           /\ \A d \in Clients \ {c} : todo'[d] = todo[d]
           /\ todo[c] # <<>>
           /\ todo[c][1] = [op |-> op, lock |-> l]
           /\ Remainder(todo[c])
           /\ Remainder(Tail(todo[c]))
    <1>1. todo[c] \in Seq(Ops) /\ todo[c] # <<>> /\ Remainder(todo[c])
        BY DEF LocksInv, ClientShape, Wants
    <1>2. Remainder(Tail(todo[c])) /\ Head(todo[c]) = todo[c][1]
        BY <1>1, NextRemainder
    <1>3. Tail(todo[c]) \in Seq(Ops)
        BY <1>2 DEF Remainder
    <1> QED
        BY <1>1, <1>2, <1>3 DEF LocksInv, Done, Wants

\* A read lock is of an inner lock that the client does not hold.
LEMMA RLockInv ==
    ASSUME LocksInv, NEW c \in Clients, NEW l \in Locks, RLock(c, l)
    PROVE  LocksInv'
    <1>1. PICK s, t : s = todo[c] /\ t = Tail(todo[c])
        OBVIOUS
    <1>2. /\ todo' \in [Clients -> Seq(Ops)] /\ todo'[c] = t
          /\ \A d \in Clients \ {c} : todo'[d] = todo[d]
          /\ s # <<>> /\ s[1] = R(l) /\ Remainder(s) /\ Remainder(t)
        BY <1>1, DoneShape DEF RLock, R
    <1>3. /\ s[1] # R("writeMu")
          /\ \A h \in Inner : s[1] \in Takes(h) <=> t # <<>> /\ t[1] = U(h)
          /\ t # <<>> => t[1] # L("writeMu") /\ t[Len(t)] = s[Len(s)]
        <2>1. t = Tail(s)
            BY <1>1
        <2> QED
            BY <1>2, <2>1, NextRemainder
    <1>4. l \in Inner
        BY <1>2, <1>3 DEF Inner
    <1>5. /\ \A h \in Locks : s[1] # U(h) /\ s[1] # L(h)
          /\ \A h \in Locks : s[1] \in Takes(h) <=> h = l
        BY <1>2, OpsDiffer
    <1>6. /\ writer[l] = Nobody /\ UNCHANGED <<writer, announced>>
          /\ readers' = [readers EXCEPT ![l][c] = @ + 1]
        BY DEF RLock
    <1>7. /\ \A h \in Inner : ~ Holds(c, h)
          /\ readers["writeMu"][c] = 0
          /\ writer["writeMu"] = c <=> s[Len(s)] = U("writeMu")
        BY <1>1, <1>2, <1>5, OpsDiffer DEF LocksInv, ClientShape
    <1>8. readers[l][c] = 0
        BY <1>4, <1>7 DEF LocksInv, Holds
    <1>9. /\ readers' \in [Locks -> [Clients -> {0, 1}]]
          /\ readers'[l][c] = 1
          /\ \A h \in Locks, d \in Clients :
                h # l \/ d # c => readers'[h][d] = readers[h][d]
        BY <1>6, <1>8 DEF LocksInv
    <1>10. \A h \in Inner : Holds(c, h)' <=> h = l
        BY <1>6, <1>7, <1>9, OpsDiffer DEF Holds
    <1>11. ClientShape(c)'
        <2>1. t # <<>> /\ t[1] = U(l)
            BY <1>2, <1>3, <1>4, OpsDiffer
        <2>2. \A h \in Inner : t[1] = U(h) <=> h = l
            BY <2>1, OpsDiffer
        <2>3. readers'["writeMu"][c] = 0
            BY <1>4, <1>7, <1>9, OpsDiffer
        <2> QED
            BY <1>2, <1>3, <1>6, <1>7, <1>10, <2>1, <2>2, <2>3 DEF ClientShape
    <1>12. ASSUME NEW d \in Clients \ {c} PROVE ClientShape(d)'
        BY <1>2, <1>6, <1>9, OthersShape
    <1>13. ASSUME NEW h \in Locks, NEW d \in Clients
           PROVE  /\ writer'[h] = d => readers'[h][d] = 0
                  /\ announced'[h] = d =>
                       todo'[d] # <<>> /\ todo'[d][1] = L(h) /\ writer'[h] = Nobody
        <2>1. announced[h] # c
            BY <1>1, <1>5 DEF LocksInv
        <2> QED
            BY <1>2, <1>6, <1>9, <2>1, LockClients DEF LocksInv
    <1> QED
        BY <1>2, <1>6, <1>9, <1>11, <1>12, <1>13 DEF LocksInv

\* A write lock: nobody holds it before.
LEMMA LockInv ==
    ASSUME LocksInv, NEW c \in Clients, NEW l \in Locks, Lock(c, l)
    PROVE  LocksInv'
    <1>1. PICK s, t : s = todo[c] /\ t = Tail(todo[c])
        OBVIOUS
    <1>2. /\ todo' \in [Clients -> Seq(Ops)] /\ todo'[c] = t
          /\ \A d \in Clients \ {c} : todo'[d] = todo[d]
          /\ s # <<>> /\ s[1] = L(l) /\ Remainder(s) /\ Remainder(t)
        BY <1>1, DoneShape DEF Lock, L
    <1>3. /\ s[1] = L("writeMu") => t # <<>> /\ s[Len(s)] = U("writeMu")
          /\ \A h \in Inner : s[1] \in Takes(h) <=> t # <<>> /\ t[1] = U(h)
          /\ t # <<>> => t[1] # L("writeMu") /\ t[Len(t)] = s[Len(s)]
        <2>1. t = Tail(s)
            BY <1>1
        <2> QED
            BY <1>2, <2>1, NextRemainder
    <1>4. /\ \A h \in Locks : s[1] # U(h)
          /\ \A h \in Locks : s[1] \in Takes(h) <=> h = l
          /\ \A h \in Locks : s[1] = L(h) => h = l
        BY <1>2, OpsDiffer
    <1>5. /\ announced[l] = c
          /\ \A d \in Clients : readers[l][d] = 0
          /\ writer' = [writer EXCEPT ![l] = c]
          /\ announced' = [announced EXCEPT ![l] = Nobody]
          /\ UNCHANGED readers
        BY DEF Lock
    <1>6. writer[l] = Nobody
        BY <1>5 DEF LocksInv
    <1>7. /\ writer' \in [Locks -> Clients \cup {Nobody}]
          /\ announced' \in [Locks -> Clients \cup {Nobody}]
          /\ writer'[l] = c /\ announced'[l] = Nobody
          /\ \A h \in Locks \ {l} : writer'[h] = writer[h] /\ announced'[h] = announced[h]
        BY <1>5 DEF LocksInv
    <1>8. /\ \A h \in Inner : ~ Holds(c, h)
          /\ readers["writeMu"][c] = 0
          /\ l # "writeMu" => (writer["writeMu"] = c <=> s[Len(s)] = U("writeMu"))
        BY <1>1, <1>2, <1>4, OpsDiffer DEF LocksInv, ClientShape
    <1>9. \A h \in Inner : Holds(c, h)' <=> h = l
        BY <1>5, <1>7, <1>8, OpsDiffer DEF Holds
    <1>10. ClientShape(c)'
        <2>1. t # <<>>
            BY <1>2, <1>3, <1>4, OpsDiffer DEF Inner
        <2>2. \A h \in Inner : t[1] = U(h) <=> h = l
            BY <1>3, <1>4, <2>1, OpsDiffer
        <2>3. writer'["writeMu"] = c <=> s[Len(s)] = U("writeMu")
            BY <1>2, <1>3, <1>7, <1>8, OpsDiffer
        <2> QED
            BY <1>2, <1>3, <1>5, <1>8, <1>9, <2>1, <2>2, <2>3 DEF ClientShape
    <1>11. ASSUME NEW d \in Clients \ {c} PROVE ClientShape(d)'
        <2>1. \A h \in Locks : writer'[h] = d <=> writer[h] = d
            BY <1>6, <1>7, LockClients
        <2> QED
            BY <1>2, <1>5, <2>1, OthersShape
    <1>12. ASSUME NEW h \in Locks, NEW d \in Clients
           PROVE  /\ writer'[h] = d => readers'[h][d] = 0
                  /\ announced'[h] = d =>
                       todo'[d] # <<>> /\ todo'[d][1] = L(h) /\ writer'[h] = Nobody
        <2>1. announced[h] = c => h = l
            BY <1>1, <1>4 DEF LocksInv
        <2>2. CASE h = l
            BY <1>5, <1>7, <2>2, LockClients
        <2>3. CASE h # l
            BY <1>2, <1>5, <1>7, <2>1, <2>3 DEF LocksInv
        <2> QED
            BY <2>2, <2>3
    <1> QED
        BY <1>2, <1>5, <1>7, <1>10, <1>11, <1>12 DEF LocksInv

\* An unlock: the client holds the lock, once.
LEMMA UnlockInv ==
    ASSUME LocksInv, NEW c \in Clients, NEW l \in Locks, Unlock(c, l)
    PROVE  LocksInv'
    <1>1. PICK s, t : s = todo[c] /\ t = Tail(todo[c])
        OBVIOUS
    <1>2. /\ todo' \in [Clients -> Seq(Ops)] /\ todo'[c] = t
          /\ \A d \in Clients \ {c} : todo'[d] = todo[d]
          /\ s # <<>> /\ s[1] = U(l) /\ Remainder(s) /\ Remainder(t)
        BY <1>1, DoneShape DEF Unlock, U
    <1>3. /\ s[1] = U("writeMu") => t = <<>>
          /\ \A h \in Inner : s[1] \in Takes(h) <=> t # <<>> /\ t[1] = U(h)
          /\ t # <<>> => t[1] # L("writeMu") /\ t[Len(t)] = s[Len(s)]
          /\ t = <<>> => s[1] = s[Len(s)]
        <2>1. t = Tail(s)
            BY <1>1
        <2> QED
            BY <1>2, <2>1, NextRemainder
    <1>4. /\ \A h \in Locks : s[1] \notin Takes(h) /\ s[1] # L(h)
          /\ \A h \in Locks : s[1] = U(h) <=> h = l
        BY <1>2, OpsDiffer
    <1>5. /\ \A h \in Inner : Holds(c, h) <=> h = l
          /\ readers["writeMu"][c] = 0
          /\ writer["writeMu"] = c <=> s[Len(s)] = U("writeMu")
        BY <1>1, <1>2, <1>4, OpsDiffer DEF LocksInv, ClientShape
    <1>6. l = "writeMu" => writer[l] = c
        BY <1>2, <1>3, <1>5
    <1>7. UNCHANGED announced
        BY DEF Unlock
    <1>8. /\ readers' \in [Locks -> [Clients -> {0, 1}]]
          /\ writer' \in [Locks -> Clients \cup {Nobody}]
          /\ readers'[l][c] = 0 /\ writer'[l] # c
          /\ writer'[l] = Nobody \/ writer'[l] = writer[l]
          /\ writer[l] # c => writer'[l] = writer[l]
          /\ \A h \in Locks \ {l} : writer'[h] = writer[h]
          /\ \A h \in Locks, d \in Clients :
                h # l \/ d # c => readers'[h][d] = readers[h][d]
        <2>1. CASE writer[l] = c
            <3>1. writer' = [writer EXCEPT ![l] = Nobody] /\ UNCHANGED readers
                BY <2>1 DEF Unlock
            <3>2. readers[l][c] = 0
                BY <2>1 DEF LocksInv
            <3> QED
                BY <2>1, <3>1, <3>2, LockClients DEF LocksInv
        <2>2. CASE writer[l] # c
            <3>1. readers' = [readers EXCEPT ![l][c] = @ - 1] /\ UNCHANGED writer
                BY <2>2 DEF Unlock
            <3>2. l \in Inner
                BY <1>6, <2>2 DEF Inner
            <3>3. readers[l][c] = 1
                BY <1>5, <2>2, <3>2 DEF LocksInv, Holds
            <3> QED
                BY <2>2, <3>1, <3>3 DEF LocksInv
        <2> QED
            BY <2>1, <2>2
    <1>9. \A h \in Inner : ~ Holds(c, h)'
        BY <1>5, <1>8, OpsDiffer DEF Holds
    <1>10. ClientShape(c)'
        <2>1. \A h \in Inner : ~ (t # <<>> /\ t[1] = U(h))
            BY <1>3, <1>4, OpsDiffer
        <2>2. writer'["writeMu"] = c <=>
                t # <<>> /\ t[1] # L("writeMu") /\ t[Len(t)] = U("writeMu")
            <3>1. CASE l = "writeMu"
                BY <1>2, <1>3, <1>8, <3>1
            <3>2. CASE l # "writeMu"
                <4>1. writer'["writeMu"] = writer["writeMu"]
                    BY <1>8, <3>2, OpsDiffer
                <4>2. t = <<>> => s[Len(s)] # U("writeMu")
                    BY <1>3, <1>4, <3>2, OpsDiffer
                <4> QED
                    BY <1>3, <1>5, <4>1, <4>2
            <3> QED
                BY <3>1, <3>2
        <2>3. readers'["writeMu"][c] = 0
            BY <1>5, <1>8, OpsDiffer
        <2> QED
            BY <1>2, <1>9, <2>1, <2>2, <2>3 DEF ClientShape
    <1>11. ASSUME NEW d \in Clients \ {c} PROVE ClientShape(d)'
        <2>1. \A h \in Locks : writer'[h] = d <=> writer[h] = d
            BY <1>8, LockClients
        <2> QED
            BY <1>2, <1>8, <2>1, OthersShape
    <1>12. ASSUME NEW h \in Locks, NEW d \in Clients
           PROVE  /\ writer'[h] = d => readers'[h][d] = 0
                  /\ announced'[h] = d =>
                       todo'[d] # <<>> /\ todo'[d][1] = L(h) /\ writer'[h] = Nobody
        <2>1. announced[h] # c
            BY <1>1, <1>4 DEF LocksInv
        <2>2. /\ writer[h] = d => readers[h][d] = 0
              /\ announced[h] = d =>
                    todo[d] # <<>> /\ todo[d][1] = L(h) /\ writer[h] = Nobody
            BY DEF LocksInv
        <2>3. writer'[h] = writer[h] \/ writer'[h] = Nobody
            BY <1>8
        <2> QED
            BY <1>2, <1>7, <1>8, <2>1, <2>2, <2>3, LockClients
    <1> QED
        BY <1>2, <1>7, <1>8, <1>10, <1>11, <1>12 DEF LocksInv

\* In the beginning nobody holds anything.
LEMMA LocksInitInv == LocksInit => LocksInv
    <1> SUFFICES ASSUME LocksInit PROVE LocksInv
        OBVIOUS
    <1>1. <<>> \in Seq(Ops) /\ Remainder(<<>>)
        BY DEF Remainder
    <1>2. \A c \in Clients, l \in Locks : ~ Holds(c, l) /\ writer[l] # c /\ announced[l] # c
        BY LockClients DEF LocksInit, Holds
    <1>3. ASSUME NEW c \in Clients PROVE ClientShape(c)
        BY <1>1, <1>2, OpsDiffer DEF ClientShape, LocksInit
    <1> QED
        BY <1>1, <1>2, <1>3 DEF LocksInit, LocksInv

\* Every step preserves the invariant.
LEMMA LocksStepInv ==
    ASSUME "GetAtVersion" \notin Methods, LocksInv, [LocksNext]_vars
    PROVE  LocksInv'
    <1>1. CASE UNCHANGED vars
        <2>1. UNCHANGED <<todo, readers, writer, announced>>
            BY <1>1 DEF vars
        <2> QED
            BY <2>1 DEF LocksInv, ClientShape, Holds
    <1>2. ASSUME NEW c \in Clients, Step(c) PROVE LocksInv'
        BY <1>2, RLockInv, AnnounceInv, LockInv, UnlockInv DEF Step
    <1>3. ASSUME NEW c \in Clients, NEW m \in Methods, Call(c, m) PROVE LocksInv'
        BY <1>3, CallInv, LockMethods
    <1> QED
        BY <1>1, <1>2, <1>3 DEF LocksNext

\* What a client has left to do tells which locks it holds.
THEOREM LocksInvariance ==
    ASSUME "GetAtVersion" \notin Methods
    PROVE  LocksSpec => []LocksInv
    <1>1. LocksInv /\ [LocksNext]_vars => LocksInv'
        BY LocksStepInv
    <1> QED
        BY LocksInitInv, <1>1, PTL DEF LocksSpec

-----------------------------------------------------------------------------
(* What follows: the hierarchy, and no deadlock.                           *)

\* What the next operation of a client is.
LEMMA NextOperation ==
    ASSUME LocksInv, NEW c \in Clients, NEW l \in Locks
    PROVE  /\ Wants(c, "RLock", l) <=> todo[c] # <<>> /\ todo[c][1] = R(l)
           /\ Wants(c, "Lock", l) <=> todo[c] # <<>> /\ todo[c][1] = L(l)
    <1>1. todo[c] # <<>> => Head(todo[c]) = todo[c][1]
        BY NextRemainder DEF LocksInv, ClientShape
    <1> QED
        BY <1>1 DEF Wants, R, L

\* The levels of the hierarchy.
LEMMA Levels ==
    /\ \A l \in Locks : Level[l] \in 1 .. 4
    /\ \A l \in Inner : Level["writeMu"] < Level[l]
    BY DEF Level, Locks, Inner

\* The hierarchy follows from the invariant: a client about to take an inner
\* lock holds at most writeMu, and one about to take writeMu holds nothing.
LEMMA OrderFollows == LocksInv => LockOrder
    <1> SUFFICES ASSUME LocksInv, NEW c \in Clients, NEW l \in Locks,
                        Wants(c, "RLock", l) \/ Wants(c, "Lock", l),
                        NEW h \in Locks, Holds(c, h)
                 PROVE  Level[h] < Level[l]
        BY DEF LockOrder
    <1>1. todo[c] # <<>> /\ todo[c][1] \in Takes(l)
        BY NextOperation DEF Takes
    <1>2. ClientShape(c)
        BY DEF LocksInv
    <1>3. h \notin Inner
        BY <1>1, <1>2, OpsDiffer DEF ClientShape
    <1>4. h = "writeMu"
        BY <1>3 DEF Inner
    <1>5. todo[c][1] # L("writeMu") /\ todo[c][1] # R("writeMu")
        <2>1. writer["writeMu"] = c
            BY <1>2, <1>4 DEF ClientShape, Holds
        <2>2. todo[c][1] # R("writeMu")
            BY <1>1, <1>2, NextRemainder DEF ClientShape
        <2> QED
            BY <1>2, <2>1, <2>2 DEF ClientShape
    <1>6. l \in Inner
        BY <1>1, <1>5 DEF Inner, Takes
    <1> QED
        BY <1>4, <1>6, Levels

\* How far up the hierarchy a client asks: twice the level of the lock, and one
\* more for a writer that has announced itself and waits for the readers.
Rank(c, l) == 2 * Level[l] + (IF announced[l] = c THEN 1 ELSE 0)

\* A client waits for clients that ask further up than it does.
LEMMA WaitsUpwards ==
    ASSUME LocksInv, NEW c \in Clients, NEW d \in WaitsFor(c), WaitsFor(d) # {}
    PROVE  \E l, h \in Locks : /\ Wants(c, "RLock", l) \/ Wants(c, "Lock", l)
                               /\ Wants(d, "RLock", h) \/ Wants(d, "Lock", h)
                               /\ Rank(c, l) < Rank(d, h)
    <1>1. PICK l \in Locks :
            \/ /\ Wants(c, "RLock", l) \/ Wants(c, "Lock", l)
               /\ announced[l] # c
               /\ d \in Clients
               /\ writer[l] = d \/ announced[l] = d
            \/ /\ Wants(c, "Lock", l) /\ announced[l] = c
               /\ d \in Clients /\ readers[l][d] > 0
        <2>1. PICK l \in Locks :
                d \in (IF Wants(c, "RLock", l)
                         THEN {writer[l], announced[l]} \cap Clients
                       ELSE IF Wants(c, "Lock", l) /\ announced[l] = c
                         THEN {e \in Clients : readers[l][e] > 0}
                       ELSE IF Wants(c, "Lock", l)
                         THEN {writer[l], announced[l]} \cap Clients
                       ELSE {})
            BY DEF WaitsFor
        <2>2. Wants(c, "RLock", l) => announced[l] # c
            BY NextOperation, OpsDiffer DEF LocksInv
        <2> QED
            BY <2>1, <2>2
    <1>2. d \in Clients
        BY <1>1
    <1>3. PICK h \in Locks : Wants(d, "RLock", h) \/ Wants(d, "Lock", h)
        BY DEF WaitsFor
    <1>4. Level[l] \in Nat /\ Level[h] \in Nat
        BY Levels
    <1>5. ASSUME Holds(d, l) PROVE Rank(c, l) < Rank(d, h)
        <2>1. Level[l] < Level[h]
            BY <1>2, <1>3, <1>5, OrderFollows DEF LockOrder
        <2> QED
            BY <1>4, <2>1 DEF Rank
    <1>6. ASSUME announced[l] = d, announced[l] # c PROVE Rank(c, l) < Rank(d, h)
        <2>1. todo[d][1] = L(l)
            BY <1>2, <1>6 DEF LocksInv
        <2>2. todo[d][1] \in Takes(h)
            BY <1>2, <1>3, NextOperation DEF Takes
        <2>3. h = l
            BY <2>1, <2>2, OpsDiffer
        <2> QED
            BY <1>4, <1>6, <2>3 DEF Rank
    <1>7. Rank(c, l) < Rank(d, h)
        BY <1>1, <1>5, <1>6 DEF Holds
    <1> QED
        BY <1>1, <1>3, <1>7

\* A client asks for one lock at a time.
LEMMA OneLock ==
    ASSUME LocksInv, NEW c \in Clients, NEW l \in Locks, NEW h \in Locks,
           Wants(c, "RLock", l) \/ Wants(c, "Lock", l),
           Wants(c, "RLock", h) \/ Wants(c, "Lock", h)
    PROVE  l = h
    <1>1. todo[c][1] \in Takes(l) /\ todo[c][1] \in Takes(h)
        BY NextOperation DEF Takes
    <1> QED
        BY <1>1, OpsDiffer

\* Some client of S asks at least as far up as k.
AsksFrom(S, k) ==
    \E c \in S, l \in Locks :
        (Wants(c, "RLock", l) \/ Wants(c, "Lock", l)) /\ Rank(c, l) >= k

\* In a circle of waiting clients somebody asks for more than there is: the
\* hierarchy has an end, so there is no circle, however many clients there are.
LEMMA NoCircleFollows == LocksInv => NoCircularWait
    <1> SUFFICES ASSUME LocksInv, NEW S \in SUBSET Clients, S # {},
                        \A c \in S : WaitsFor(c) \cap S # {}
                 PROVE  FALSE
        BY DEF NoCircularWait
    <1>1. \A c \in S, l \in Locks : Rank(c, l) \in 2 .. 9
        BY Levels DEF Rank
    <1>2. AsksFrom(S, 2)
        <2>1. PICK c \in S : WaitsFor(c) # {}
            OBVIOUS
        <2>2. PICK l \in Locks : Wants(c, "RLock", l) \/ Wants(c, "Lock", l)
            BY <2>1 DEF WaitsFor
        <2> QED
            BY <1>1, <2>2 DEF AsksFrom
    <1>3. ASSUME NEW k \in Nat, AsksFrom(S, k) PROVE AsksFrom(S, k + 1)
        <2>1. PICK c \in S, l \in Locks :
                (Wants(c, "RLock", l) \/ Wants(c, "Lock", l)) /\ Rank(c, l) >= k
            BY <1>3 DEF AsksFrom
        <2>2. PICK d \in S : d \in WaitsFor(c)
            OBVIOUS
        <2>3. c \in Clients /\ WaitsFor(d) # {}
            OBVIOUS
        <2>4. PICK m \in Locks, h \in Locks :
                /\ Wants(c, "RLock", m) \/ Wants(c, "Lock", m)
                /\ Wants(d, "RLock", h) \/ Wants(d, "Lock", h)
                /\ Rank(c, m) < Rank(d, h)
            BY <2>2, <2>3, WaitsUpwards
        <2>5. m = l
            BY <2>1, <2>3, <2>4, OneLock
        <2>6. Rank(d, h) >= k + 1
            <3>1. Rank(c, l) \in Nat /\ Rank(d, h) \in Nat
                BY <1>1
            <3> HIDE DEF Rank
            <3> QED
                BY <2>1, <2>4, <2>5, <3>1
        <2> QED
            BY <2>4, <2>6 DEF AsksFrom
    <1>4. AsksFrom(S, 3) /\ AsksFrom(S, 4) /\ AsksFrom(S, 5) /\ AsksFrom(S, 6)
        <2>1. AsksFrom(S, 2 + 1)
            BY <1>2, <1>3
        <2>2. AsksFrom(S, 3 + 1)
            BY <1>3, <2>1
        <2>3. AsksFrom(S, 4 + 1)
            BY <1>3, <2>2
        <2>4. AsksFrom(S, 5 + 1)
            BY <1>3, <2>3
        <2> QED
            BY <2>1, <2>2, <2>3, <2>4
    <1>5. AsksFrom(S, 10)
        <2>1. AsksFrom(S, 6 + 1)
            BY <1>3, <1>4
        <2>2. AsksFrom(S, 7 + 1)
            BY <1>3, <2>1
        <2>3. AsksFrom(S, 8 + 1)
            BY <1>3, <2>2
        <2>4. AsksFrom(S, 9 + 1)
            BY <1>3, <2>3
        <2> QED
            BY <2>4
    <1> QED
        BY <1>1, <1>5 DEF AsksFrom

\* Every variable has its type, and a client outside every method holds no
\* lock and waits for none, on every path of every method.
THEOREM LocksTypeCorrect ==
    ASSUME "GetAtVersion" \notin Methods
    PROVE  LocksSpec => []LocksTypeOK
    <1>1. ASSUME LocksInv PROVE LocksTypeOK
        <2>1. ASSUME NEW c \in Clients, todo[c] = <<>>, NEW l \in Locks
              PROVE  ~ Holds(c, l) /\ announced[l] # c
            <3>1. CASE l = "writeMu"
                BY <1>1, <2>1, <3>1 DEF LocksInv, ClientShape, Holds
            <3>2. CASE l # "writeMu"
                BY <1>1, <2>1, <3>2 DEF LocksInv, ClientShape, Inner
            <3> QED
                BY <3>1, <3>2
        <2>2. readers \in [Locks -> [Clients -> 0 .. 2]]
            BY <1>1 DEF LocksInv
        <2> QED
            BY <1>1, <2>1, <2>2 DEF LocksTypeOK, LocksInv
    <1> QED
        BY LocksInvariance, <1>1, PTL

\* The hierarchy of locking-hierarchy.md, for any number of goroutines: every
\* lock asked for is above the locks held, and none is asked for twice.
THEOREM LocksOrdered ==
    ASSUME "GetAtVersion" \notin Methods
    PROVE  LocksSpec => []LockOrder
    BY LocksInvariance, OrderFollows, PTL

\* So no set of goroutines waits for one another, even though a waiting writer
\* blocks new readers: without GetAtVersion the tree's methods cannot deadlock.
THEOREM LocksNoDeadlock ==
    ASSUME "GetAtVersion" \notin Methods
    PROVE  LocksSpec => []NoCircularWait
    BY LocksInvariance, NoCircleFollows, PTL
=============================================================================
