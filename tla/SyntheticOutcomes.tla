-------------------------- MODULE SyntheticOutcomes --------------------------
(* One gRPC connection for each pair of services, and outcomes that have a *)
(* reason: for every application, every set of clients and whatever stops. *)
EXTENDS Synthetic, DataLemmas

-----------------------------------------------------------------------------
(* The names of calls. One call is below another one when it was made on   *)
(* behalf of it; Toward(p, q) is the call p has made on the way to q.      *)
Names == {p \in Seq(Clients \cup Nat) : p # <<>>}
Below(p, q) == Len(p) < Len(q) /\ \A i \in 1 .. Len(p) : q[i] = p[i]
Toward(p, q) == SubSeq(q, 1, Len(p) + 1)

LEMMA NameParts ==
  ASSUME NEW p \in Names
  PROVE  /\ Len(p) \in Nat /\ Len(p) >= 1 /\ DOMAIN p = 1 .. Len(p)
         /\ p \in Seq(Clients \cup Nat) /\ p[1] \in Clients \cup Nat
<1>1. p \in Seq(Clients \cup Nat) /\ p # <<>> BY DEF Names
<1>2. Len(p) \in Nat /\ DOMAIN p = 1 .. Len(p) /\ Len(p) # 0
  BY <1>1, LenProperties, EmptySeq
<1>3. 1 \in 1 .. Len(p) BY <1>2
<1> QED BY <1>1, <1>2, <1>3, ElementOfSeq

LEMMA SameName ==
  ASSUME NEW p \in Names, NEW q \in Names, Len(p) = Len(q),
         \A i \in 1 .. Len(p) : p[i] = q[i]
  PROVE  p = q
BY SeqEqual DEF Names

LEMMA Beginning ==
  ASSUME NEW p \in Names, NEW n \in 1 .. Len(p)
  PROVE  /\ SubSeq(p, 1, n) \in Names /\ Len(SubSeq(p, 1, n)) = n
         /\ \A i \in 1 .. n : SubSeq(p, 1, n)[i] = p[i]
<1>1. Len(p) \in Nat /\ DOMAIN p = 1 .. Len(p) /\ p \in Seq(Clients \cup Nat) BY NameParts
<1>2. n \in Int /\ 1 \in Int /\ 1 <= n /\ n <= Len(p) BY <1>1
<1>3. \A i \in 1 .. n : p[i] \in Clients \cup Nat BY <1>1, <1>2, ElementOfSeq
<1>4. /\ SubSeq(p, 1, n) \in Seq(Clients \cup Nat)
      /\ Len(SubSeq(p, 1, n)) = IF 1 <= n THEN n - 1 + 1 ELSE 0
      /\ \A i \in 1 .. n - 1 + 1 : SubSeq(p, 1, n)[i] = p[1 + i - 1]
  BY <1>2, <1>3, SubSeqProperties
<1>5. Len(SubSeq(p, 1, n)) = n /\ n - 1 + 1 = n BY <1>2, <1>4
<1>6. \A i \in 1 .. n : 1 + i - 1 = i BY <1>2
<1>7. SubSeq(p, 1, n) # <<>> BY <1>2, <1>5, EmptySeq
<1> QED BY <1>4, <1>5, <1>6, <1>7 DEF Names

LEMMA UnderIs ==
  ASSUME NEW p \in Names, Len(p) > 1
  PROVE  /\ Under(p) \in Names /\ Len(Under(p)) = Len(p) - 1
         /\ \A i \in 1 .. Len(p) - 1 : Under(p)[i] = p[i]
<1>1. Len(p) - 1 \in 1 .. Len(p) BY NameParts
<1> QED BY <1>1, Beginning DEF Under

LEMMA AboveIs ==
  ASSUME NEW p \in Names, NEW q \in Names, Above(q, p)
  PROVE  Len(q) > 1 /\ Len(q) = Len(p) + 1 /\ Under(q) = p /\ Below(p, q)
<1>1. Len(q) = Len(p) + 1 /\ Under(q) = p BY DEF Above
<1>2. Len(p) \in Nat /\ Len(p) >= 1 BY NameParts
<1>3. Len(q) > 1 /\ Len(q) - 1 = Len(p) /\ Len(p) < Len(q) BY <1>1, <1>2
<1> QED BY <1>1, <1>3, UnderIs DEF Below

LEMMA TowardIs ==
  ASSUME NEW p \in Names, NEW q \in Names, Below(p, q)
  PROVE  /\ Toward(p, q) \in Names /\ Above(Toward(p, q), p)
         /\ Toward(p, q) = q \/ Below(Toward(p, q), q)
<1> DEFINE r == Toward(p, q)
<1>1. Len(p) \in Nat /\ Len(p) >= 1 /\ Len(q) \in Nat BY NameParts
<1>2. Len(p) < Len(q) /\ \A i \in 1 .. Len(p) : q[i] = p[i] BY DEF Below
<1>3. Len(p) + 1 \in 1 .. Len(q) BY <1>1, <1>2
<1>4. /\ r \in Names /\ Len(r) = Len(p) + 1
      /\ \A i \in 1 .. Len(p) + 1 : r[i] = q[i]
  BY <1>3, Beginning DEF Toward
<1> HIDE DEF r
<1>5. Len(r) > 1 /\ Len(r) - 1 = Len(p) BY <1>1, <1>4
<1>6. /\ Under(r) \in Names /\ Len(Under(r)) = Len(p)
      /\ \A i \in 1 .. Len(p) : Under(r)[i] = r[i]
  BY <1>4, <1>5, UnderIs
<1>7. \A i \in 1 .. Len(p) : i \in 1 .. Len(p) + 1 BY <1>1
<1>8. Under(r) = p BY <1>2, <1>4, <1>6, <1>7, SameName
<1>9. Above(r, p) BY <1>4, <1>8 DEF Above
<1>10. CASE Len(q) = Len(p) + 1 BY <1>4, <1>9, <1>10, SameName DEF r
<1>11. CASE Len(q) # Len(p) + 1
  <2>1. Len(r) < Len(q) BY <1>1, <1>2, <1>4, <1>11
  <2> QED BY <1>4, <1>9, <2>1 DEF Below, r
<1> QED BY <1>10, <1>11

\* The next call of p.
LEMMA NextCall ==
  ASSUME NEW p \in Names, NEW n \in Nat
  PROVE  LET q == Append(p, n) IN
         /\ q \in Names /\ q[1] = p[1] /\ q[Len(p) + 1] = n /\ Below(p, q) /\ Above(q, p)
         /\ \A a \in Names : Below(a, q) => \/ a = p
                                            \/ Below(a, p) /\ p[Len(a) + 1] = q[Len(a) + 1]
                                               /\ Toward(a, p) = Toward(a, q)
         /\ \A b \in Names : b = q \/ Below(q, b) => Below(p, b) /\ b[Len(p) + 1] = n
<1> DEFINE q == Append(p, n)
<1>1. Len(p) \in Nat /\ Len(p) >= 1 /\ p \in Seq(Clients \cup Nat) BY NameParts
<1>2. n \in Clients \cup Nat OBVIOUS
<1>3. /\ q \in Seq(Clients \cup Nat) /\ Len(q) = Len(p) + 1
      /\ \A i \in 1 .. Len(p) : q[i] = p[i]
      /\ q[Len(p) + 1] = n
  BY <1>1, <1>2, AppendProperties
<1> HIDE DEF q
<1>4. q # <<>> BY <1>1, <1>3, EmptySeq
<1>5. q \in Names BY <1>3, <1>4 DEF Names
<1>6. q[1] = p[1] BY <1>1, <1>3
<1>7. Below(p, q) BY <1>1, <1>3 DEF Below
<1>8. Above(q, p)
  <2>1. Len(q) > 1 /\ Len(q) - 1 = Len(p) BY <1>1, <1>3
  <2>2. Under(q) = p BY <1>3, <1>5, <2>1, UnderIs, SameName
  <2> QED BY <1>3, <2>2 DEF Above
<1>9. ASSUME NEW a \in Names, Below(a, q), a # p
      PROVE  Below(a, p) /\ p[Len(a) + 1] = q[Len(a) + 1] /\ Toward(a, p) = Toward(a, q)
  <2>1. Len(a) \in Nat /\ Len(a) >= 1 BY NameParts
  <2>2. Len(a) <= Len(p) /\ \A i \in 1 .. Len(a) : q[i] = a[i]
    BY <1>1, <1>3, <1>9, <2>1 DEF Below
  <2>3. \A i \in 1 .. Len(a) : p[i] = a[i] BY <1>1, <1>3, <2>1, <2>2
  <2>4. Len(a) # Len(p) BY <1>9, <2>3, SameName
  <2>5. Len(a) < Len(p) BY <1>1, <2>1, <2>2, <2>4
  <2>6. Below(a, p) BY <2>3, <2>5 DEF Below
  <2>7. Len(a) + 1 \in 1 .. Len(p) /\ Len(a) + 1 \in 1 .. Len(q) BY <1>1, <1>3, <2>1, <2>5
  <2>8. p[Len(a) + 1] = q[Len(a) + 1] BY <1>3, <2>7
  <2>9. \A i \in 1 .. Len(a) + 1 : p[i] = q[i] BY <1>1, <1>3, <2>1, <2>7
  <2>10. Toward(a, p) = Toward(a, q)
    <3> DEFINE x == SubSeq(p, 1, Len(a) + 1)
               y == SubSeq(q, 1, Len(a) + 1)
    <3>1. /\ x \in Names /\ Len(x) = Len(a) + 1 /\ \A i \in 1 .. Len(a) + 1 : x[i] = p[i]
      BY <2>7, Beginning
    <3>2. /\ y \in Names /\ Len(y) = Len(a) + 1 /\ \A i \in 1 .. Len(a) + 1 : y[i] = q[i]
      BY <1>5, <2>7, Beginning
    <3> HIDE DEF x, y
    <3>3. x = y BY <2>9, <3>1, <3>2, SameName
    <3> QED BY <3>3 DEF x, y, Toward
  <2> QED BY <2>6, <2>8, <2>10
<1>10. ASSUME NEW b \in Names, b = q \/ Below(q, b)
       PROVE  Below(p, b) /\ b[Len(p) + 1] = n
  <2>1. Len(b) \in Nat BY NameParts
  <2>2. Len(q) <= Len(b) /\ \A i \in 1 .. Len(q) : b[i] = q[i]
    BY <1>1, <1>3, <1>10, <2>1 DEF Below
  <2>3. Len(p) < Len(b) BY <1>1, <1>3, <2>1, <2>2
  <2>4. \A i \in 1 .. Len(p) : i \in 1 .. Len(q) BY <1>1, <1>3
  <2>5. Len(p) + 1 \in 1 .. Len(q) BY <1>1, <1>3
  <2> QED BY <1>3, <2>2, <2>3, <2>4, <2>5 DEF Below
<1> QED BY <1>3, <1>5, <1>6, <1>7, <1>8, <1>9, <1>10 DEF q

\* The names of clients' requests.
LEMMA RootIs ==
  ASSUME NEW c \in Clients
  PROVE  /\ <<c>> \in Names /\ <<c>>[1] = c
         /\ \A p \in Names : ~Below(p, <<c>>) /\ ~Above(<<c>>, p)
         /\ \A p \in Names : Below(<<c>>, p) => p[1] = c
<1>1. <<c>> \in Names /\ <<c>>[1] = c /\ Len(<<c>>) = 1 BY DEF Names
<1>2. \A p \in Names : Len(p) \in Nat /\ Len(p) >= 1 BY NameParts
<1>3. \A p \in Names : ~(Len(p) < 1) /\ 1 # Len(p) + 1 BY <1>2
<1> QED BY <1>1, <1>3 DEF Below, Above

LEMMA SameRoot ==
  ASSUME NEW p \in Names, NEW q \in Names, Len(p) = 1, q[1] = p[1]
  PROVE  p = <<p[1]>> /\ (q = p \/ Below(p, q))
<1>1. p = <<p[1]>>
  <2>1. p \in Seq(Clients \cup Nat) /\ p[1] \in Clients \cup Nat BY NameParts
  <2>2. <<p[1]>> \in Seq(Clients \cup Nat) /\ Len(<<p[1]>>) = 1 /\ <<p[1]>>[1] = p[1]
    BY <2>1
  <2>3. <<p[1]>> \in Names BY <2>2, EmptySeq DEF Names
  <2>4. \A i \in 1 .. Len(p) : i = 1 OBVIOUS
  <2> QED BY <2>2, <2>3, <2>4, SameName
<1>2. Len(q) \in Nat /\ Len(q) >= 1 BY NameParts
<1>3. \A i \in 1 .. Len(p) : i = 1 OBVIOUS
<1>4. CASE Len(q) = 1 BY <1>1, <1>3, <1>4, SameName
<1>5. CASE Len(q) # 1 BY <1>1, <1>2, <1>3, <1>5 DEF Below
<1> QED BY <1>4, <1>5

-----------------------------------------------------------------------------
(* The calls that execNetwork makes are calls of the description.          *)
Parts(calls, service) == [i \in 1 .. Len(calls) |-> Repeated(calls[i], service)]
Joins(parts, n, f) ==
  /\ f \in [0 .. n -> Seq(UNION {Range(parts[i]) : i \in DOMAIN parts})]
  /\ \A i \in 0 .. n : f[i] = IF i = 0 THEN <<>> ELSE f[i - 1] \o parts[i]

LEMMA JoinsExist ==
  ASSUME NEW parts, NEW N \in Nat, DOMAIN parts = 1 .. N,
         \A i \in 1 .. N : parts[i] \in Seq(Range(parts[i]))
  PROVE  \E f : Joins(parts, N, f)
<1> DEFINE All == UNION {Range(parts[i]) : i \in DOMAIN parts}
           Good == {n \in Nat : n <= N => \E f : Joins(parts, n, f)}
<1>1. 0 \in Good
  <2> DEFINE f == [i \in 0 .. 0 |-> <<>>]
  <2>1. f \in [0 .. 0 -> Seq(All)] /\ \A i \in 0 .. 0 : i = 0 /\ f[i] = <<>> OBVIOUS
  <2>2. Joins(parts, 0, f) BY <2>1 DEF Joins
  <2> QED BY <2>2
<1>2. ASSUME NEW n \in Nat, n \in Good PROVE n + 1 \in Good
  <2> SUFFICES ASSUME n + 1 <= N PROVE \E g : Joins(parts, n + 1, g) OBVIOUS
  <2>1. PICK f : Joins(parts, n, f) BY <1>2
  <2>2. f \in [0 .. n -> Seq(All)] /\ \A i \in 0 .. n : f[i] = IF i = 0 THEN <<>> ELSE f[i - 1] \o parts[i]
    BY <2>1 DEF Joins
  <2>3. n + 1 \in 1 .. N /\ n \in 0 .. n /\ n + 1 # 0 /\ n + 1 - 1 = n OBVIOUS
  <2>4. Range(parts[n + 1]) \subseteq All BY <2>3
  <2>5. parts[n + 1] \in Seq(All)
    <3> HIDE DEF All
    <3>1. parts[n + 1] \in Seq(Range(parts[n + 1])) BY <2>3
    <3> QED BY <2>4, <3>1, SeqMonotonic
  <2> DEFINE g == [i \in 0 .. n + 1 |-> IF i = n + 1 THEN f[n] \o parts[n + 1] ELSE f[i]]
  <2>6. f[n] \o parts[n + 1] \in Seq(All)
    <3> HIDE DEF All
    <3> QED BY <2>2, <2>3, <2>5
  <2>7. \A i \in 0 .. n + 1 : i = n + 1 \/ i \in 0 .. n OBVIOUS
  <2>8. g \in [0 .. n + 1 -> Seq(All)]
    <3> HIDE DEF All
    <3> QED BY <2>2, <2>6, <2>7
  <2>9. \A i \in 0 .. n + 1 : g[i] = IF i = 0 THEN <<>> ELSE g[i - 1] \o parts[i]
    <3> HIDE DEF All
    <3> SUFFICES ASSUME NEW i \in 0 .. n + 1 PROVE g[i] = IF i = 0 THEN <<>> ELSE g[i - 1] \o parts[i]
      OBVIOUS
    <3>1. CASE i = n + 1
      <4>1. n \in 0 .. n + 1 /\ n + 1 \in 0 .. n + 1 /\ n # n + 1 OBVIOUS
      <4>2. g[n + 1] = f[n] \o parts[n + 1] BY <4>1
      <4>3. g[n] = f[n] BY <4>1
      <4> HIDE DEF g
      <4>4. i # 0 /\ i - 1 = n BY <3>1
      <4> QED BY <3>1, <4>2, <4>3, <4>4
    <3>2. CASE i # n + 1
      <4>1. i \in 0 .. n /\ (i # 0 => i - 1 \in 0 .. n) BY <3>2
      <4>2. g[i] = f[i] /\ (i # 0 => g[i - 1] = f[i - 1]) BY <4>1
      <4> QED BY <2>2, <4>1, <4>2
    <3> QED BY <3>1, <3>2
  <2>10. Joins(parts, n + 1, g) BY <2>8, <2>9 DEF Joins
  <2> QED BY <2>10
<1> HIDE DEF Good
<1>3. N \in Good BY <1>1, <1>2, Induction
<1> QED BY <1>3 DEF Good

LEMMA ForwardedCalls ==
  ASSUME NEW calls \in Seq(CalledService), NEW service
  PROVE  Forwarded(calls, service) \in Seq(Range(calls))
<1> DEFINE parts == Parts(calls, service)
           N == Len(calls)
           list == CHOOSE f : f = [i \in 0 .. N |-> IF i = 0 THEN <<>>
                                                    ELSE f[i - 1] \o Repeated(calls[i], service)]
<1>1. N \in Nat /\ DOMAIN calls = 1 .. N /\ \A i \in 1 .. N : calls[i] \in CalledService
  BY LenProperties, ElementOfSeq
<1>2. \A i \in 1 .. N : Repeated(calls[i], service) \in Seq({calls[i]})
  <2> SUFFICES ASSUME NEW i \in 1 .. N PROVE Repeated(calls[i], service) \in Seq({calls[i]})
    OBVIOUS
  <2>1. calls[i].ratio \in Nat BY <1>1 DEF CalledService
  <2> DEFINE x == calls[i]
             n == IF x.probability # 0 /\ x.service # service THEN 0 ELSE x.ratio
  <2>2. n \in Nat BY <2>1
  <2>3. Repeated(x, service) = [k \in 1 .. n |-> x] BY DEF Repeated
  <2> HIDE DEF x, n
  <2>4. [k \in 1 .. n |-> x] \in Seq({x}) BY <2>2
  <2> QED BY <2>3, <2>4 DEF x
<1>3. DOMAIN parts = 1 .. N /\ \A i \in 1 .. N : parts[i] = Repeated(calls[i], service) BY DEF Parts
<1>4. \A i \in 1 .. N : parts[i] \in Seq(Range(parts[i])) /\ Range(parts[i]) \subseteq {calls[i]}
  <2> SUFFICES ASSUME NEW i \in 1 .. N
               PROVE  parts[i] \in Seq(Range(parts[i])) /\ Range(parts[i]) \subseteq {calls[i]}
    OBVIOUS
  <2> DEFINE x == parts[i]
             y == calls[i]
  <2>1. x \in Seq({y}) BY <1>2, <1>3
  <2> HIDE DEF x, y
  <2>2. Len(x) \in Nat /\ x \in [1 .. Len(x) -> {y}] /\ DOMAIN x = 1 .. Len(x) BY <2>1, LenProperties
  <2>3. \A k \in 1 .. Len(x) : x[k] \in Range(x) BY <2>2 DEF Range
  <2>4. x \in [1 .. Len(x) -> Range(x)] BY <2>2, <2>3
  <2>5. x \in Seq(Range(x)) BY <2>2, <2>4
  <2>6. Range(x) \subseteq {y} BY <2>2 DEF Range
  <2> QED BY <2>5, <2>6 DEF x, y
<1> DEFINE All == UNION {Range(parts[i]) : i \in DOMAIN parts}
<1>5. All \subseteq Range(calls)
  <2> SUFFICES ASSUME NEW i \in 1 .. N, NEW y \in Range(parts[i]) PROVE y \in Range(calls)
    BY <1>3
  <2>1. y = calls[i] BY <1>4
  <2> QED BY <1>1, <2>1 DEF Range
<1>6. Forwarded(calls, service) = list[N] BY DEF Forwarded
<1> HIDE DEF parts, N
<1>7. PICK f : Joins(parts, N, f) BY <1>1, <1>3, <1>4, JoinsExist
<1>8. f = [i \in 0 .. N |-> IF i = 0 THEN <<>> ELSE f[i - 1] \o Repeated(calls[i], service)]
  <2>1. f = [i \in 0 .. N |-> f[i]] BY <1>7 DEF Joins
  <2>2. \A i \in 0 .. N : f[i] = IF i = 0 THEN <<>> ELSE f[i - 1] \o Repeated(calls[i], service)
    BY <1>1, <1>3, <1>7 DEF Joins
  <2> QED BY <2>1, <2>2
<1>9. list = [i \in 0 .. N |-> IF i = 0 THEN <<>> ELSE list[i - 1] \o Repeated(calls[i], service)]
  BY <1>8
<1> HIDE DEF list
<1>10. \A i \in 0 .. N : list[i] = IF i = 0 THEN <<>> ELSE list[i - 1] \o Repeated(calls[i], service)
  BY <1>9
<1> DEFINE Right == {n \in Nat : n <= N => list[n] \in Seq(Range(calls))}
<1>11. 0 \in Right
  <2>1. 0 \in 0 .. N BY <1>1
  <2>2. list[0] = <<>> BY <1>10, <2>1
  <2>3. <<>> \in Seq(Range(calls)) OBVIOUS
  <2> QED BY <2>2, <2>3
<1>12. ASSUME NEW n \in Nat, n \in Right PROVE n + 1 \in Right
  <2> SUFFICES ASSUME n + 1 <= N PROVE list[n + 1] \in Seq(Range(calls)) OBVIOUS
  <2>1. n <= N /\ n + 1 \in 1 .. N /\ n + 1 \in 0 .. N /\ n + 1 - 1 = n BY <1>1
  <2>2. list[n] \in Seq(Range(calls)) BY <1>12, <2>1
  <2>3. Repeated(calls[n + 1], service) \in Seq({calls[n + 1]}) BY <1>2, <2>1
  <2>4. {calls[n + 1]} \subseteq Range(calls) BY <1>1, <2>1 DEF Range
  <2>5. Repeated(calls[n + 1], service) \in Seq(Range(calls)) BY <2>3, <2>4, SeqMonotonic
  <2>6. list[n + 1] = list[n] \o Repeated(calls[n + 1], service)
    <3> DEFINE m == n + 1
    <3>1. m \in 0 .. N /\ m # 0 /\ m - 1 = n BY <2>1
    <3> HIDE DEF m
    <3>2. list[m] = list[m - 1] \o Repeated(calls[m], service) BY <1>10, <3>1
    <3> QED BY <3>1, <3>2 DEF m
  <2> QED BY <2>2, <2>5, <2>6
<1> HIDE DEF Right
<1>13. N \in Right BY <1>1, <1>11, <1>12, Induction
<1> QED BY <1>1, <1>6, <1>13 DEF Right

-----------------------------------------------------------------------------
(* The invariant. Calls are described (NodesOK); a call that has others    *)
(* below it is being served, and then it has made the one on the way to    *)
(* them, which is still there, or its handler is lost (Tree); the client   *)
(* of every call waits for its answer (Rooted). A handler is lost only     *)
(* after a service has stopped, or for an unsupported description (Fine).  *)
CallStates == Calling \cup Serving \cup {"done", "lost"}
KnownCall(k) ==
  /\ k \in [service : Services, endpoint : STRING, protocol : {"http", "grpc"}, at : CallStates,
            threads : Nat, calls : Seq(CalledService), made : Nat]
  /\ k.endpoint \in DOMAIN config.endpoints[k.service]
  /\ Range(k.calls) \subseteq Range(config.endpoints[k.service][k.endpoint].network.calls)

NodesOK ==
  /\ config \in Configs
  /\ DOMAIN node \subseteq Names
  /\ \A p \in DOMAIN node : KnownCall(node[p])

MadeToward(p, q) ==
  q[Len(p) + 1] \in 1 .. node[p].made /\ Toward(p, q) \in DOMAIN node
Tree ==
  \A p, q \in DOMAIN node : Below(p, q) =>
    /\ node[p].at \in Serving \cup {"lost"}
    /\ node[p].at \in Serving => MadeToward(p, q)

Rooted ==
  /\ asked \subseteq Clients /\ answered \subseteq asked
  /\ \A p \in DOMAIN node : p[1] \in asked \ answered

Fine ==
  stopped = {} /\ ~Unsupported =>
    /\ alive = Services
    /\ \A p \in DOMAIN node : node[p].at # "lost"
    /\ \A c \in asked \ answered : <<c>> \in DOMAIN node

OutcomeInv == NodesOK /\ Tree /\ Rooted /\ Fine

LEMMA States ==
  /\ \A x \in Calling : x \notin Serving /\ x # "done" /\ x # "lost"
  /\ \A x \in Serving : x \notin Calling /\ x # "done" /\ x # "lost"
  /\ {"register", "updateNeighbor", "announce", "lookup", "connect", "send"} = Calling
  /\ {"serve", "cpu", "network"} = Serving
  /\ Calling \subseteq CallStates /\ Serving \subseteq CallStates
  /\ "done" \in CallStates /\ "lost" \in CallStates
BY DEF Calling, Serving, CallStates

LEMMA Descriptions ==
  ASSUME NodesOK, NEW k, KnownCall(k)
  PROVE  /\ config.protocol[k.service] \in {"http", "grpc"}
         /\ config.endpoints[k.service][k.endpoint] \in Endpoint
         /\ \A called \in Range(config.endpoints[k.service][k.endpoint].network.calls) :
              called \in CalledService /\ called.endpoint \in DOMAIN config.endpoints[called.service]
<1>1. config \in Configs /\ k.service \in Services
      /\ k.endpoint \in DOMAIN config.endpoints[k.service]
  BY DEF NodesOK, KnownCall
<1>2. /\ config.endpoints[k.service][k.endpoint] \in Endpoint
      /\ \A called \in Range(config.endpoints[k.service][k.endpoint].network.calls) :
           called.endpoint \in DOMAIN config.endpoints[called.service]
      /\ config.protocol \in [Services -> {"http", "grpc"}]
  BY <1>1, SyntheticAssumption
<1> DEFINE d == config.endpoints[k.service][k.endpoint]
<1>3. d.network.calls \in Seq(CalledService) BY <1>2 DEF Endpoint, NetworkComplexity
<1> HIDE DEF d
<1>4. \A called \in Range(d.network.calls) : called \in CalledService
  BY <1>3, LenProperties, ElementOfSeq DEF Range
<1> QED BY <1>1, <1>2, <1>4 DEF d

(* Steps that add no call: what may change in one of them.                 *)
Shrunk ==
  /\ UNCHANGED <<config, asked>>
  /\ DOMAIN node' \subseteq DOMAIN node
  /\ \A p \in DOMAIN node' :
       /\ KnownCall(node'[p]) /\ node'[p].made = node[p].made
       /\ node'[p].at \in Serving => node[p].at \in Calling \cup Serving
       /\ node'[p].at \in Calling \cup {"done"}
            => \/ node[p].at \in Calling \cup {"done"}
               \/ \A q \in DOMAIN node' : ~Below(p, q)
  /\ \A q \in DOMAIN node \ DOMAIN node' : \A p \in DOMAIN node' :
       Above(q, p) => node'[p].at \notin Serving

LEMMA KnownStays ==
  ASSUME config' = config PROVE \A k : KnownCall(k)' <=> KnownCall(k)
BY DEF KnownCall

LEMMA TreeShrinks == NodesOK /\ Tree /\ Shrunk => NodesOK' /\ Tree'
<1> SUFFICES ASSUME NodesOK, Tree, Shrunk PROVE NodesOK' /\ Tree' OBVIOUS
<1>1. NodesOK'
  <2>1. config' = config /\ DOMAIN node' \subseteq DOMAIN node BY DEF Shrunk
  <2>2. \A p \in DOMAIN node' : KnownCall(node'[p]) BY DEF Shrunk
  <2>3. \A p \in DOMAIN node' : KnownCall(node[p])' BY <2>1, <2>2 DEF KnownCall
  <2> QED BY <2>1, <2>3 DEF NodesOK
<1>2. ASSUME NEW p \in DOMAIN node', NEW q \in DOMAIN node', Below(p, q)
      PROVE  /\ node'[p].at \in Serving \cup {"lost"}
             /\ node'[p].at \in Serving => MadeToward(p, q)'
  <2>1. /\ p \in DOMAIN node /\ q \in DOMAIN node /\ p \in Names /\ q \in Names
        /\ KnownCall(node'[p])
    BY DEF Shrunk, NodesOK
  <2>2. node[p].at \in Serving \cup {"lost"} /\ (node[p].at \in Serving => MadeToward(p, q))
    BY <1>2, <2>1 DEF Tree
  <2>3. node[p].at \notin Calling \cup {"done"} BY <2>2, States
  <2>4. node'[p].at \notin Calling \cup {"done"} BY <1>2, <2>3 DEF Shrunk
  <2>5. node'[p].at \in CallStates BY <2>1 DEF KnownCall
  <2>6. node'[p].at \in Serving \cup {"lost"} BY <2>4, <2>5 DEF CallStates
  <2>7. ASSUME node'[p].at \in Serving PROVE MadeToward(p, q)'
    <3>1. node[p].at \in Serving BY <2>3, <2>7 DEF Shrunk
    <3>2. q[Len(p) + 1] \in 1 .. node[p].made /\ Toward(p, q) \in DOMAIN node
      BY <2>2, <3>1 DEF MadeToward
    <3>3. Above(Toward(p, q), p) BY <1>2, <2>1, TowardIs
    <3>4. Toward(p, q) \in DOMAIN node' BY <2>7, <3>2, <3>3 DEF Shrunk
    <3>5. node'[p].made = node[p].made BY DEF Shrunk
    <3> QED BY <3>2, <3>4, <3>5 DEF MadeToward, Toward
  <2> QED BY <2>6, <2>7
<1>3. Tree' BY <1>2 DEF Tree
<1> QED BY <1>1, <1>3

\* A step that changes one call and keeps it on its way.
LEMMA OneChanged ==
  ASSUME NodesOK, UNCHANGED <<config, asked>>, NEW p \in DOMAIN node, DOMAIN node' = DOMAIN node,
         \A q \in DOMAIN node : q # p => node'[q] = node[q],
         KnownCall(node'[p]), node'[p].made = node[p].made,
         \/ node'[p].at \in Calling /\ node[p].at \in Calling
         \/ node'[p].at \in Serving /\ node[p].at \in Calling \cup Serving
  PROVE  Shrunk
<1>1. ASSUME NEW q \in DOMAIN node'
      PROVE  /\ KnownCall(node'[q]) /\ node'[q].made = node[q].made
             /\ node'[q].at \in Serving => node[q].at \in Calling \cup Serving
             /\ node'[q].at \in Calling \cup {"done"} => node[q].at \in Calling \cup {"done"}
  <2>1. CASE q = p BY <2>1, States
  <2>2. CASE q # p BY <1>1, <2>2 DEF NodesOK
  <2> QED BY <2>1, <2>2
<1> QED BY <1>1 DEF Shrunk

LEMMA Moved ==
  ASSUME NodesOK, NEW p \in DOMAIN node, NEW at \in CallStates, Step(p, at)
  PROVE  /\ DOMAIN node' = DOMAIN node /\ \A q \in DOMAIN node : q # p => node'[q] = node[q]
         /\ KnownCall(node'[p]) /\ node'[p].made = node[p].made /\ node'[p].at = at
<1>1. node' = [node EXCEPT ![p].at = at] BY DEF Step
<1>2. /\ DOMAIN node' = DOMAIN node /\ \A q \in DOMAIN node : q # p => node'[q] = node[q]
      /\ node'[p] = [node[p] EXCEPT !.at = at]
  BY <1>1
<1>3. KnownCall(node[p]) BY DEF NodesOK
<1> DEFINE k == node[p]
<1> HIDE DEF k
<1>4. KnownCall(k) => LET l == [k EXCEPT !.at = at] IN
                      KnownCall(l) /\ l.made = k.made /\ l.at = at
  BY DEF KnownCall
<1> QED BY <1>2, <1>3, <1>4 DEF k

LEMMA MovedOn ==
  ASSUME NodesOK, UNCHANGED <<config, asked>>, NEW p \in DOMAIN node, NEW at, Step(p, at),
         \/ at \in Calling /\ node[p].at \in Calling
         \/ at \in Serving /\ node[p].at \in Calling \cup Serving
  PROVE  Shrunk /\ DOMAIN node' = DOMAIN node /\ \A q \in DOMAIN node : node'[q].at = "lost" => node[q].at = "lost"
<1>1. at \in CallStates BY States
<1>2. /\ DOMAIN node' = DOMAIN node /\ \A q \in DOMAIN node : q # p => node'[q] = node[q]
      /\ KnownCall(node'[p]) /\ node'[p].made = node[p].made /\ node'[p].at = at
  BY <1>1, Moved
<1>3. Shrunk BY <1>2, OneChanged
<1>4. at # "lost" BY States
<1> QED BY <1>2, <1>3, <1>4

\* A service ends: its handlers are lost, and what is gone was called by them.
LEMMA CrashShrinks ==
  ASSUME NodesOK, UNCHANGED <<config, asked>>, NEW service, NEW alsoGone, Crash(service, alsoGone),
         \A q \in alsoGone : \A p \in DOMAIN node :
           Above(q, p) => node[p].service = service /\ node[p].at \in Serving
  PROVE  Shrunk
<1> DEFINE hit == {p \in DOMAIN node : node[p].service = service /\ node[p].at \in Serving}
           gone == alsoGone \cup UNION {Leftovers(p) : p \in hit}
           lost == [p \in DOMAIN node |-> IF p \in hit THEN [node[p] EXCEPT !.at = "lost"] ELSE node[p]]
<1>1. node' = Without(lost, gone) BY DEF Crash
<1>2. DOMAIN node' = DOMAIN node \ gone /\ \A p \in DOMAIN node' : node'[p] = lost[p]
  BY <1>1 DEF Without
<1>3. \A q \in gone : \A p \in DOMAIN node : Above(q, p) => p \in hit
  <2> SUFFICES ASSUME NEW q \in gone, NEW p \in DOMAIN node, Above(q, p) PROVE p \in hit OBVIOUS
  <2>1. CASE q \in alsoGone BY <2>1
  <2>2. CASE q \notin alsoGone
    <3>1. PICK h \in hit : q \in Leftovers(h) BY <2>2
    <3>2. Under(q) = h /\ Under(q) = p BY <3>1 DEF Leftovers, Above
    <3> QED BY <3>1, <3>2
  <2> QED BY <2>1, <2>2
<1>4. ASSUME NEW p \in DOMAIN node
      PROVE  KnownCall(lost[p]) /\ lost[p].made = node[p].made
             /\ lost[p].at = IF p \in hit THEN "lost" ELSE node[p].at
  <2> DEFINE k == node[p]
  <2>1. KnownCall(k) BY DEF NodesOK
  <2> HIDE DEF k
  <2>2. KnownCall([k EXCEPT !.at = "lost"]) /\ [k EXCEPT !.at = "lost"].made = k.made
        /\ [k EXCEPT !.at = "lost"].at = "lost"
    BY <2>1, States DEF KnownCall
  <2>3. lost[p] = IF p \in hit THEN [k EXCEPT !.at = "lost"] ELSE k BY DEF k
  <2> HIDE DEF hit, lost
  <2> QED BY <2>1, <2>2, <2>3 DEF k
<1> HIDE DEF lost, gone, hit
<1>5. /\ DOMAIN node' \subseteq DOMAIN node
      /\ \A p \in DOMAIN node' :
           /\ KnownCall(node'[p]) /\ node'[p].made = node[p].made
           /\ node'[p].at = IF p \in hit THEN "lost" ELSE node[p].at
  BY <1>2, <1>4
<1>6. "lost" \notin Serving /\ "lost" \notin Calling \cup {"done"} BY States
<1>7. \A q \in DOMAIN node \ DOMAIN node' : \A p \in DOMAIN node' :
        Above(q, p) => node'[p].at \notin Serving
  BY <1>2, <1>3, <1>5, <1>6
<1> QED BY <1>5, <1>6, <1>7 DEF Shrunk

LEMMA PanicShrinks ==
  ASSUME NodesOK, NEW p \in DOMAIN node, Panic(p)
  PROVE  Shrunk /\ UNCHANGED <<config, asked, answered, stopped>>
<1>1. UNCHANGED <<config, asked, answered, stopped>> BY DEF Panic
<1> DEFINE caller == Under(p)
<1>2. \A r \in DOMAIN node : KnownCall(node[r]) BY DEF NodesOK
<1>3. \A r \in DOMAIN node : Above(p, r) => r = caller /\ Len(p) > 1
  BY AboveIs DEF NodesOK
<1>4. CASE ~Awaited(p)
  <2>1. node' = Without(node, {p}) BY <1>4 DEF Panic
  <2>2. DOMAIN node' = DOMAIN node \ {p} /\ \A r \in DOMAIN node' : node'[r] = node[r]
    BY <2>1 DEF Without
  <2>3. \A r \in DOMAIN node : Above(p, r) => node[r].at \notin Serving
    BY <1>3, <1>4 DEF Awaited, Exists
  <2>4. \A r \in DOMAIN node' :
          /\ KnownCall(node'[r]) /\ node'[r].made = node[r].made /\ node'[r].at = node[r].at
    BY <1>2, <2>2
  <2>5. \A q \in DOMAIN node \ DOMAIN node' : \A r \in DOMAIN node' :
          Above(q, r) => node'[r].at \notin Serving
    BY <2>2, <2>3, <2>4
  <2> QED BY <1>1, <2>2, <2>4, <2>5 DEF Shrunk
<1>5. CASE Awaited(p) /\ (Described(caller).network.async \/ Protocol(caller) = "grpc")
  <2>1. Crash(node[caller].service, {p}) BY <1>5 DEF Panic
  <2>2. caller \in DOMAIN node /\ node[caller].at \in Serving BY <1>5 DEF Awaited, Exists
  <2>3. \A q \in {p} : \A r \in DOMAIN node :
          Above(q, r) => node[r].service = node[caller].service /\ node[r].at \in Serving
    BY <1>3, <2>2
  <2> HIDE DEF caller
  <2> QED BY <1>1, <2>1, <2>3, CrashShrinks
<1>6. CASE Awaited(p) /\ ~(Described(caller).network.async \/ Protocol(caller) = "grpc")
  <2> DEFINE gone == Leftovers(caller) \cup {p}
             lost == [node EXCEPT ![caller].at = "lost"]
  <2>1. node' = Without(lost, gone) BY <1>6 DEF Panic
  <2>2. caller \in DOMAIN node /\ node[caller].at \in Serving BY <1>6 DEF Awaited, Exists
  <2>3. DOMAIN node' = DOMAIN node \ gone /\ \A r \in DOMAIN node' : node'[r] = lost[r]
    BY <2>1 DEF Without
  <2>4. \A q \in gone : \A r \in DOMAIN node : Above(q, r) => r = caller
    BY <1>3 DEF Leftovers, Above
  <2>5. /\ \A r \in DOMAIN node : r # caller => lost[r] = node[r]
        /\ KnownCall(lost[caller]) /\ lost[caller].made = node[caller].made
        /\ lost[caller].at = "lost"
    <3> DEFINE k == node[caller]
    <3>1. KnownCall(k) BY <1>2, <2>2
    <3>2. lost[caller] = [k EXCEPT !.at = "lost"] BY <2>2
    <3> HIDE DEF k
    <3>3. KnownCall([k EXCEPT !.at = "lost"]) /\ [k EXCEPT !.at = "lost"].made = k.made
          /\ [k EXCEPT !.at = "lost"].at = "lost"
      BY <3>1, States DEF KnownCall
    <3> QED BY <3>2, <3>3 DEF k
  <2> HIDE DEF lost, gone, caller
  <2>6. "lost" \notin Serving /\ "lost" \notin Calling \cup {"done"} BY States
  <2>7. \A r \in DOMAIN node' :
          /\ KnownCall(node'[r]) /\ node'[r].made = node[r].made
          /\ node'[r].at = IF r = caller THEN "lost" ELSE node[r].at
    BY <1>2, <2>2, <2>3, <2>5
  <2>8. \A q \in DOMAIN node \ DOMAIN node' : \A r \in DOMAIN node' :
          Above(q, r) => node'[r].at \notin Serving
    BY <2>3, <2>4, <2>6, <2>7
  <2> QED BY <1>1, <2>3, <2>6, <2>7, <2>8 DEF Shrunk
<1> QED BY <1>1, <1>4, <1>5, <1>6

(* What a step does that adds no call and answers no client.               *)
Going ==
  /\ Shrunk
  /\ UNCHANGED <<answered, stopped>>
  /\ alive = Services /\ (\A q \in DOMAIN node : node[q].at # "lost") /\ ~Unsupported
       => /\ alive' = alive /\ DOMAIN node' = DOMAIN node
          /\ \A q \in DOMAIN node' : node'[q].at # "lost"

LEMMA MovedGoing ==
  ASSUME NodesOK, UNCHANGED <<config, asked, answered, stopped, alive>>,
         NEW p \in DOMAIN node, NEW at, Step(p, at),
         \/ at \in Calling /\ node[p].at \in Calling
         \/ at \in Serving /\ node[p].at \in Calling \cup Serving
  PROVE  Going
<1>1. Shrunk /\ DOMAIN node' = DOMAIN node /\ \A q \in DOMAIN node : node'[q].at = "lost" => node[q].at = "lost"
  BY MovedOn
<1> QED BY <1>1 DEF Going

LEMMA PanicGoing ==
  ASSUME NodesOK, NEW p \in DOMAIN node, Panic(p), node[p].at = "lost" \/ node[p].service \notin alive
  PROVE  Going
<1>1. Shrunk /\ UNCHANGED <<answered, stopped>> BY PanicShrinks
<1>2. node[p].service \in Services BY DEF NodesOK, KnownCall
<1> QED BY <1>1, <1>2 DEF Going

LEMMA RegisteredIs == \A p : Registered(p) \in Calling
BY States DEF Registered

LEMMA CallGoing ==
  ASSUME NodesOK, NEW p \in DOMAIN node,
         \/ requestEndpointRegister(p) \/ updateNeighbor(p) \/ announce(p)
         \/ lookup(p) \/ connect(p) \/ Invoke(p) \/ Failed(p)
  PROVE  Going
<1>1. CASE requestEndpointRegister(p)
  <2> DEFINE at == IF node[p].service \in neighbors[Caller(p)] THEN Registered(p) ELSE "updateNeighbor"
  <2>1. /\ node[p].at = "register" /\ Step(p, at)
        /\ UNCHANGED <<config, asked, answered, stopped, alive>>
    BY <1>1 DEF requestEndpointRegister
  <2>2. at \in Calling BY RegisteredIs, States
  <2>3. node[p].at \in Calling BY <2>1, States
  <2> HIDE DEF at
  <2> QED BY <2>1, <2>2, <2>3, MovedGoing
<1>2. CASE updateNeighbor(p)
  <2> DEFINE r == Caller(p)
             s == node[p].service
             at == IF s \in neighbors[r] THEN Registered(p) ELSE "announce"
  <2>1. node[p].at = "updateNeighbor" BY <1>2 DEF updateNeighbor
  <2>2. CASE s \in neighbors[r] \/ s \in alive
    <3>1. Step(p, at) /\ UNCHANGED <<config, asked, answered, stopped, alive>>
      BY <1>2, <2>2 DEF updateNeighbor
    <3>2. at \in Calling BY RegisteredIs, States
    <3>3. node[p].at \in Calling BY <2>1, States
    <3> HIDE DEF at
    <3> QED BY <3>1, <3>2, <3>3, MovedGoing
  <2>3. CASE ~(s \in neighbors[r] \/ s \in alive)
    <3>1. Panic(p) BY <1>2, <2>3 DEF updateNeighbor
    <3> QED BY <2>3, <3>1, PanicGoing
  <2> QED BY <2>2, <2>3
<1>3. CASE announce(p)
  <2>1. node[p].at = "announce" BY <1>3 DEF announce
  <2>2. CASE Step(p, Registered(p)) /\ UNCHANGED <<config, asked, answered, stopped, alive>>
    <3>1. node[p].at \in Calling BY <2>1, States
    <3> QED BY <2>2, <3>1, RegisteredIs, MovedGoing
  <2>3. CASE node[p].service \notin alive /\ Panic(p) BY <2>3, PanicGoing
  <2> QED BY <1>3, <2>2, <2>3 DEF announce
<1>4. CASE lookup(p)
  <2> DEFINE at == IF node[p].service \in conns[Caller(p)] THEN "send" ELSE "connect"
  <2>1. /\ node[p].at = "lookup" /\ Step(p, at)
        /\ UNCHANGED <<config, asked, answered, stopped, alive>>
    BY <1>4 DEF lookup
  <2>2. at \in Calling /\ node[p].at \in Calling BY <2>1, States
  <2> HIDE DEF at
  <2> QED BY <2>1, <2>2, MovedGoing
<1>5. CASE connect(p)
  <2>1. /\ node[p].at = "connect" /\ Step(p, "send")
        /\ UNCHANGED <<config, asked, answered, stopped, alive>>
    BY <1>5 DEF connect
  <2>2. "send" \in Calling /\ node[p].at \in Calling BY <2>1, States
  <2> QED BY <2>1, <2>2, MovedGoing
<1>6. CASE Invoke(p)
  <2>1. node[p].at = "send" BY <1>6 DEF Invoke
  <2>2. CASE node[p].service \in alive
    <3>1. Step(p, "serve") /\ UNCHANGED <<config, asked, answered, stopped, alive>>
      BY <1>6, <2>2 DEF Invoke
    <3>2. "serve" \in Serving /\ node[p].at \in Calling BY <2>1, States
    <3> QED BY <3>1, <3>2, MovedGoing
  <2>3. CASE node[p].service \notin alive
    <3>1. Panic(p) BY <1>6, <2>3 DEF Invoke
    <3> QED BY <2>3, <3>1, PanicGoing
  <2> QED BY <2>2, <2>3
<1>7. CASE Failed(p) BY <1>7, PanicGoing DEF Failed
<1> QED BY <1>1, <1>2, <1>3, <1>4, <1>5, <1>6, <1>7

\* A handler that spins, or has its calls chosen.
LEMMA HandlerGoing ==
  ASSUME NodesOK, UNCHANGED <<config, asked, answered, stopped, alive>>,
         NEW p \in DOMAIN node, node[p].at \in Serving,
         NEW at \in Serving, NEW threads \in Nat, NEW calls \in Seq(CalledService),
         Range(calls) \subseteq Range(Described(p).network.calls),
         node' = [node EXCEPT ![p] = [@ EXCEPT !.at = at, !.threads = threads, !.calls = calls]]
  PROVE  Going
<1> DEFINE k == node[p]
           l == [k EXCEPT !.at = at, !.threads = threads, !.calls = calls]
<1>1. /\ DOMAIN node' = DOMAIN node /\ \A q \in DOMAIN node : q # p => node'[q] = node[q]
      /\ node'[p] = l
  OBVIOUS
<1>2. KnownCall(k) BY DEF NodesOK
<1>3. Range(calls) \subseteq Range(config.endpoints[k.service][k.endpoint].network.calls)
  BY DEF Described
<1>4. at \in CallStates /\ at # "lost" BY States
<1> HIDE DEF k
<1>5. KnownCall(l) /\ l.made = k.made /\ l.at = at BY <1>2, <1>3, <1>4 DEF KnownCall
<1> HIDE DEF l
<1>6. Shrunk BY <1>1, <1>5, OneChanged DEF k
<1>7. \A q \in DOMAIN node' : node'[q].at = "lost" => node[q].at = "lost" BY <1>1, <1>4, <1>5
<1> QED BY <1>1, <1>6, <1>7 DEF Going

LEMMA SpinGoing ==
  ASSUME NodesOK, NEW p \in DOMAIN node,
         ServeHTTP(p) \/ SimpleRPC(p) \/ ep1(p) \/ stressCPU(p) \/ execCPU(p)
  PROVE  Going
<1>1. KnownCall(node[p]) BY DEF NodesOK
<1> DEFINE k == node[p]
<1>2. /\ k \in [service : Services, endpoint : STRING, protocol : {"http", "grpc"}, at : CallStates,
                threads : Nat, calls : Seq(CalledService), made : Nat]
      /\ Range(k.calls) \subseteq Range(Described(p).network.calls)
  BY <1>1 DEF KnownCall, Described
<1>3. Described(p) \in Endpoint BY <1>1, Descriptions DEF Described
<1>4. Described(p).threads \in Nat /\ Described(p).network.calls \in Seq(CalledService)
  BY <1>3 DEF Endpoint, CpuComplexity, NetworkComplexity
<1>5. CASE ServeHTTP(p) \/ SimpleRPC(p) \/ ep1(p)
  <2>1. Serves(p) BY <1>5 DEF ServeHTTP, SimpleRPC, ep1
  <2>2. /\ node[p].at = "serve" /\ UNCHANGED <<config, asked, answered, alive, stopped>>
        /\ node' = [node EXCEPT ![p].at = "cpu", ![p].threads = Described(p).threads]
    BY <2>1 DEF Serves
  <2>3. node' = [node EXCEPT ![p] = [@ EXCEPT !.at = "cpu", !.threads = Described(p).threads,
                                              !.calls = k.calls]]
    BY <1>2, <2>2
  <2> DEFINE at == "cpu"
             threads == Described(p).threads
             calls == k.calls
  <2>4. calls \in Seq(CalledService) /\ threads \in Nat
        /\ Range(calls) \subseteq Range(Described(p).network.calls)
    BY <1>2, <1>4
  <2>5. node[p].at \in Serving /\ at \in Serving BY <2>2, States
  <2>6. node' = [node EXCEPT ![p] = [@ EXCEPT !.at = at, !.threads = threads, !.calls = calls]]
    BY <2>3
  <2>7. UNCHANGED <<config, asked, answered, stopped, alive>> BY <2>2
  <2> HIDE DEF at, threads, calls
  <2> QED BY <2>4, <2>5, <2>6, <2>7, HandlerGoing
<1>6. CASE stressCPU(p)
  <2>1. /\ k.at = "cpu" /\ k.threads > 0 /\ UNCHANGED <<config, asked, answered, alive, stopped>>
        /\ node' = [node EXCEPT ![p].threads = @ - 1]
    BY <1>6 DEF stressCPU
  <2>2. node' = [node EXCEPT ![p] = [@ EXCEPT !.at = "cpu", !.threads = k.threads - 1,
                                              !.calls = k.calls]]
    BY <1>2, <2>1
  <2> DEFINE at == "cpu"
             threads == k.threads - 1
             calls == k.calls
  <2>3. calls \in Seq(CalledService) /\ threads \in Nat
        /\ Range(calls) \subseteq Range(Described(p).network.calls)
    BY <1>2, <2>1
  <2>4. node[p].at \in Serving /\ at \in Serving BY <2>1, States
  <2>5. node' = [node EXCEPT ![p] = [@ EXCEPT !.at = at, !.threads = threads, !.calls = calls]]
    BY <2>2
  <2>6. UNCHANGED <<config, asked, answered, stopped, alive>> BY <2>1
  <2> HIDE DEF at, threads, calls
  <2> QED BY <2>3, <2>4, <2>5, <2>6, HandlerGoing
<1>7. CASE execCPU(p)
  <2>1. /\ k.at = "cpu" /\ UNCHANGED <<config, asked, answered, alive, stopped>>
        /\ \E service \in pickDynamicService(Described(p).network.calls) :
             node' = [node EXCEPT ![p].at = "network",
                                  ![p].calls = Forwarded(Described(p).network.calls, service)]
    BY <1>7 DEF execCPU
  <2>2. PICK service \in pickDynamicService(Described(p).network.calls) :
          node' = [node EXCEPT ![p].at = "network",
                               ![p].calls = Forwarded(Described(p).network.calls, service)]
    BY <2>1
  <2> DEFINE described == Described(p).network.calls
             calls == Forwarded(described, service)
  <2>3. calls \in Seq(Range(described)) BY <1>4, ForwardedCalls
  <2>4. described \in Seq(CalledService) BY <1>4
  <2>5. node' = [node EXCEPT ![p] = [@ EXCEPT !.at = "network", !.threads = k.threads, !.calls = calls]]
    BY <1>2, <2>2
  <2>6. calls \in Seq(CalledService) /\ Range(calls) \subseteq Range(described)
    <3> HIDE DEF calls, described
    <3>1. Range(described) \subseteq CalledService
      BY <2>4, LenProperties, ElementOfSeq DEF Range
    <3>2. calls \in Seq(CalledService) BY <2>3, <3>1, SeqMonotonic
    <3>3. Range(calls) \subseteq Range(described)
      <4> DEFINE S == Range(described)
      <4> HIDE DEF S
      <4>1. calls \in Seq(S) BY <2>3 DEF S
      <4>2. \A i \in DOMAIN calls : calls[i] \in S BY <4>1, LenProperties, ElementOfSeq
      <4> QED BY <4>2 DEF Range, S
    <3> QED BY <3>2, <3>3
  <2>7. node[p].at \in Serving /\ "network" \in Serving /\ k.threads \in Nat BY <1>2, <2>1, States
  <2> HIDE DEF calls
  <2> QED BY <2>1, <2>5, <2>6, <2>7, HandlerGoing
<1> QED BY <1>5, <1>6, <1>7

LEMMA UnsupportedStays == ASSUME config' = config PROVE Unsupported' <=> Unsupported
BY DEF Unsupported

LEMMA GoingKeeps == OutcomeInv /\ Going => OutcomeInv'
<1> SUFFICES ASSUME OutcomeInv, Going PROVE OutcomeInv' OBVIOUS
<1>1. NodesOK' /\ Tree' BY TreeShrinks DEF OutcomeInv, Going
<1>2. UNCHANGED <<config, asked, answered, stopped>> /\ DOMAIN node' \subseteq DOMAIN node
  BY DEF Going, Shrunk
<1>3. Rooted' BY <1>2 DEF OutcomeInv, Rooted
<1>4. Fine'
  <2> SUFFICES ASSUME stopped' = {}, ~Unsupported'
               PROVE  /\ alive' = Services
                      /\ \A p \in DOMAIN node' : node'[p].at # "lost"
                      /\ \A c \in asked' \ answered' : <<c>> \in DOMAIN node'
    BY DEF Fine
  <2>1. stopped = {} /\ ~Unsupported BY <1>2, UnsupportedStays
  <2>2. /\ alive = Services /\ \A p \in DOMAIN node : node[p].at # "lost"
        /\ \A c \in asked \ answered : <<c>> \in DOMAIN node
    BY <2>1 DEF OutcomeInv, Fine
  <2> QED BY <1>2, <2>1, <2>2 DEF Going
<1> QED BY <1>1, <1>3, <1>4 DEF OutcomeInv

LEMMA StillShrinks == ASSUME NodesOK, UNCHANGED <<config, asked, node>> PROVE Shrunk
BY DEF NodesOK, Shrunk

LEMMA HandlesKeeps == OutcomeInv /\ Handles => OutcomeInv'
<1> SUFFICES ASSUME OutcomeInv, NEW s \in Services, NEW r \in Services, handleRegister(s, r)
             PROVE  OutcomeInv'
  BY DEF Handles
<1>1. NodesOK /\ UNCHANGED <<config, asked, answered, stopped>> BY DEF OutcomeInv, handleRegister
<1>2. CASE s \in alive /\ r \notin neighbors[s] \cup alive
  <2>1. Crash(s, {}) BY <1>2 DEF handleRegister
  <2>2. Shrunk BY <1>1, <2>1, CrashShrinks
  <2> QED BY <1>1, <1>2, <2>2, GoingKeeps DEF Going
<1>3. CASE ~(s \in alive /\ r \notin neighbors[s] \cup alive)
  <2>1. UNCHANGED <<alive, node>> BY <1>3 DEF handleRegister
  <2>2. Shrunk BY <1>1, <2>1, StillShrinks
  <2> QED BY <1>1, <2>1, <2>2, GoingKeeps DEF Going
<1> QED BY <1>2, <1>3

LEMMA StopsKeeps == ASSUME OutcomeInv, NEW s, Stops(s) PROVE OutcomeInv'
<1>1. /\ NodesOK /\ Tree /\ Rooted /\ UNCHANGED <<config, asked, answered>>
      /\ s \in stopped' /\ Crash(s, {})
  BY DEF OutcomeInv, Stops
<1>2. Shrunk BY <1>1, CrashShrinks
<1>3. NodesOK' /\ Tree' BY <1>1, <1>2, TreeShrinks
<1>4. Rooted' BY <1>1, <1>2 DEF Rooted, Shrunk
<1>5. Fine' BY <1>1 DEF Fine
<1> QED BY <1>3, <1>4, <1>5 DEF OutcomeInv

LEMMA ClientKeeps == ASSUME OutcomeInv, NEW c \in Clients, Client(c) PROVE OutcomeInv'
<1> DEFINE new == [service |-> config.entry[1], endpoint |-> config.entry[2],
                   protocol |-> config.protocol[config.entry[1]]]
<1>1. /\ NodesOK /\ Tree /\ Rooted /\ Fine /\ c \notin asked /\ asked' = asked \cup {c}
      /\ node' = [p \in DOMAIN node \cup {<<c>>} |-> IF p = <<c>> THEN Call(new, "send") ELSE node[p]]
      /\ UNCHANGED <<config, answered, alive, stopped>>
  BY DEF OutcomeInv, Client
<1>2. \A p \in DOMAIN node : p \in Names /\ p # <<c>> /\ KnownCall(node[p]) /\ p[1] \in asked \ answered
  BY <1>1, RootIs DEF NodesOK, Rooted
<1>3. <<c>> \in Names /\ <<c>>[1] = c BY RootIs
<1> DEFINE k == Call(new, "send")
<1>4. KnownCall(k) /\ k.at = "send"
  <2>1. /\ config.entry \in Services \X STRING
        /\ config.entry[2] \in DOMAIN config.endpoints[config.entry[1]]
        /\ config.protocol \in [Services -> {"http", "grpc"}]
    BY <1>1, SyntheticAssumption DEF NodesOK
  <2>2. "send" \in CallStates /\ <<>> \in Seq(CalledService) /\ Range(<<>>) = {}
    BY States DEF Range
  <2> QED BY <2>1, <2>2 DEF KnownCall, Call
<1> HIDE DEF new, k
<1>5. /\ DOMAIN node' = DOMAIN node \cup {<<c>>} /\ node'[<<c>>] = k
      /\ \A p \in DOMAIN node : node'[p] = node[p]
  BY <1>1, <1>2 DEF k
<1>6. NodesOK'
  <2>1. \A p \in DOMAIN node' : KnownCall(node'[p]) BY <1>2, <1>4, <1>5
  <2>2. \A p \in DOMAIN node' : KnownCall(node[p])' BY <1>1, <2>1 DEF KnownCall
  <2> QED BY <1>1, <1>2, <1>3, <1>5, <2>2 DEF NodesOK
<1>7. Tree'
  <2> SUFFICES ASSUME NEW p \in DOMAIN node', NEW q \in DOMAIN node', Below(p, q)
               PROVE  /\ node'[p].at \in Serving \cup {"lost"}
                      /\ node'[p].at \in Serving => MadeToward(p, q)'
    BY DEF Tree
  <2>1. q # <<c>> BY <1>2, <1>3, <1>5, RootIs
  <2>2. q \in DOMAIN node /\ q[1] # c BY <1>1, <1>2, <1>5, <2>1
  <2>3. p \in DOMAIN node BY <1>2, <1>3, <1>5, <2>2, RootIs
  <2> QED BY <1>1, <1>5, <2>2, <2>3 DEF Tree, MadeToward, Toward
<1>8. Rooted' BY <1>1, <1>2, <1>3, <1>5 DEF Rooted
<1>9. Fine'
  <2> SUFFICES ASSUME stopped' = {}, ~Unsupported'
               PROVE  /\ alive' = Services
                      /\ \A p \in DOMAIN node' : node'[p].at # "lost"
                      /\ \A d \in asked' \ answered' : <<d>> \in DOMAIN node'
    BY DEF Fine
  <2>1. stopped = {} /\ ~Unsupported BY <1>1, UnsupportedStays
  <2>2. /\ alive = Services /\ \A p \in DOMAIN node : node[p].at # "lost"
        /\ \A d \in asked \ answered : <<d>> \in DOMAIN node
    BY <1>1, <2>1 DEF Fine
  <2> QED BY <1>1, <1>4, <1>5, <2>2
<1> QED BY <1>6, <1>7, <1>8, <1>9 DEF OutcomeInv

LEMMA execTaskKeeps == ASSUME OutcomeInv, NEW p \in DOMAIN node, execTask(p) PROVE OutcomeInv'
<1> DEFINE gone == IF Awaited(p) THEN Leftovers(p) ELSE Leftovers(p) \cup {p}
<1>1. /\ NodesOK /\ Tree /\ Rooted /\ Fine
      /\ node[p].at = "network" /\ AllBack(p)
      /\ answered' = IF Len(p) = 1 THEN answered \cup {p[1]} ELSE answered
      /\ UNCHANGED <<config, asked, alive, stopped>>
      /\ node' = IF Awaited(p) THEN Without([node EXCEPT ![p].at = "done"], Leftovers(p))
                               ELSE Without(node, Leftovers(p) \cup {p})
  BY DEF OutcomeInv, execTask
<1>2. p \in Names /\ KnownCall(node[p]) /\ \A q \in DOMAIN node : q \in Names /\ KnownCall(node[q])
  BY <1>1 DEF NodesOK
<1>3. DOMAIN node' = DOMAIN node \ gone BY <1>1 DEF Without
<1>4. /\ \A q \in DOMAIN node' : q # p => node'[q] = node[q]
      /\ p \in DOMAIN node' => /\ KnownCall(node'[p]) /\ node'[p].made = node[p].made
                               /\ node'[p].at = "done"
  <2>1. \A q \in DOMAIN node' : q # p => node'[q] = node[q]
    BY <1>1 DEF Without
  <2>2. ASSUME p \in DOMAIN node' PROVE node'[p] = [node[p] EXCEPT !.at = "done"]
    BY <1>1, <1>3, <2>2 DEF Without
  <2> DEFINE k == node[p]
  <2>3. KnownCall(k) BY <1>2
  <2> HIDE DEF k
  <2>4. KnownCall([k EXCEPT !.at = "done"]) /\ [k EXCEPT !.at = "done"].made = k.made
        /\ [k EXCEPT !.at = "done"].at = "done"
    BY <2>3, States DEF KnownCall
  <2> QED BY <2>1, <2>2, <2>4 DEF k
<1>5. p \in DOMAIN node' => Awaited(p) BY <1>3
\* Nothing that was called on the way stays.
<1>6. ASSUME NEW q \in DOMAIN node', Below(p, q) PROVE FALSE
  <2>1. q \in DOMAIN node /\ q \in Names BY <1>2, <1>3
  <2>2. node[p].at \in Serving BY <1>1, States
  <2> DEFINE r == Toward(p, q)
  <2>3. r \in DOMAIN node BY <1>1, <1>6, <2>1, <2>2 DEF Tree, MadeToward
  <2>4. Above(r, p) /\ (r = q \/ Below(r, q)) BY <1>2, <1>6, <2>1, TowardIs
  <2> HIDE DEF r
  <2>5. node[r].at = "done" BY <1>1, <2>3, <2>4 DEF AllBack, Made
  <2>6. CASE r = q
    <3>1. "done" \notin Serving BY States
    <3>2. q \in Leftovers(p) BY <2>3, <2>4, <2>5, <2>6, <3>1 DEF Leftovers
    <3> QED BY <1>3, <3>2
  <2>7. CASE Below(r, q)
    <3>1. node[r].at \in Serving \cup {"lost"} BY <1>1, <2>1, <2>3, <2>7 DEF Tree
    <3> QED BY <2>5, <3>1, States
  <2> QED BY <2>4, <2>6, <2>7
<1>7. Shrunk
  <2>1. \A q \in DOMAIN node' :
          /\ KnownCall(node'[q]) /\ node'[q].made = node[q].made
          /\ node'[q].at \in Serving => node[q].at \in Calling \cup Serving
          /\ node'[q].at \in Calling \cup {"done"}
               => \/ node[q].at \in Calling \cup {"done"}
                  \/ \A r \in DOMAIN node' : ~Below(q, r)
    <3> SUFFICES ASSUME NEW q \in DOMAIN node'
                 PROVE  /\ KnownCall(node'[q]) /\ node'[q].made = node[q].made
                        /\ node'[q].at \in Serving => node[q].at \in Calling \cup Serving
                        /\ node'[q].at \in Calling \cup {"done"}
                             => \/ node[q].at \in Calling \cup {"done"}
                                \/ \A r \in DOMAIN node' : ~Below(q, r)
      OBVIOUS
    <3>1. CASE q = p BY <1>4, <1>6, <3>1, States
    <3>2. CASE q # p BY <1>2, <1>3, <1>4, <3>2
    <3> QED BY <3>1, <3>2
  <2>2. ASSUME NEW q \in DOMAIN node \ DOMAIN node', NEW r \in DOMAIN node', Above(q, r)
        PROVE  node'[r].at \notin Serving
    <3>1. q \in gone /\ r \in DOMAIN node BY <1>3, <2>2
    <3>2. CASE q \in Leftovers(p)
      <4>1. r = p BY <2>2, <3>2 DEF Leftovers, Above
      <4> QED BY <1>4, <2>2, <4>1, States
    <3>3. CASE q = p /\ ~Awaited(p)
      <4>1. Len(p) > 1 /\ Under(p) = r BY <1>2, <2>2, <3>1, <3>3, AboveIs
      <4>2. node[r].at \notin Serving BY <3>1, <3>3, <4>1 DEF Awaited, Exists
      <4>3. r # p BY <1>5, <2>2, <3>3
      <4> QED BY <1>4, <2>2, <4>2, <4>3
    <3> QED BY <3>1, <3>2, <3>3
  <2> QED BY <1>1, <1>3, <2>1, <2>2 DEF Shrunk
<1>8. NodesOK' /\ Tree' BY <1>1, <1>7, TreeShrinks
<1>9. Rooted'
  <2>1. p[1] \in asked BY <1>1 DEF Rooted
  <2>2. ASSUME NEW q \in DOMAIN node', Len(p) = 1 PROVE q[1] # p[1]
    <3> SUFFICES ASSUME q[1] = p[1] PROVE FALSE OBVIOUS
    <3>1. q \in DOMAIN node /\ q \in Names BY <1>2, <1>3
    <3>2. q = p BY <1>2, <1>6, <2>2, <3>1, SameRoot
    <3>3. ~Awaited(p) BY <2>2 DEF Awaited
    <3> QED BY <1>5, <3>2, <3>3
  <2> QED BY <1>1, <1>3, <2>1, <2>2 DEF Rooted
<1>10. Fine'
  <2> SUFFICES ASSUME stopped' = {}, ~Unsupported'
               PROVE  /\ alive' = Services
                      /\ \A q \in DOMAIN node' : node'[q].at # "lost"
                      /\ \A c \in asked' \ answered' : <<c>> \in DOMAIN node'
    BY DEF Fine
  <2>1. stopped = {} /\ ~Unsupported BY <1>1, UnsupportedStays
  <2>2. /\ alive = Services /\ \A q \in DOMAIN node : node[q].at # "lost"
        /\ \A c \in asked \ answered : <<c>> \in DOMAIN node
    BY <1>1, <2>1 DEF Fine
  <2>3. \A q \in DOMAIN node' : node'[q].at # "lost" BY <1>3, <1>4, <2>2
  <2>4. ASSUME NEW c \in asked' \ answered' PROVE <<c>> \in DOMAIN node'
    <3>1. c \in asked \ answered /\ c \in Clients BY <1>1, <2>4 DEF Rooted
    <3>2. <<c>> \in DOMAIN node /\ <<c>>[1] = c BY <2>2, <3>1
    <3>3. <<c>> \notin Leftovers(p) BY <1>2, <3>1, RootIs DEF Leftovers
    <3>4. <<c>> # p \/ Awaited(p)
      <4> SUFFICES ASSUME <<c>> = p PROVE FALSE OBVIOUS
      <4>1. Len(p) = 1 /\ p[1] = c OBVIOUS
      <4> QED BY <1>1, <2>4, <4>1
    <3> QED BY <1>3, <3>2, <3>3, <3>4
  <2> QED BY <1>1, <2>2, <2>3, <2>4
<1> QED BY <1>8, <1>9, <1>10 DEF OutcomeInv

LEMMA ForwardKeeps == ASSUME OutcomeInv, NEW p \in DOMAIN node, execNetwork(p) PROVE OutcomeInv'
<1> DEFINE n == node[p].made + 1
           target == node[p].calls[n]
           q == Append(p, n)
<1>1. /\ NodesOK /\ Tree /\ Rooted /\ Fine
      /\ node[p].at = "network" /\ node[p].made < Len(node[p].calls) /\ Forward(p)
  BY DEF OutcomeInv, execNetwork, execParallel, execSequential
<1>2. /\ p \in Names /\ KnownCall(node[p])
      /\ \A r \in DOMAIN node : r \in Names /\ KnownCall(node[r])
  BY <1>1 DEF NodesOK
<1>3. /\ node[p].made \in Nat /\ node[p].calls \in Seq(CalledService)
      /\ Range(node[p].calls) \subseteq Range(Described(p).network.calls)
  BY <1>2 DEF KnownCall, Described
<1>4. n \in Nat /\ n \in 1 .. Len(node[p].calls) BY <1>1, <1>3
<1>5. target \in Range(Described(p).network.calls)
  <2> DEFINE calls == node[p].calls
  <2>1. DOMAIN calls = 1 .. Len(calls) BY <1>3, LenProperties
  <2>2. calls[n] \in Range(calls) BY <1>4, <2>1 DEF Range
  <2> QED BY <1>3, <2>2
<1>6. target \in CalledService /\ target.endpoint \in DOMAIN config.endpoints[target.service]
  BY <1>1, <1>2, <1>5, Descriptions DEF Described
<1>7. UNCHANGED <<config, asked, answered, stopped>> BY <1>1 DEF Forward
<1>8. CASE target.protocol = "http" /\ Protocol(p) = "grpc"
  <2>1. Crash(node[p].service, {}) BY <1>1, <1>8 DEF Forward
  <2>2. Shrunk BY <1>1, <1>7, <2>1, CrashShrinks
  <2>3. Unsupported
    <3>1. node[p].service \in Services /\ node[p].endpoint \in DOMAIN config.endpoints[node[p].service]
      BY <1>2 DEF KnownCall
    <3> QED BY <1>5, <1>8, <3>1 DEF Unsupported, Protocol, Described
  <2> QED BY <1>7, <2>2, <2>3, GoingKeeps DEF Going
<1>9. CASE ~(target.protocol = "http" /\ Protocol(p) = "grpc")
  <2> DEFINE k == Call(target, "register")
             l == [node[p] EXCEPT !.made = @ + 1]
  <2>1. /\ node' = [r \in DOMAIN node \cup {q} |->
                      IF r = q THEN k ELSE IF r = p THEN l ELSE node[r]]
        /\ alive' = alive
    BY <1>1, <1>9 DEF Forward
  <2>2. KnownCall(k) /\ k.at = "register"
    <3>1. "register" \in CallStates /\ <<>> \in Seq(CalledService) /\ Range(<<>>) = {}
      BY States DEF Range
    <3> HIDE DEF target
    <3> QED BY <1>6, <3>1 DEF KnownCall, Call, CalledService
  <2>3. KnownCall(l) /\ l.at = "network" /\ l.made = n
    <3> DEFINE m == node[p]
    <3>1. KnownCall(m) /\ m.at = "network" /\ m.made \in Nat BY <1>1, <1>2, <1>3
    <3> HIDE DEF m
    <3>2. KnownCall([m EXCEPT !.made = @ + 1]) /\ [m EXCEPT !.made = @ + 1].at = "network"
          /\ [m EXCEPT !.made = @ + 1].made = m.made + 1
      BY <3>1 DEF KnownCall
    <3> QED BY <3>2 DEF m
  <2>4. /\ q \in Names /\ q[1] = p[1] /\ q[Len(p) + 1] = n /\ Below(p, q) /\ Above(q, p)
        /\ \A a \in Names : Below(a, q) => \/ a = p
                                           \/ Below(a, p) /\ p[Len(a) + 1] = q[Len(a) + 1]
                                              /\ Toward(a, p) = Toward(a, q)
        /\ \A b \in Names : b = q \/ Below(q, b) => Below(p, b) /\ b[Len(p) + 1] = n
    <3> HIDE DEF n
    <3>1. n \in Nat /\ p \in Names BY <1>2, <1>4
    <3> QED BY <3>1, NextCall
  <2>5. Toward(p, q) = q
    <3>1. Len(q) = Len(p) + 1 /\ q \in Seq(Clients \cup Nat) BY <1>2, <2>4, NameParts, AboveIs
    <3> HIDE DEF q
    <3> QED BY <3>1, SubSeqFull DEF Toward
  <2> HIDE DEF q, k, l
  <2>6. node[p].at \in Serving BY <1>1, States
  <2>7. ~(n \in 1 .. node[p].made) BY <1>3
  <2>8. \A b \in DOMAIN node : b # q /\ ~Below(q, b)
    <3> SUFFICES ASSUME NEW b \in DOMAIN node, b = q \/ Below(q, b) PROVE FALSE OBVIOUS
    <3>1. Below(p, b) /\ b[Len(p) + 1] = n BY <1>2, <2>4
    <3>2. MadeToward(p, b) BY <1>1, <2>6, <3>1 DEF Tree
    <3> QED BY <2>7, <3>1, <3>2 DEF MadeToward
  <2>9. /\ DOMAIN node' = DOMAIN node \cup {q} /\ node'[q] = k /\ node'[p] = l
        /\ \A r \in DOMAIN node : r # p => node'[r] = node[r]
    BY <2>1, <2>8
  <2>10. NodesOK'
    <3>1. \A r \in DOMAIN node' : KnownCall(node'[r]) BY <1>2, <2>2, <2>3, <2>9
    <3>2. \A r \in DOMAIN node' : KnownCall(node[r])' BY <1>7, <3>1 DEF KnownCall
    <3> QED BY <1>1, <1>2, <1>7, <2>4, <2>9, <3>2 DEF NodesOK
  <2>11. \A r \in DOMAIN node : node'[r].at = node[r].at /\ (r # p => node'[r].made = node[r].made)
    BY <1>1, <2>3, <2>9
  <2>12. ASSUME NEW a \in DOMAIN node', NEW b \in DOMAIN node', Below(a, b)
         PROVE  /\ node'[a].at \in Serving \cup {"lost"}
                /\ node'[a].at \in Serving => MadeToward(a, b)'
    <3>1. a # q
      <4> SUFFICES ASSUME a = q PROVE FALSE OBVIOUS
      <4>1. b = q BY <2>8, <2>9, <2>12
      <4>2. Len(q) \in Nat BY <2>4, NameParts
      <4>3. Len(q) < Len(q) BY <2>12, <4>1 DEF Below
      <4> QED BY <4>2, <4>3
    <3>2. a \in DOMAIN node /\ a \in Names BY <1>2, <2>9, <3>1
    <3>3. CASE b = q /\ a = p
      <4>1. n \in 1 .. n BY <1>4
      <4> QED BY <2>3, <2>4, <2>5, <2>6, <2>9, <2>11, <3>3, <4>1 DEF MadeToward, Toward
    <3>4. CASE b = q /\ a # p
      <4>1. Below(a, p) /\ p[Len(a) + 1] = q[Len(a) + 1] /\ Toward(a, p) = Toward(a, q)
        BY <2>4, <2>12, <3>2, <3>4
      <4>2. /\ node[a].at \in Serving \cup {"lost"}
            /\ node[a].at \in Serving => MadeToward(a, p)
        BY <1>1, <3>2, <4>1 DEF Tree
      <4>3. node[a].at \in Serving =>
              q[Len(a) + 1] \in 1 .. node'[a].made /\ Toward(a, q) \in DOMAIN node'
        BY <2>9, <2>11, <3>2, <3>4, <4>1, <4>2 DEF MadeToward
      <4> QED BY <2>11, <3>2, <3>4, <4>2, <4>3 DEF MadeToward, Toward
    <3>5. CASE b # q
      <4>1. b \in DOMAIN node BY <2>9, <3>5
      <4>2. /\ node[a].at \in Serving \cup {"lost"}
            /\ node[a].at \in Serving => MadeToward(a, b)
        BY <1>1, <2>12, <3>2, <4>1 DEF Tree
      <4>3. node[a].made \in Nat BY <1>2, <3>2 DEF KnownCall
      <4>4. node'[a].made = node[a].made \/ node'[a].made = node[a].made + 1
        BY <2>3, <2>9, <2>11, <3>2
      <4>5. node[a].at \in Serving =>
              b[Len(a) + 1] \in 1 .. node'[a].made /\ Toward(a, b) \in DOMAIN node'
        <5>1. \A m \in Nat : \A x \in 1 .. m : x \in 1 .. m + 1 OBVIOUS
        <5> QED BY <2>9, <4>2, <4>3, <4>4, <5>1 DEF MadeToward
      <4> QED BY <2>11, <3>2, <4>2, <4>5 DEF MadeToward, Toward
    <3> QED BY <3>3, <3>4, <3>5
  <2>13. Tree' BY <2>12 DEF Tree
  <2>14. Rooted' BY <1>1, <1>7, <2>4, <2>9 DEF Rooted
  <2>15. Fine'
    <3> SUFFICES ASSUME stopped' = {}, ~Unsupported'
                 PROVE  /\ alive' = Services
                        /\ \A r \in DOMAIN node' : node'[r].at # "lost"
                        /\ \A c \in asked' \ answered' : <<c>> \in DOMAIN node'
      BY DEF Fine
    <3>1. stopped = {} /\ ~Unsupported BY <1>7, UnsupportedStays
    <3>2. /\ alive = Services /\ \A r \in DOMAIN node : node[r].at # "lost"
          /\ \A c \in asked \ answered : <<c>> \in DOMAIN node
      BY <1>1, <3>1 DEF Fine
    <3> QED BY <1>7, <2>1, <2>2, <2>9, <2>11, <3>2
  <2> QED BY <2>10, <2>13, <2>14, <2>15 DEF OutcomeInv
<1> QED BY <1>8, <1>9

LEMMA OutcomeInit == Init => OutcomeInv
<1> SUFFICES ASSUME Init PROVE OutcomeInv OBVIOUS
<1>1. DOMAIN node = {} /\ config \in Configs /\ asked = {} /\ answered = {} /\ alive = Services
  BY DEF Init
<1> QED BY <1>1 DEF OutcomeInv, NodesOK, Tree, Rooted, Fine

LEMMA OutcomeStep == OutcomeInv /\ [Next]_vars => OutcomeInv'
<1> SUFFICES ASSUME OutcomeInv, [Next]_vars PROVE OutcomeInv' OBVIOUS
<1>1. CASE Handles BY <1>1, HandlesKeeps
<1>2. CASE Proceeds
  <2>1. PICK p \in DOMAIN node : Goes(p) BY <1>2 DEF Proceeds
  <2>2. NodesOK BY DEF OutcomeInv
  <2>3. CASE \/ requestEndpointRegister(p) \/ updateNeighbor(p) \/ announce(p)
             \/ lookup(p) \/ connect(p) \/ Invoke(p) \/ Failed(p)
    <3>1. Going BY <2>2, <2>3, CallGoing
    <3> QED BY <3>1, GoingKeeps
  <2>4. CASE ServeHTTP(p) \/ SimpleRPC(p) \/ ep1(p) \/ stressCPU(p) \/ execCPU(p)
    <3>1. Going BY <2>2, <2>4, SpinGoing
    <3> QED BY <3>1, GoingKeeps
  <2>5. CASE execNetwork(p) BY <2>5, ForwardKeeps
  <2>6. CASE execTask(p) BY <2>6, execTaskKeeps
  <2> QED BY <2>1, <2>3, <2>4, <2>5, <2>6 DEF Goes
<1>3. CASE \E c \in Clients : Client(c) BY <1>3, ClientKeeps
<1>4. CASE \E s \in Failing : Stops(s) BY <1>4, StopsKeeps
<1>5. CASE UNCHANGED vars
  <2>1. NodesOK /\ UNCHANGED <<config, asked, answered, stopped, alive, node>>
    BY <1>5 DEF vars, OutcomeInv
  <2>2. Shrunk BY <2>1, StillShrinks
  <2>3. Going BY <2>1, <2>2 DEF Going
  <2> QED BY <2>3, GoingKeeps
<1> QED BY <1>1, <1>2, <1>3, <1>4, <1>5 DEF Next

(* An answered request has left nothing behind in any service, and one     *)
(* that fails does so because a service has stopped or because of an HTTP  *)
(* call in a gRPC service: no race of registrations, connections, threads  *)
(* and calls makes a handler panic, in any application (handler.go,        *)
(* exec_network.go 52-108, pause.go 25-74, utils.go 430-490).              *)
THEOREM Outcomes == Spec => []OutcomesExplained
<1>1. OutcomeInv => OutcomesExplained
  <2> SUFFICES ASSUME OutcomeInv PROVE NothingLeft /\ FailsForAReason BY DEF OutcomesExplained
  <2>1. NothingLeft BY DEF OutcomeInv, Rooted, NothingLeft
  <2>2. FailsForAReason BY DEF OutcomeInv, Fine, FailsForAReason
  <2> QED BY <2>1, <2>2
<1> QED BY <1>1, OutcomeInit, OutcomeStep, PTL DEF Spec

-----------------------------------------------------------------------------
(* The invariant: what was dialled is in the table, so the second look     *)
(* under the write lock cannot miss it.                                    *)
DialledIsKnown ==
  /\ conns = [r \in Services |-> conns[r]]
  /\ dialled \in [Services -> [Services -> {0, 1}]]
  /\ \A r, s \in Services : dialled[r][s] = 1 => s \in conns[r]

(* No step but connect touches the connections (utils.go 475-482). *)
LEMMA OnlyConnectDials ==
  ASSUME Next PROVE UNCHANGED grpc \/ \E p \in DOMAIN node : connect(p)
<1>1. CASE Handles
  BY <1>1 DEF Handles, handleRegister, Crash
<1>2. CASE \E c \in Clients : Client(c)
  BY <1>2 DEF Client
<1>3. CASE \E s \in Failing : Stops(s)
  BY <1>3 DEF Stops
<1>4. ASSUME NEW p \in DOMAIN node, Goes(p)
      PROVE  UNCHANGED grpc \/ connect(p)
  <2>1. CASE requestEndpointRegister(p) \/ Invoke(p) \/ Failed(p)
    BY <2>1 DEF requestEndpointRegister, Invoke, Failed, Panic, network, grpc
  <2>2. CASE updateNeighbor(p) \/ announce(p)
    BY <2>2 DEF updateNeighbor, announce, Panic
  <2>3. CASE lookup(p)
    BY <2>3 DEF lookup
  <2>4. CASE ServeHTTP(p) \/ SimpleRPC(p) \/ ep1(p)
    BY <2>4 DEF ServeHTTP, SimpleRPC, ep1, Serves
  <2>5. CASE stressCPU(p) \/ execCPU(p) \/ execTask(p)
    BY <2>5 DEF stressCPU, execCPU, execTask
  <2>6. CASE execNetwork(p)
    BY <2>6 DEF execNetwork, execParallel, execSequential, Forward
  <2>7. QED
    BY <1>4, <2>1, <2>2, <2>3, <2>4, <2>5, <2>6 DEF Goes
<1>5. QED
  BY <1>1, <1>2, <1>3, <1>4 DEF Next, Proceeds

LEMMA DialInit == Init => DialledIsKnown
  BY DEF Init, DialledIsKnown

LEMMA DialStep == DialledIsKnown /\ [Next]_vars => DialledIsKnown'
<1> SUFFICES ASSUME DialledIsKnown, [Next]_vars PROVE DialledIsKnown'
  OBVIOUS
<1>1. CASE UNCHANGED grpc
  BY <1>1 DEF DialledIsKnown, grpc
<1>2. ASSUME NEW p \in DOMAIN node, connect(p)
      PROVE  DialledIsKnown'
  <2> DEFINE r == Caller(p)
             s == node[p].service
  <2>1. /\ conns' = [conns EXCEPT ![r] = @ \cup {s}]
        /\ dialled' = IF s \in conns[r] THEN dialled ELSE [dialled EXCEPT ![r][s] = @ + 1]
    BY <1>2 DEF connect, InitGRPCConn
  <2> HIDE DEF r, s
  <2>2. conns' = [t \in Services |-> conns'[t]]
    BY <2>1 DEF DialledIsKnown
  <2>3. \A t, u \in Services : dialled[t][u] = 1 => u \in conns'[t]
    BY <2>1 DEF DialledIsKnown
  <2>4. CASE s \in conns[r] \/ r \notin Services \/ s \notin Services
    <3>1. dialled' = dialled
      BY <2>1, <2>4 DEF DialledIsKnown
    <3>2. QED
      BY <3>1, <2>2, <2>3 DEF DialledIsKnown
  <2>5. CASE s \notin conns[r] /\ r \in Services /\ s \in Services
    <3>1. dialled[r][s] = 0
      BY <2>5 DEF DialledIsKnown
    <3>2. dialled' \in [Services -> [Services -> {0, 1}]]
      BY <2>1, <2>5, <3>1 DEF DialledIsKnown
    <3>3. \A t, u \in Services : dialled'[t][u] = 1 => u \in conns'[t]
      BY <2>1, <2>3, <2>5 DEF DialledIsKnown
    <3>4. QED
      BY <2>2, <3>2, <3>3 DEF DialledIsKnown
  <2>6. QED
    BY <2>4, <2>5
<1>3. QED
  BY <1>1, <1>2, OnlyConnectDials DEF vars, grpc

(* However many goroutines call another service over gRPC at the same      *)
(* time, a service opens one connection to it (utils.go 461-490).          *)
THEOREM Connections == Spec => []OneConnection
<1>1. DialledIsKnown => OneConnection
  BY DEF DialledIsKnown, OneConnection
<1>2. QED
  BY <1>1, DialInit, DialStep, PTL DEF Spec
=============================================================================
