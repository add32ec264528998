------------------------- MODULE Subscription_proofs -------------------------
(***************************************************************************)
(* What the operators of Subscription do to a topic, for every set of      *)
(* mails and workers: the lemmas that the proofs of both directions of the *)
(* D-Mail bridge cite.                                                     *)
(***************************************************************************)
EXTENDS Subscription, SequenceTheorems, TLAPS

(* A message is leased exactly while a worker holds it, is queued only when a
   delivery is left, and has had one once it is leased. *)
Sound(m, Holders) ==
  /\ m.at = "leased" <=> m.by \in Holders
  /\ m.at = "queued" => m.tries < MaxAttempts
  /\ m.at = "leased" => m.tries > 0

AllSound(t, Holders) == \A i \in 1..Len(t) : Sound(t[i], Holders)

(* What the Courier sees of a topic. *)
StatesOf(t) == [i \in 1..Len(t) |-> Standing(t[i])]
TriesOf(t) == [i \in 1..Len(t) |-> t[i].tries]

(* A message given back is queued again as long as a delivery is left. *)
LEMMA NackIs ==
  ASSUME NEW M, NEW H, NEW m \in Messages(M, H)
  PROVE  \/ AfterNack(m) = "queued" /\ m.tries < MaxAttempts
         \/ AfterNack(m) = "dead" /\ m.tries = MaxAttempts
  BY AttemptsAssumption DEF AfterNack, Messages

(* A function that continues a sequence by one element is the sequence with it appended. *)
LEMMA FunctionIsAppend ==
  ASSUME NEW S, NEW n \in Nat, NEW s \in [1..n -> S], NEW e \in S,
         NEW f \in [1..n + 1 -> S],
         \A j \in 1..n + 1 : f[j] = IF j = n + 1 THEN e ELSE s[j]
  PROVE  f = Append(s, e)
<1>1. s \in Seq(S) /\ Len(s) = n
  OBVIOUS
<1>2. /\ Append(s, e) \in Seq(S) /\ Len(Append(s, e)) = n + 1
      /\ \A j \in 1..n : Append(s, e)[j] = s[j]
      /\ Append(s, e)[n + 1] = e
  BY <1>1, AppendProperties
<1>3. Append(s, e) = [j \in 1..n + 1 |-> Append(s, e)[j]]
  BY <1>2, LenProperties
<1>4. \A j \in 1..n + 1 : f[j] = Append(s, e)[j]
  BY <1>2
<1> QED BY <1>3, <1>4

(* Publishing. *)
Published(t, m) == Append(t, Fresh(m))

LEMMA PublishedIs ==
  ASSUME NEW M, NEW H, Nobody \notin H, NEW t \in Seq(Messages(M, H)), AllSound(t, H),
         NEW m \in M, NEW u, u = Published(t, m)
  PROVE  /\ u \in Seq(Messages(M, H)) /\ Len(u) = Len(t) + 1
         /\ \A j \in 1..Len(t) : u[j] = t[j]
         /\ u[Len(t) + 1] = Fresh(m)
         /\ AllSound(u, H)
         /\ StatesOf(u) = Append(StatesOf(t), "open")
         /\ TriesOf(u) = Append(TriesOf(t), 0)
<1>1. Fresh(m) \in Messages(M, H) /\ Sound(Fresh(m), H) /\ Standing(Fresh(m)) = "open"
      /\ Fresh(m).tries = 0
  BY AttemptsAssumption DEF Fresh, Messages, Sound, Standing
<1>2. /\ u \in Seq(Messages(M, H)) /\ Len(u) = Len(t) + 1 /\ Len(t) \in Nat
      /\ \A j \in 1..Len(t) : u[j] = t[j]
      /\ u[Len(t) + 1] = Fresh(m)
  BY <1>1, AppendProperties, LenProperties DEF Published
<1>3. AllSound(u, H)
  BY <1>1, <1>2 DEF AllSound
<1>4. StatesOf(u) = Append(StatesOf(t), "open")
  <2>1. ASSUME NEW j \in 1..Len(t) PROVE Standing(t[j]) \in {"open", "acked", "dead"}
    <3>1. t[j] \in Messages(M, H)
      BY ElementOfSeq
    <3> QED BY <3>1 DEF Standing, Messages
  <2>2. StatesOf(t) \in [1..Len(t) -> {"open", "acked", "dead"}]
    BY <2>1 DEF StatesOf
  <2>3. \A j \in 1..Len(t) + 1 : StatesOf(u)[j] = IF j = Len(t) + 1 THEN "open" ELSE StatesOf(t)[j]
    BY <1>1, <1>2 DEF StatesOf
  <2>4. StatesOf(u) \in [1..Len(t) + 1 -> {"open", "acked", "dead"}] /\ Len(t) \in Nat
    <3>1. StatesOf(u) = [j \in 1..Len(t) + 1 |-> StatesOf(u)[j]]
      BY <1>2 DEF StatesOf
    <3> QED BY <1>2, <2>2, <2>3, <3>1
  <2> QED BY <2>2, <2>3, <2>4, FunctionIsAppend
<1>5. TriesOf(u) = Append(TriesOf(t), 0)
  <2>1. ASSUME NEW j \in 1..Len(t) PROVE t[j].tries \in Nat
    <3>1. t[j] \in Messages(M, H)
      BY ElementOfSeq
    <3> QED BY <3>1, AttemptsAssumption DEF Messages
  <2>2. TriesOf(t) \in [1..Len(t) -> Nat]
    BY <2>1 DEF TriesOf
  <2>3. \A j \in 1..Len(t) + 1 : TriesOf(u)[j] = IF j = Len(t) + 1 THEN 0 ELSE TriesOf(t)[j]
    BY <1>1, <1>2 DEF TriesOf
  <2>4. TriesOf(u) \in [1..Len(t) + 1 -> Nat] /\ Len(t) \in Nat
    <3>1. TriesOf(u) = [j \in 1..Len(t) + 1 |-> TriesOf(u)[j]]
      BY <1>2 DEF TriesOf
    <3> QED BY <1>2, <2>2, <2>3, <3>1
  <2> QED BY <2>2, <2>3, <2>4, FunctionIsAppend
<1> QED BY <1>2, <1>3, <1>4, <1>5

(* A delivery. *)
LEMMA LeasedIs ==
  ASSUME NEW M, NEW H, Nobody \notin H, NEW t \in Seq(Messages(M, H)), AllSound(t, H),
         NEW i \in 1..Len(t), NEW w \in H, t[i].at = "queued", NEW u, u = Leased(t, i, w)
  PROVE  /\ u \in Seq(Messages(M, H)) /\ Len(u) = Len(t)
         /\ \A j \in 1..Len(t) : j # i => u[j] = t[j]
         /\ u[i].mail = t[i].mail /\ u[i].at = "leased" /\ u[i].by = w
         /\ u[i].tries = t[i].tries + 1
         /\ AllSound(u, H)
         /\ StatesOf(u) = StatesOf(t)
         /\ TriesOf(u) = [TriesOf(t) EXCEPT ![i] = @ + 1]
         /\ t[i].tries < MaxAttempts
<1> DEFINE m == [t[i] EXCEPT !.at = "leased", !.by = w, !.tries = @ + 1]
<1>1. t[i] \in Messages(M, H) /\ t[i].tries < MaxAttempts
  BY ElementOfSeq DEF AllSound, Sound
<1>2. /\ m \in Messages(M, H) /\ m.mail = t[i].mail /\ m.at = "leased" /\ m.by = w
      /\ m.tries = t[i].tries + 1 /\ t[i].tries \in Nat
  <2>1. t[i].tries \in Nat /\ t[i].tries + 1 \in 0..MaxAttempts
    BY <1>1, AttemptsAssumption DEF Messages
  <2> QED BY <1>1, <2>1 DEF Messages
<1>3. u = [t EXCEPT ![i] = m]
  BY LenProperties DEF Leased
<1>4. /\ u \in Seq(Messages(M, H)) /\ Len(u) = Len(t)
      /\ \A j \in 1..Len(t) : u[j] = IF j = i THEN m ELSE t[j]
  <2> HIDE DEF m
  <2> QED BY <1>2, <1>3, ExceptSeq
<1> HIDE DEF m
<1>5. AllSound(u, H)
  BY <1>2, <1>4 DEF AllSound, Sound
<1>6. StatesOf(u) = StatesOf(t)
  BY <1>2, <1>4 DEF StatesOf, Standing
<1>7. TriesOf(u) = [TriesOf(t) EXCEPT ![i] = @ + 1]
  BY <1>2, <1>4 DEF TriesOf
<1> QED BY <1>1, <1>2, <1>4, <1>5, <1>6, <1>7

(* The end of a lease. *)
LEMMA ReleasedIs ==
  ASSUME NEW M, NEW H, Nobody \notin H, NEW t \in Seq(Messages(M, H)), AllSound(t, H),
         NEW i \in 1..Len(t), t[i].by \in H, NEW at \in {"acked", AfterNack(t[i])},
         NEW u, u = Released(t, i, at)
  PROVE  /\ u \in Seq(Messages(M, H)) /\ Len(u) = Len(t)
         /\ \A j \in 1..Len(t) : j # i => u[j] = t[j]
         /\ u[i].mail = t[i].mail /\ u[i].at = at
         /\ t[i].at = "leased" /\ t[i].tries > 0
         /\ AllSound(u, H)
         /\ at = "queued" => StatesOf(u) = StatesOf(t)
         /\ at # "queued" => StatesOf(u) = [StatesOf(t) EXCEPT ![i] = at]
         /\ at = "dead" => t[i].tries = MaxAttempts
         /\ at \in {"queued", "acked", "dead"}
         /\ TriesOf(u) = TriesOf(t)
<1> DEFINE m == [t[i] EXCEPT !.at = at, !.by = Nobody]
<1>1. t[i] \in Messages(M, H) /\ t[i].at = "leased" /\ t[i].tries > 0
  BY ElementOfSeq DEF AllSound, Sound
<1>2. /\ at \in {"queued", "acked", "dead"}
      /\ at = "queued" => t[i].tries < MaxAttempts
      /\ at = "dead" => t[i].tries = MaxAttempts
  BY <1>1, NackIs, AttemptsAssumption DEF Messages
<1>3. /\ m \in Messages(M, H) /\ m.mail = t[i].mail /\ m.at = at /\ m.by = Nobody
      /\ m.tries = t[i].tries
  BY <1>1, <1>2 DEF Messages
<1>4. u = [t EXCEPT ![i] = m]
  BY LenProperties DEF Released
<1>5. /\ u \in Seq(Messages(M, H)) /\ Len(u) = Len(t)
      /\ \A j \in 1..Len(t) : u[j] = IF j = i THEN m ELSE t[j]
  <2> HIDE DEF m
  <2> QED BY <1>3, <1>4, ExceptSeq
<1> HIDE DEF m
<1>6. AllSound(u, H)
  BY <1>2, <1>3, <1>5 DEF AllSound, Sound
<1>7. at = "queued" => StatesOf(u) = StatesOf(t)
  BY <1>1, <1>3, <1>5 DEF StatesOf, Standing
<1>8. at # "queued" => StatesOf(u) = [StatesOf(t) EXCEPT ![i] = at]
  BY <1>2, <1>3, <1>5 DEF StatesOf, Standing
<1>9. TriesOf(u) = TriesOf(t)
  BY <1>3, <1>5 DEF TriesOf
<1> QED BY <1>1, <1>2, <1>3, <1>5, <1>6, <1>7, <1>8, <1>9

(* The end of a daemon: all its leases end at once. *)
AllReleased(t) ==
  [i \in 1..Len(t) |-> IF t[i].at = "leased"
                       THEN [t[i] EXCEPT !.at = AfterNack(t[i]), !.by = Nobody]
                       ELSE t[i]]
LastTry(t) == {i \in 1..Len(t) : t[i].at = "leased" /\ t[i].tries = MaxAttempts}

LEMMA AllReleasedIs ==
  ASSUME NEW M, NEW H, Nobody \notin H, NEW t \in Seq(Messages(M, H)), AllSound(t, H),
         NEW u, u = AllReleased(t)
  PROVE  /\ u \in Seq(Messages(M, H)) /\ Len(u) = Len(t)
         /\ \A j \in 1..Len(t) : u[j].mail = t[j].mail
         /\ \A j \in 1..Len(t) : Settled(t[j]) => u[j] = t[j]
         /\ \A j \in 1..Len(t) : u[j].at = "acked" => t[j].at = "acked"
         /\ AllSound(u, H)
         /\ StatesOf(u) = [i \in 1..Len(t) |-> IF i \in LastTry(t) THEN "dead" ELSE StatesOf(t)[i]]
         /\ TriesOf(u) = TriesOf(t)
<1>1. ASSUME NEW j \in 1..Len(t)
      PROVE  /\ u[j] \in Messages(M, H) /\ Sound(u[j], H)
             /\ u[j].mail = t[j].mail /\ u[j].tries = t[j].tries
             /\ Settled(t[j]) => u[j] = t[j]
             /\ u[j].at = "acked" => t[j].at = "acked"
             /\ Standing(u[j]) = IF j \in LastTry(t) THEN "dead" ELSE Standing(t[j])
  <2>1. t[j] \in Messages(M, H) /\ Sound(t[j], H) /\ u[j] = AllReleased(t)[j]
    BY ElementOfSeq DEF AllSound
  <2>2. CASE t[j].at = "leased"
    <3>1. u[j] = [t[j] EXCEPT !.at = AfterNack(t[j]), !.by = Nobody]
      BY <2>1, <2>2 DEF AllReleased
    <3>2. \/ AfterNack(t[j]) = "queued" /\ t[j].tries < MaxAttempts /\ j \notin LastTry(t)
          \/ AfterNack(t[j]) = "dead" /\ t[j].tries = MaxAttempts /\ j \in LastTry(t)
      <4>1. t[j].tries \in Nat
        BY <2>1 DEF Messages
      <4> QED BY <2>1, <2>2, <4>1, NackIs, AttemptsAssumption DEF LastTry
    <3>3. /\ u[j] \in Messages(M, H) /\ u[j].mail = t[j].mail /\ u[j].tries = t[j].tries
          /\ u[j].at = AfterNack(t[j]) /\ u[j].by = Nobody
      BY <2>1, <3>1, <3>2 DEF Messages
    <3> QED BY <2>1, <2>2, <3>2, <3>3 DEF Sound, Settled, Standing
  <2>3. CASE t[j].at # "leased"
    BY <2>1, <2>3 DEF AllReleased, LastTry
  <2> QED BY <2>2, <2>3
<1>2. u \in Seq(Messages(M, H)) /\ Len(u) = Len(t)
  <2>1. u \in [1..Len(t) -> Messages(M, H)]
    BY <1>1 DEF AllReleased
  <2> QED BY <2>1, LenProperties
<1>3. AllSound(u, H) /\ TriesOf(u) = TriesOf(t)
  BY <1>1, <1>2 DEF AllSound, TriesOf
<1>4. StatesOf(u) = [i \in 1..Len(t) |-> IF i \in LastTry(t) THEN "dead" ELSE StatesOf(t)[i]]
  BY <1>1, <1>2 DEF StatesOf
<1> QED BY <1>1, <1>2, <1>3, <1>4
=============================================================================
