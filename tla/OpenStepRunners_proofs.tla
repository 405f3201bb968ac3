----------------------- MODULE OpenStepRunners_proofs -----------------------
(***************************************************************************)
(* Proofs about OpenStepRunners: a step runner and any client, that sends  *)
(* several requests at a time, and among them whatever else it likes.      *)
(***************************************************************************)
EXTENDS OpenStepRunners, SequenceTheorems, TLAPS

StepReplies == {"STEP SUCCEEDED", "STEP FAILED", "STEP NOT FOUND"}
ReplyCommands == {"SCENARIO STARTED", "SCENARIO ENDED"} \cup StepReplies

(* What a handler takes for its request. *)
RequestFrames == {m \in Seq(Frame) : m[1] \in Commands}

Entry == [frames : RequestFrames, state : Nat, fails : BOOLEAN,
          reply : ReplyCommands]

-----------------------------------------------------------------------------
(***************************************************************************)
(* Requests in a queue of frames.                                          *)
(***************************************************************************)

(* The messages there are have one, two or three frames. *)
LEMMA Tuples ==
  ASSUME NEW S, NEW x \in S, NEW y \in S, NEW z \in S
  PROVE  /\ <<x>> \in Seq(S) /\ Len(<<x>>) = 1
         /\ <<x, y>> \in Seq(S) /\ <<x, y>> # <<>> /\ Len(<<x, y>>) = 2
         /\ <<x, y>>[1] = x /\ Head(<<x, y>>) = x
         /\ <<x, y, z>> \in Seq(S) /\ <<x, y, z>> # <<>> /\ Len(<<x, y, z>>) = 3
         /\ <<x, y, z>>[1] = x /\ Head(<<x, y, z>>) = x
OBVIOUS

(* What a request looks like: its command first, and as many frames as the *)
(* handler of the command reads.                                           *)
LEMMA RequestShape ==
  ASSUME NEW m \in RequestMessages
  PROVE  /\ m \in Seq(Frame) /\ m # <<>>
         /\ m[1] \in Commands /\ Head(m) = m[1]
         /\ m[1] = "RUN STEP" => Len(m) = 3
         /\ m[1] # "RUN STEP" => Len(m) = 2
         /\ Len(m) \in Nat \ {0, 1}
<1>1. ASSUME NEW n \in Names, NEW c \in Commands, m = <<c, n>>
      PROVE  /\ m \in Seq(Frame) /\ m # <<>> /\ Len(m) = 2
             /\ m[1] = c /\ Head(m) = c
  <2>1. c \in Frame /\ n \in Frame
    BY DEF Frame
  <2>2. /\ <<c, n>> \in Seq(Frame) /\ <<c, n>> # <<>> /\ Len(<<c, n>>) = 2
        /\ <<c, n>>[1] = c /\ Head(<<c, n>>) = c
    BY <2>1, Tuples
  <2> QED
    BY <1>1, <2>2, Zenon
<1>2. ASSUME NEW n \in Names, NEW t \in Texts, NEW c \in Commands, m = <<c, n, t>>
      PROVE  /\ m \in Seq(Frame) /\ m # <<>> /\ Len(m) = 3
             /\ m[1] = c /\ Head(m) = c
  <2>1. c \in Frame /\ n \in Frame /\ t \in Frame
    BY DEF Frame
  <2>2. /\ <<c, n, t>> \in Seq(Frame) /\ <<c, n, t>> # <<>> /\ Len(<<c, n, t>>) = 3
        /\ <<c, n, t>>[1] = c /\ Head(<<c, n, t>>) = c
    BY <2>1, Tuples
  <2> QED
    BY <1>2, <2>2, Zenon
<1> DEFINE start == "START SCENARIO"
           end == "END SCENARIO"
           step == "RUN STEP"
<1>3. /\ start \in Commands /\ end \in Commands /\ step \in Commands
      /\ start # step /\ end # step
  BY DEF Commands
<1>4. \/ \E n \in Names : m = <<start, n>>
      \/ \E n \in Names : m = <<end, n>>
      \/ \E n \in Names, t \in Texts : m = <<step, n, t>>
  <2>1. \A c : m \in ScenarioRequests(c) => \E n \in Names : m = <<c, n>>
    BY DEF ScenarioRequests
  <2>2. \A c : m \in StepRequests(c) => \E n \in Names, t \in Texts : m = <<c, n, t>>
    BY DEF StepRequests
  <2> QED
    BY <2>1, <2>2, Zenon DEF RequestMessages
<1> HIDE DEF start, end, step
<1>5. /\ m \in Seq(Frame) /\ m # <<>>
      /\ m[1] \in Commands /\ Head(m) = m[1]
      /\ m[1] = step => Len(m) = 3
      /\ m[1] # step => Len(m) = 2
  <2>1. CASE \E n \in Names : m = <<start, n>>
    BY <1>1, <1>3, <2>1
  <2>2. CASE \E n \in Names : m = <<end, n>>
    BY <1>1, <1>3, <2>2
  <2>3. CASE \E n \in Names, t \in Texts : m = <<step, n, t>>
    BY <1>2, <1>3, <2>3
  <2> QED
    BY <1>4, <2>1, <2>2, <2>3
<1>6. Len(m) \in Nat \ {0, 1}
  BY <1>5
<1> QED
  BY <1>5, <1>6 DEF step

(* The other messages are frames too, of some of them none is a command. *)
LEMMA OtherShape ==
  ASSUME NEW m \in OtherMessages
  PROVE  /\ m \in Seq(Frame)
         /\ ~HoldsCommand(m) => \A i \in 1..Len(m) : m[i] \notin Commands
<1>1. m \in Seq(Frame)
  BY OpenAssumption DEF OpenAssumption
<1>2. DOMAIN m = 1..Len(m)
  BY <1>1, LenProperties
<1> QED
  BY <1>1, <1>2 DEF HoldsCommand

(***************************************************************************)
(* The requests all from the first one on are in the queue q: each whole,  *)
(* at its place, in order, and every frame of q that is a command is in    *)
(* one of them.                                                            *)
(***************************************************************************)
Whole(q, m, at) ==
  /\ at + Len(m) <= Len(q) + 1
  /\ \A j \in 1..Len(m) : q[at + j - 1] = m[j]

Placed(q, all, first, place) ==
  /\ \A k \in first..Len(all) : Whole(q, all[k], place[k])
  /\ \A j, k \in first..Len(all) : j < k => place[j] + Len(all[j]) <= place[k]
  /\ \A i \in 1..Len(q) : q[i] \in Commands =>
       \E k \in first..Len(all) : place[k] <= i /\ i < place[k] + Len(all[k])

Pending(q, all, first) ==
  \E place \in [first..Len(all) -> Nat \ {0}] : Placed(q, all, first, place)

(* A whole request stays whole when more is queued behind it. *)
LEMMA WholeStill ==
  ASSUME NEW q \in Seq(Frame), NEW m \in RequestMessages, NEW at \in Nat \ {0},
         Whole(q, m, at), NEW more \in Seq(Frame)
  PROVE  Whole(q \o more, m, at)
<1>1. Len(m) \in Nat
  BY RequestShape, LenProperties
<1>2. /\ Len(q \o more) = Len(q) + Len(more) /\ Len(q) \in Nat /\ Len(more) \in Nat
      /\ \A i \in 1..Len(q) : (q \o more)[i] = q[i]
  BY ConcatProperties, LenProperties
<1>3. ASSUME NEW j \in 1..Len(m)
      PROVE  (q \o more)[at + j - 1] = m[j]
  <2>1. at + j - 1 \in 1..Len(q)
    BY <1>1, <1>2 DEF Whole
  <2> QED
    BY <1>2, <2>1 DEF Whole
<1> QED
  BY <1>1, <1>2, <1>3 DEF Whole

(* A request that is sent is pending behind the others. *)
LEMMA PendingRequest ==
  ASSUME NEW q \in Seq(Frame), NEW all \in Seq(RequestMessages),
         NEW first \in 1..(Len(all) + 1), Pending(q, all, first),
         NEW m \in RequestMessages
  PROVE  Pending(q \o m, Append(all, m), first)
<1> DEFINE n == Len(all) + 1
           more == q \o m
           every == Append(all, m)
<1>1. m \in Seq(Frame) /\ Len(m) \in Nat
  BY RequestShape, LenProperties
<1>2. /\ more \in Seq(Frame) /\ Len(more) = Len(q) + Len(m) /\ Len(q) \in Nat
      /\ \A i \in 1..Len(q) : more[i] = q[i]
      /\ \A i \in (Len(q) + 1)..(Len(q) + Len(m)) : more[i] = m[i - Len(q)]
  BY <1>1, ConcatProperties, LenProperties
<1>3. /\ Len(every) = n /\ every[n] = m /\ n - 1 = Len(all) /\ n \in Nat \ {0}
      /\ \A k \in 1..Len(all) : every[k] = all[k] /\ all[k] \in RequestMessages
      /\ Len(all) \in Nat
  BY AppendProperties, LenProperties, ElementOfSeq
<1>4. PICK place \in [first..Len(all) -> Nat \ {0}] : Placed(q, all, first, place)
  BY DEF Pending
<1> DEFINE new == [k \in first..n |-> IF k = n THEN Len(q) + 1 ELSE place[k]]
<1>5. new \in [first..n -> Nat \ {0}] /\ new[n] = Len(q) + 1
  BY <1>2, <1>3
<1>6. ASSUME NEW k \in first..Len(all)
      PROVE  /\ new[k] = place[k] /\ every[k] = all[k] /\ k # n
             /\ all[k] \in RequestMessages /\ place[k] \in Nat \ {0}
             /\ Len(all[k]) \in Nat
  <2>1. k \in 1..Len(all) /\ k \in first..n /\ k # n
    BY <1>3
  <2>2. all[k] \in RequestMessages /\ every[k] = all[k]
    BY <1>3, <2>1
  <2>3. Len(all[k]) \in Nat
    BY <2>2, RequestShape, LenProperties
  <2> QED
    BY <2>1, <2>2, <2>3
<1>7. \A k \in first..n : k \in first..Len(all) \/ k = n
  BY <1>3
<1>8. first..Len(all) \subseteq first..n /\ n \in first..n
  BY <1>3
<1> HIDE DEF n, more, every, new
<1>9. Whole(more, m, Len(q) + 1)
  <2>1. ASSUME NEW j \in 1..Len(m)
        PROVE  more[Len(q) + 1 + j - 1] = m[j]
    <3> DEFINE i == Len(q) + j
    <3>1. /\ i \in (Len(q) + 1)..(Len(q) + Len(m))
          /\ Len(q) + 1 + j - 1 = i /\ i - Len(q) = j
      BY <1>1, <1>2
    <3> HIDE DEF i
    <3> QED
      BY <1>2, <3>1
  <2>2. Len(q) + 1 + Len(m) <= Len(more) + 1
    BY <1>1, <1>2
  <2> QED
    BY <2>1, <2>2 DEF Whole
<1>10. \A k \in first..n : Whole(more, every[k], new[k])
  <2>1. ASSUME NEW k \in first..Len(all)
        PROVE  Whole(more, all[k], place[k])
    BY <1>1, <1>4, <1>6, <2>1, WholeStill DEF Placed, more
  <2> QED
    BY <1>3, <1>5, <1>6, <1>7, <1>9, <2>1
<1>11. ASSUME NEW j \in first..n, NEW k \in first..n, j < k
       PROVE  new[j] + Len(every[j]) <= new[k]
  <2>1. j \in first..Len(all)
    BY <1>3, <1>7, <1>11
  <2>2. CASE k = n
    <3>1. place[j] + Len(all[j]) <= Len(q) + 1
      BY <1>4, <2>1 DEF Placed, Whole
    <3> QED
      BY <1>5, <1>6, <2>1, <2>2, <3>1
  <2>3. CASE k # n
    BY <1>4, <1>6, <1>7, <1>11, <2>1, <2>3 DEF Placed
  <2> QED
    BY <2>2, <2>3
<1>12. ASSUME NEW i \in 1..Len(more), more[i] \in Commands
       PROVE  \E k \in first..n : new[k] <= i /\ i < new[k] + Len(every[k])
  <2>1. CASE i <= Len(q)
    <3>1. i \in 1..Len(q) /\ q[i] \in Commands
      BY <1>2, <1>12, <2>1
    <3>2. PICK k \in first..Len(all) : place[k] <= i /\ i < place[k] + Len(all[k])
      BY <1>4, <3>1 DEF Placed
    <3> QED
      BY <1>6, <1>8, <3>2
  <2>2. CASE i > Len(q)
    <3>1. Len(q) + 1 <= i /\ i < Len(q) + 1 + Len(m)
      BY <1>1, <1>2, <2>2
    <3>2. new[n] <= i /\ i < new[n] + Len(every[n])
      BY <1>3, <1>5, <3>1
    <3> QED
      BY <1>8, <3>2
  <2> QED
    BY <1>1, <1>2, <2>1, <2>2
<1>13. Placed(more, every, first, new)
  BY <1>3, <1>10, <1>11, <1>12 DEF Placed
<1> QED
  BY <1>3, <1>5, <1>13 DEF Pending, more, every

(* Another message that has no command in it leaves them pending. *)
LEMMA PendingOther ==
  ASSUME NEW q \in Seq(Frame), NEW all \in Seq(RequestMessages),
         NEW first \in 1..(Len(all) + 1), Pending(q, all, first),
         NEW m \in OtherMessages, ~HoldsCommand(m)
  PROVE  Pending(q \o m, all, first)
<1>1. /\ m \in Seq(Frame) /\ Len(m) \in Nat
      /\ \A i \in 1..Len(m) : m[i] \notin Commands
  BY OtherShape, LenProperties
<1>2. /\ Len(q \o m) = Len(q) + Len(m) /\ Len(q) \in Nat
      /\ \A i \in 1..Len(q) : (q \o m)[i] = q[i]
      /\ \A i \in (Len(q) + 1)..(Len(q) + Len(m)) : (q \o m)[i] = m[i - Len(q)]
  BY <1>1, ConcatProperties, LenProperties
<1>3. PICK place \in [first..Len(all) -> Nat \ {0}] : Placed(q, all, first, place)
  BY DEF Pending
<1>4. \A k \in first..Len(all) : all[k] \in RequestMessages /\ place[k] \in Nat \ {0}
  <2>1. first..Len(all) \subseteq 1..Len(all)
    BY LenProperties
  <2> QED
    BY <2>1, ElementOfSeq
<1>5. \A k \in first..Len(all) : Whole(q \o m, all[k], place[k])
  BY <1>1, <1>3, <1>4, WholeStill DEF Placed
<1>6. ASSUME NEW i \in 1..Len(q \o m), (q \o m)[i] \in Commands
      PROVE  i \in 1..Len(q) /\ q[i] \in Commands
  <2>1. CASE i > Len(q)
    <3>1. i - Len(q) \in 1..Len(m)
      BY <1>1, <1>2, <2>1
    <3> QED
      BY <1>1, <1>2, <1>6, <2>1, <3>1
  <2> QED
    BY <1>2, <1>6, <2>1
<1>7. Placed(q \o m, all, first, place)
  BY <1>3, <1>5, <1>6 DEF Placed
<1> QED
  BY <1>7 DEF Pending

(* Two requests are at different places, the later one behind the other. *)
LEMMA LaterPlace ==
  ASSUME NEW q \in Seq(Frame), NEW all \in Seq(RequestMessages),
         NEW first \in 1..(Len(all) + 1),
         NEW place \in [first..Len(all) -> Nat \ {0}],
         Placed(q, all, first, place)
  PROVE  \A k \in first..Len(all) :
           /\ all[k] \in RequestMessages /\ Len(all[k]) \in Nat \ {0, 1}
           /\ place[k] \in Nat \ {0}
           /\ k # first => /\ first \in first..Len(all)
                          /\ place[first] + Len(all[first]) <= place[k]
<1>1. ASSUME NEW k \in first..Len(all)
      PROVE  /\ all[k] \in RequestMessages /\ Len(all[k]) \in Nat \ {0, 1}
             /\ place[k] \in Nat \ {0}
  <2>1. k \in 1..Len(all)
    BY LenProperties
  <2>2. all[k] \in RequestMessages
    BY <2>1, ElementOfSeq
  <2> QED
    BY <2>2, RequestShape
<1>2. ASSUME NEW k \in first..Len(all), k # first
      PROVE  /\ first \in first..Len(all)
             /\ place[first] + Len(all[first]) <= place[k]
  <2>1. first < k /\ first \in first..Len(all)
    BY <1>2, LenProperties
  <2> QED
    BY <2>1 DEF Placed
<1> QED
  BY <1>1, <1>2

(* A request that is whole behind n frames is whole when these are read. *)
LEMMA WholeShifted ==
  ASSUME NEW q, NEW rest, NEW n \in Nat, Len(q) \in Nat,
         Len(rest) = Len(q) - n,
         \A i \in 1..(Len(q) - n) : rest[i] = q[n + i],
         NEW m \in RequestMessages, NEW at \in Nat \ {0}, Whole(q, m, at + n)
  PROVE  Whole(rest, m, at)
<1>1. Len(m) \in Nat
  BY RequestShape
<1>2. /\ at + n + Len(m) <= Len(q) + 1
      /\ \A j \in 1..Len(m) : q[at + n + j - 1] = m[j]
  BY DEF Whole
<1>3. at + Len(m) <= Len(rest) + 1
  BY <1>1, <1>2
<1>4. ASSUME NEW j \in 1..Len(m)
      PROVE  rest[at + j - 1] = m[j]
  <2> DEFINE i == at + j - 1
  <2>1. i \in 1..(Len(q) - n) /\ n + i = at + n + j - 1
    BY <1>1, <1>2
  <2> HIDE DEF i
  <2>2. rest[i] = m[j]
    BY <1>2, <2>1
  <2> QED
    BY <2>2 DEF i
<1> QED
  BY <1>3, <1>4 DEF Whole

(* When n frames are read, the requests behind them are pending, if those  *)
(* before them end with the frames that were read.                         *)
LEMMA PendingShifted ==
  ASSUME NEW q \in Seq(Frame), NEW rest, NEW n \in Nat,
         Len(rest) = Len(q) - n,
         \A i \in 1..(Len(q) - n) : rest[i] = q[n + i],
         NEW all \in Seq(RequestMessages), NEW first \in 1..(Len(all) + 1),
         NEW place \in [first..Len(all) -> Nat \ {0}],
         Placed(q, all, first, place),
         NEW from \in {first, first + 1},
         \A k \in first..Len(all) :
           IF k < from THEN place[k] + Len(all[k]) <= n + 1 ELSE n < place[k]
  PROVE  Pending(rest, all, from)
<1>1. Len(q) \in Nat /\ Len(all) \in Nat /\ from \in Nat /\ first \in Nat
  BY LenProperties
<1> DEFINE new == [k \in from..Len(all) |-> place[k] - n]
<1>2. ASSUME NEW k \in from..Len(all)
      PROVE  /\ k \in first..Len(all)
             /\ all[k] \in RequestMessages /\ Len(all[k]) \in Nat
             /\ \E at \in Nat \ {0} : new[k] = at /\ place[k] = at + n
  <2>1. k \in first..Len(all) /\ ~(k < from)
    BY <1>1
  <2>2. /\ all[k] \in RequestMessages /\ Len(all[k]) \in Nat
        /\ place[k] \in Nat /\ n < place[k]
    BY <2>1, LaterPlace
  <2>3. PICK p \in Nat : p = place[k]
    BY <2>2
  <2>4. new[k] = p - n /\ p - n \in Nat \ {0} /\ p = (p - n) + n
    BY <2>2, <2>3
  <2> HIDE DEF new
  <2> QED
    BY <2>1, <2>2, <2>3, <2>4
<1>3. new \in [from..Len(all) -> Nat \ {0}]
  <2>1. ASSUME NEW k \in from..Len(all) PROVE new[k] \in Nat \ {0}
    <3> HIDE DEF new
    <3> QED
      BY <1>2
  <2> QED
    BY <2>1
<1> HIDE DEF new
<1>4. ASSUME NEW k \in from..Len(all)
      PROVE  Whole(rest, all[k], new[k])
  <2>1. Whole(q, all[k], place[k]) /\ all[k] \in RequestMessages
    BY <1>2 DEF Placed
  <2>2. PICK at \in Nat \ {0} : new[k] = at /\ place[k] = at + n
    BY <1>2
  <2>3. Whole(q, all[k], at + n)
    BY <2>1, <2>2, Zenon
  <2>4. Whole(rest, all[k], at)
    BY <1>1, <2>1, <2>3, WholeShifted, Zenon
  <2> QED
    BY <2>2, <2>4, Zenon
<1>5. ASSUME NEW j \in from..Len(all), NEW k \in from..Len(all), j < k
      PROVE  new[j] + Len(all[j]) <= new[k]
  <2>1. place[j] + Len(all[j]) <= place[k]
    BY <1>2, <1>5 DEF Placed
  <2>2. PICK a \in Nat : new[j] = a /\ place[j] = a + n
    BY <1>2
  <2>3. PICK b \in Nat : new[k] = b /\ place[k] = b + n
    BY <1>2
  <2>4. PICK w \in Nat : Len(all[j]) = w
    BY <1>2
  <2>5. a + n + w <= b + n
    BY <2>1, <2>2, <2>3, <2>4
  <2> QED
    BY <2>2, <2>3, <2>4, <2>5
<1>6. ASSUME NEW i \in 1..Len(rest), rest[i] \in Commands
      PROVE  \E k \in from..Len(all) : new[k] <= i /\ i < new[k] + Len(all[k])
  <2>1. n + i \in 1..Len(q) /\ i \in 1..(Len(q) - n)
    BY <1>1
  <2>2. q[n + i] \in Commands
    BY <1>6, <2>1
  <2>3. PICK k \in first..Len(all) : place[k] <= n + i /\ n + i < place[k] + Len(all[k])
    BY <2>1, <2>2 DEF Placed
  <2>4. all[k] \in RequestMessages /\ Len(all[k]) \in Nat /\ place[k] \in Nat
    BY LaterPlace
  <2>5. ~(place[k] + Len(all[k]) <= n + 1)
    BY <2>1, <2>3, <2>4
  <2>6. k \in from..Len(all)
    BY <1>1, <2>5
  <2>7. PICK a \in Nat : new[k] = a /\ place[k] = a + n
    BY <1>2, <2>6
  <2>8. PICK w \in Nat : Len(all[k]) = w
    BY <2>4
  <2>9. a + n <= n + i /\ n + i < a + n + w
    BY <2>3, <2>7, <2>8
  <2>10. a <= i /\ i < a + w
    BY <2>1, <2>9
  <2> QED
    BY <2>6, <2>7, <2>8, <2>10
<1>7. Placed(rest, all, from, new)
  BY <1>4, <1>5, <1>6 DEF Placed
<1> QED
  BY <1>3, <1>7 DEF Pending

(* A queue whose first frame is a command begins with the first request,   *)
(* and when the frames of this one are read the others are pending.        *)
LEMMA PendingHandled ==
  ASSUME NEW q \in Seq(Frame), NEW all \in Seq(RequestMessages),
         NEW first \in 1..(Len(all) + 1), Pending(q, all, first),
         q # <<>>, Head(q) \in Commands
  PROVE  /\ first <= Len(all)
         /\ Len(all[first]) <= Len(q)
         /\ Head(all[first]) = Head(q)
         /\ SubSeq(q, 1, Len(all[first])) = all[first]
         /\ Pending(SubSeq(q, Len(all[first]) + 1, Len(q)), all, first + 1)
<1>1. PICK place \in [first..Len(all) -> Nat \ {0}] : Placed(q, all, first, place)
  BY DEF Pending
<1>2. /\ Len(q) \in Nat \ {0} /\ Len(all) \in Nat
      /\ Head(q) = q[1] /\ 1 \in 1..Len(q)
      /\ \A i \in 1..Len(q) : q[i] \in Frame
  BY EmptySeq, LenProperties, ElementOfSeq
<1>3. \A k \in first..Len(all) :
        /\ all[k] \in RequestMessages /\ Len(all[k]) \in Nat \ {0, 1}
        /\ place[k] \in Nat \ {0}
        /\ k # first => /\ first \in first..Len(all)
                       /\ place[first] + Len(all[first]) <= place[k]
  BY <1>1, LaterPlace
<1>4. first \in first..Len(all) /\ place[first] = 1
  <2>1. PICK k \in first..Len(all) : place[k] <= 1 /\ 1 < place[k] + Len(all[k])
    BY <1>1, <1>2 DEF Placed
  <2>2. place[k] = 1
    BY <1>3, <2>1
  <2>3. k = first
    BY <1>3, <2>2
  <2> QED
    BY <2>1, <2>2, <2>3
<1> DEFINE m == all[first]
           n == Len(m)
           rest == SubSeq(q, n + 1, Len(q))
<1>5. /\ m \in RequestMessages /\ n \in Nat \ {0, 1} /\ n <= Len(q)
      /\ \A j \in 1..n : q[j] = m[j]
  <2>1. Whole(q, m, 1) /\ m \in RequestMessages /\ n \in Nat \ {0, 1}
    BY <1>1, <1>3, <1>4 DEF Placed
  <2>2. \A j \in 1..n : 1 + j - 1 = j
    BY <2>1
  <2> QED
    BY <1>2, <2>1, <2>2 DEF Whole
<1>6. m \in Seq(Frame) /\ Head(m) = m[1]
  BY <1>5, RequestShape
<1> HIDE DEF m
<1>7. Head(m) = Head(q)
  <2>1. 1 \in 1..n
    BY <1>5
  <2> QED
    BY <1>2, <1>5, <1>6, <2>1
<1>8. SubSeq(q, 1, n) = m
  <2>1. /\ SubSeq(q, 1, n) \in Seq(Frame) /\ Len(SubSeq(q, 1, n)) = n
        /\ \A i \in 1..n : SubSeq(q, 1, n)[i] = q[i]
    <3>1. \A i \in 1..n : q[i] \in Frame
      BY <1>2, <1>5
    <3>2. /\ SubSeq(q, 1, n) \in Seq(Frame)
          /\ Len(SubSeq(q, 1, n)) = IF 1 <= n THEN n - 1 + 1 ELSE 0
          /\ \A i \in 1..(n - 1 + 1) : SubSeq(q, 1, n)[i] = q[1 + i - 1]
      BY <1>5, <3>1, SubSeqProperties
    <3>3. n - 1 + 1 = n /\ 1 <= n /\ \A i \in 1..n : 1 + i - 1 = i
      BY <1>5
    <3> QED
      BY <3>2, <3>3
  <2> QED
    BY <1>5, <1>6, <2>1, SeqEqual
<1>9. /\ Len(rest) = Len(q) - n
      /\ \A i \in 1..(Len(q) - n) : rest[i] = q[n + i]
  <2>1. \A i \in (n + 1)..Len(q) : q[i] \in Frame
    BY <1>2, <1>5
  <2>2. /\ Len(rest) = IF n + 1 <= Len(q) THEN Len(q) - (n + 1) + 1 ELSE 0
        /\ \A i \in 1..(Len(q) - (n + 1) + 1) : rest[i] = q[n + 1 + i - 1]
    BY <1>2, <1>5, <2>1, SubSeqProperties
  <2>3. /\ Len(q) - (n + 1) + 1 = Len(q) - n
        /\ \A i \in 1..(Len(q) - n) : n + 1 + i - 1 = n + i
    BY <1>2, <1>5
  <2>4. n + 1 <= Len(q) \/ Len(q) - n = 0
    BY <1>2, <1>5
  <2> QED
    BY <2>2, <2>3, <2>4
<1>10. Pending(rest, all, first + 1)
  <2>1. ASSUME NEW k \in first..Len(all)
        PROVE  IF k < first + 1 THEN place[k] + Len(all[k]) <= n + 1
                                ELSE n < place[k]
    <3>1. CASE k = first
      BY <1>4, <1>5, <3>1 DEF m
    <3>2. CASE k # first
      <4>1. 1 + n <= place[k]
        BY <1>3, <1>4, <3>2 DEF m
      <4>2. ~(k < first + 1)
        BY <1>2, <3>2
      <4> QED
        BY <1>3, <1>5, <4>1, <4>2
    <3> QED
      BY <3>1, <3>2
  <2> HIDE DEF rest, n
  <2>2. n \in Nat
    BY <1>5
  <2> QED
    BY <1>1, <1>9, <2>1, <2>2, PendingShifted
<1>11. first <= Len(all) /\ n <= Len(q)
  BY <1>2, <1>4, <1>5
<1> QED
  BY <1>7, <1>8, <1>10, <1>11 DEF m

(* A frame that is no command belongs to no request that is pending at its *)
(* front: when it is read, the requests are pending as before.             *)
LEMMA PendingIgnored ==
  ASSUME NEW q \in Seq(Frame), NEW all \in Seq(RequestMessages),
         NEW first \in 1..(Len(all) + 1), Pending(q, all, first),
         q # <<>>, Head(q) \notin Commands
  PROVE  Pending(Tail(q), all, first)
<1>1. PICK place \in [first..Len(all) -> Nat \ {0}] : Placed(q, all, first, place)
  BY DEF Pending
<1>2. /\ Len(q) \in Nat \ {0} /\ Len(all) \in Nat /\ Head(q) = q[1]
      /\ Len(Tail(q)) = Len(q) - 1
      /\ \A i \in 1..(Len(q) - 1) : Tail(q)[i] = q[i + 1]
  BY EmptySeq, LenProperties, HeadTailProperties
<1>3. ASSUME NEW k \in first..Len(all)
      PROVE  IF k < first THEN place[k] + Len(all[k]) <= 2 ELSE 1 < place[k]
  <2>1. /\ all[k] \in RequestMessages /\ Len(all[k]) \in Nat \ {0, 1}
        /\ place[k] \in Nat \ {0}
    BY <1>1, LaterPlace
  <2>2. Whole(q, all[k], place[k])
    BY <1>1 DEF Placed
  <2>3. q[place[k]] \in Commands
    <3>1. 1 \in 1..Len(all[k]) /\ place[k] + 1 - 1 = place[k]
      BY <2>1
    <3>2. q[place[k]] = all[k][1]
      BY <2>2, <3>1 DEF Whole
    <3> QED
      BY <2>1, <3>2, RequestShape
  <2>4. place[k] # 1
    BY <1>2, <2>3
  <2> QED
    BY <1>2, <2>1, <2>4
<1>4. \A i \in 1..(Len(q) - 1) : i + 1 = 1 + i
  BY <1>2
<1> QED
  BY <1>1, <1>2, <1>3, <1>4, 1 + 1 = 2, PendingShifted

(* Nothing is pending when nothing was asked.                              *)
LEMMA NothingPending == Pending(<<>>, <<>>, Len(<<>>) + 1)
<1> DEFINE none == [k \in 1..Len(<<>>) |-> 1]
<1>1. none \in [1..Len(<<>>) -> Nat \ {0}] /\ 1..Len(<<>>) = {} /\ Len(<<>>) + 1 = 1
  OBVIOUS
<1> HIDE DEF none
<1>2. Placed(<<>>, <<>>, 1, none)
  BY <1>1 DEF Placed
<1>3. Pending(<<>>, <<>>, 1)
  BY <1>1, <1>2 DEF Pending
<1> QED
  BY <1>1, <1>3, Zenon

(***************************************************************************)
(* The requests all from the first one on are pending at the front of q,   *)
(* and when clean, that is all of q.                                       *)
(***************************************************************************)
Waiting(q, all, first, clean) ==
  \E front, tail \in Seq(Frame) :
    q = front \o tail /\ (clean => tail = <<>>) /\ Pending(front, all, first)

(* Two queues put together. *)
LEMMA FrontAndTail ==
  ASSUME NEW front \in Seq(Frame), NEW tail \in Seq(Frame)
  PROVE  /\ front \o tail \in Seq(Frame)
         /\ Len(front) \in Nat /\ Len(tail) \in Nat
         /\ Len(front \o tail) = Len(front) + Len(tail)
         /\ \A i \in 1..Len(front) : (front \o tail)[i] = front[i]
         /\ \A i \in 1..Len(tail) : (front \o tail)[Len(front) + i] = tail[i]
<1>1. /\ front \o tail \in Seq(Frame)
      /\ Len(front) \in Nat /\ Len(tail) \in Nat
      /\ Len(front \o tail) = Len(front) + Len(tail)
      /\ \A i \in 1..(Len(front) + Len(tail)) :
           (front \o tail)[i] = IF i <= Len(front) THEN front[i]
                                                   ELSE tail[i - Len(front)]
  BY ConcatProperties, LenProperties
<1>2. ASSUME NEW i \in 1..Len(front) PROVE (front \o tail)[i] = front[i]
  BY <1>1
<1>3. ASSUME NEW i \in 1..Len(tail) PROVE (front \o tail)[Len(front) + i] = tail[i]
  <2> DEFINE j == Len(front) + i
  <2>1. j \in 1..(Len(front) + Len(tail)) /\ ~(j <= Len(front)) /\ j - Len(front) = i
    BY <1>1
  <2> HIDE DEF j
  <2>2. (front \o tail)[j] = tail[i]
    BY <1>1, <2>1
  <2> QED
    BY <2>2 DEF j
<1> QED
  BY <1>1, <1>2, <1>3

(* What is behind the first n frames of the front. *)
LEMMA BehindFront ==
  ASSUME NEW front \in Seq(Frame), NEW tail \in Seq(Frame),
         NEW n \in 0..Len(front)
  PROVE  LET q == front \o tail
         IN  /\ SubSeq(front, n + 1, Len(front)) \in Seq(Frame)
             /\ SubSeq(q, 1, n) = SubSeq(front, 1, n)
             /\ SubSeq(q, n + 1, Len(q)) = SubSeq(front, n + 1, Len(front)) \o tail
<1> DEFINE q == front \o tail
           left == SubSeq(front, n + 1, Len(front))
           right == SubSeq(q, n + 1, Len(q))
<1>1. /\ q \in Seq(Frame) /\ Len(front) \in Nat /\ Len(tail) \in Nat
      /\ Len(q) = Len(front) + Len(tail)
      /\ \A i \in 1..Len(front) : q[i] = front[i]
      /\ \A i \in 1..Len(tail) : q[Len(front) + i] = tail[i]
  BY FrontAndTail
<1>2. /\ \A i \in 1..Len(front) : front[i] \in Frame
      /\ \A i \in 1..Len(q) : q[i] \in Frame
  BY <1>1, ElementOfSeq
<1> HIDE DEF q
<1>3. SubSeq(q, 1, n) = SubSeq(front, 1, n)
  <2>1. /\ \A i \in 1..n : q[i] \in Frame
        /\ \A i \in 1..n : front[i] \in Frame
    BY <1>1, <1>2
  <2>2. /\ SubSeq(q, 1, n) \in Seq(Frame)
        /\ Len(SubSeq(q, 1, n)) = IF 1 <= n THEN n - 1 + 1 ELSE 0
        /\ \A i \in 1..(n - 1 + 1) : SubSeq(q, 1, n)[i] = q[1 + i - 1]
    BY <2>1, SubSeqProperties
  <2>3. /\ SubSeq(front, 1, n) \in Seq(Frame)
        /\ Len(SubSeq(front, 1, n)) = IF 1 <= n THEN n - 1 + 1 ELSE 0
        /\ \A i \in 1..(n - 1 + 1) : SubSeq(front, 1, n)[i] = front[1 + i - 1]
    BY <2>1, SubSeqProperties
  <2>4. n - 1 + 1 = n /\ \A i \in 1..n : 1 + i - 1 = i /\ i \in 1..Len(front)
    BY <1>1
  <2>5. \A i \in 1..n : SubSeq(q, 1, n)[i] = SubSeq(front, 1, n)[i]
    BY <1>1, <2>2, <2>3, <2>4
  <2>6. Len(SubSeq(q, 1, n)) = n /\ Len(SubSeq(front, 1, n)) = n
    BY <2>2, <2>3, <2>4
  <2> QED
    BY <2>2, <2>3, <2>5, <2>6, SeqEqual
<1>4. /\ left \in Seq(Frame) /\ Len(left) = Len(front) - n
      /\ \A i \in 1..(Len(front) - n) : left[i] = front[n + i]
  <2>1. \A i \in (n + 1)..Len(front) : front[i] \in Frame
    BY <1>1, <1>2
  <2>2. /\ left \in Seq(Frame)
        /\ Len(left) = IF n + 1 <= Len(front) THEN Len(front) - (n + 1) + 1 ELSE 0
        /\ \A i \in 1..(Len(front) - (n + 1) + 1) : left[i] = front[n + 1 + i - 1]
    BY <1>1, <2>1, SubSeqProperties
  <2>3. /\ Len(front) - (n + 1) + 1 = Len(front) - n
        /\ \A i \in 1..(Len(front) - n) : n + 1 + i - 1 = n + i
        /\ n + 1 <= Len(front) \/ Len(front) - n = 0
    BY <1>1
  <2> QED
    BY <2>2, <2>3
<1>5. /\ right \in Seq(Frame) /\ Len(right) = Len(q) - n
      /\ \A i \in 1..(Len(q) - n) : right[i] = q[n + i]
  <2>1. \A i \in (n + 1)..Len(q) : q[i] \in Frame
    BY <1>1, <1>2
  <2>2. /\ right \in Seq(Frame)
        /\ Len(right) = IF n + 1 <= Len(q) THEN Len(q) - (n + 1) + 1 ELSE 0
        /\ \A i \in 1..(Len(q) - (n + 1) + 1) : right[i] = q[n + 1 + i - 1]
    BY <1>1, <2>1, SubSeqProperties
  <2>3. /\ Len(q) - (n + 1) + 1 = Len(q) - n
        /\ \A i \in 1..(Len(q) - n) : n + 1 + i - 1 = n + i
        /\ n + 1 <= Len(q) \/ Len(q) - n = 0
    BY <1>1
  <2> QED
    BY <2>2, <2>3
<1> HIDE DEF left, right
<1>6. /\ left \o tail \in Seq(Frame) /\ Len(left \o tail) = Len(left) + Len(tail)
      /\ \A i \in 1..Len(left) : (left \o tail)[i] = left[i]
      /\ \A i \in 1..Len(tail) : (left \o tail)[Len(left) + i] = tail[i]
  BY <1>4, FrontAndTail
<1>7. right = left \o tail
  <2>1. Len(right) = Len(left \o tail) /\ Len(left) \in Nat
    BY <1>1, <1>4, <1>5, <1>6
  <2>2. ASSUME NEW i \in 1..Len(right) PROVE right[i] = (left \o tail)[i]
    <3>1. CASE i <= Len(left)
      <4>1. /\ i \in 1..(Len(front) - n) /\ i \in 1..Len(left) /\ i \in 1..(Len(q) - n)
            /\ n + i \in 1..Len(front)
        BY <1>1, <1>4, <2>1, <3>1
      <4> QED
        BY <1>1, <1>4, <1>5, <1>6, <4>1
    <3>2. CASE ~(i <= Len(left))
      <4> DEFINE j == i - Len(left)
      <4>1. /\ j \in 1..Len(tail) /\ i \in 1..(Len(q) - n)
            /\ Len(left) + j = i /\ Len(front) + j = n + i
        BY <1>1, <1>4, <1>5, <2>1, <3>2
      <4> HIDE DEF j
      <4>2. right[i] = q[n + i] /\ q[n + i] = tail[j] /\ (left \o tail)[i] = tail[j]
        BY <1>1, <1>5, <1>6, <4>1
      <4> QED
        BY <4>2
    <3> QED
      BY <3>1, <3>2
  <2> QED
    BY <1>5, <1>6, <2>1, <2>2, SeqEqual
<1> QED
  BY <1>3, <1>4, <1>7 DEF q, left, right

(* Something more is sent, after which the queue is not clean. *)
LEMMA WaitingStill ==
  ASSUME NEW q, NEW all, NEW first, NEW clean, Waiting(q, all, first, clean),
         NEW m \in Seq(Frame)
  PROVE  Waiting(q \o m, all, first, FALSE)
<1>1. PICK front \in Seq(Frame), tail \in Seq(Frame) :
        q = front \o tail /\ Pending(front, all, first)
  BY DEF Waiting
<1>2. tail \o m \in Seq(Frame) /\ q \o m = front \o (tail \o m)
  BY <1>1, ConcatAssociative, ConcatProperties
<1> QED
  BY <1>1, <1>2, Zenon DEF Waiting

(* A clean queue is pending as a whole. *)
LEMMA WaitingClean ==
  ASSUME NEW q \in Seq(Frame), NEW all, NEW first
  PROVE  Waiting(q, all, first, TRUE) <=> Pending(q, all, first)
<1>1. <<>> \in Seq(Frame) /\ \A front \in Seq(Frame) : front \o <<>> = front
  BY ConcatEmptySeq
<1>2. ASSUME Waiting(q, all, first, TRUE) PROVE Pending(q, all, first)
  <2>1. PICK front \in Seq(Frame), tail \in Seq(Frame) :
          q = front \o tail /\ tail = <<>> /\ Pending(front, all, first)
    BY <1>2, Zenon DEF Waiting
  <2>2. q = front
    BY <1>1, <2>1
  <2> QED
    BY <2>1, <2>2, Zenon
<1>3. ASSUME Pending(q, all, first) PROVE Waiting(q, all, first, TRUE)
  <2>1. q = q \o <<>>
    BY <1>1
  <2> QED
    BY <1>1, <1>3, <2>1, Zenon DEF Waiting
<1> QED
  BY <1>2, <1>3

(* Another message without a command leaves the queue as clean as it was. *)
LEMMA WaitingOther ==
  ASSUME NEW q \in Seq(Frame), NEW all \in Seq(RequestMessages),
         NEW first \in 1..(Len(all) + 1), NEW clean \in BOOLEAN,
         Waiting(q, all, first, clean),
         NEW m \in OtherMessages, ~HoldsCommand(m)
  PROVE  Waiting(q \o m, all, first, clean)
<1>1. m \in Seq(Frame)
  BY OtherShape
<1>2. q \o m \in Seq(Frame)
  BY <1>1, ConcatProperties
<1>3. CASE clean = TRUE
  <2>1. Pending(q, all, first)
    BY <1>3, WaitingClean, Zenon
  <2>2. Pending(q \o m, all, first)
    BY <2>1, PendingOther
  <2> QED
    BY <1>2, <1>3, <2>2, WaitingClean, Zenon
<1>4. CASE clean = FALSE
  BY <1>1, <1>4, WaitingStill, Zenon
<1> QED
  BY <1>3, <1>4

(* What the first frame of the queue is when it is a command: that of the  *)
(* first request, whose frames are read, or none of theirs.                *)
LEMMA WaitingHandled ==
  ASSUME NEW q \in Seq(Frame), NEW all \in Seq(RequestMessages),
         NEW first \in 1..(Len(all) + 1), NEW clean \in BOOLEAN,
         Waiting(q, all, first, clean),
         q # <<>>, Head(q) \in Commands
  PROVE  IF first <= Len(all)
         THEN /\ Len(all[first]) <= Len(q)
              /\ Head(all[first]) = Head(q)
              /\ SubSeq(q, 1, Len(all[first])) = all[first]
              /\ Waiting(SubSeq(q, Len(all[first]) + 1, Len(q)), all, first + 1, clean)
         ELSE ~clean
<1>1. PICK front \in Seq(Frame), tail \in Seq(Frame) :
        q = front \o tail /\ (clean => tail = <<>>) /\ Pending(front, all, first)
  BY DEF Waiting
<1>2. /\ Len(q) = Len(front) + Len(tail) /\ Len(front) \in Nat /\ Len(tail) \in Nat
      /\ \A i \in 1..Len(front) : q[i] = front[i]
  BY <1>1, FrontAndTail
<1>3. CASE front = <<>>
  <2>1. ~clean
    BY <1>1, <1>3
  <2>2. ASSUME first <= Len(all) PROVE FALSE
    <3>1. PICK place \in [first..Len(all) -> Nat \ {0}] : Placed(front, all, first, place)
      BY <1>1 DEF Pending
    <3>2. first \in first..Len(all)
      BY <2>2, LenProperties
    <3>3. Whole(front, all[first], place[first])
      BY <3>1, <3>2 DEF Placed
    <3>4. Len(all[first]) \in Nat \ {0, 1} /\ place[first] \in Nat \ {0}
      BY <3>1, <3>2, LaterPlace
    <3> QED
      BY <1>3, <3>3, <3>4 DEF Whole
  <2> QED
    BY <2>1, <2>2
<1>4. CASE front # <<>>
  <2>1. Len(front) \in Nat \ {0} /\ Head(front) = front[1] /\ Head(q) = q[1]
    BY <1>2, <1>4, EmptySeq
  <2>2. Head(front) = Head(q)
    BY <1>2, <2>1
  <2> DEFINE n == Len(all[first])
  <2>3. /\ first <= Len(all) /\ n <= Len(front) /\ Head(all[first]) = Head(front)
        /\ SubSeq(front, 1, n) = all[first]
        /\ Pending(SubSeq(front, n + 1, Len(front)), all, first + 1)
    BY <1>1, <1>4, <2>2, PendingHandled
  <2>4. all[first] \in RequestMessages
    <3>1. first \in 1..Len(all)
      BY <2>3, LenProperties
    <3> QED
      BY <3>1, ElementOfSeq
  <2>5. n \in Nat
    BY <2>4, RequestShape
  <2> HIDE DEF n
  <2>6. n \in 0..Len(front)
    BY <1>2, <2>3, <2>5
  <2>7. /\ SubSeq(front, n + 1, Len(front)) \in Seq(Frame)
        /\ SubSeq(q, 1, n) = SubSeq(front, 1, n)
        /\ SubSeq(q, n + 1, Len(q)) = SubSeq(front, n + 1, Len(front)) \o tail
    BY <1>1, <2>6, BehindFront
  <2>8. Waiting(SubSeq(q, n + 1, Len(q)), all, first + 1, clean)
    BY <1>1, <2>3, <2>7, Zenon DEF Waiting
  <2>9. n <= Len(q)
    BY <1>2, <2>3, <2>5
  <2> QED
    BY <2>2, <2>3, <2>7, <2>8, <2>9 DEF n
<1> QED
  BY <1>3, <1>4

(* A frame that is no command is none of a request that is pending. *)
LEMMA WaitingIgnored ==
  ASSUME NEW q \in Seq(Frame), NEW all \in Seq(RequestMessages),
         NEW first \in 1..(Len(all) + 1), NEW clean,
         Waiting(q, all, first, clean),
         q # <<>>, Head(q) \notin Commands
  PROVE  Waiting(Tail(q), all, first, clean)
<1>1. PICK front \in Seq(Frame), tail \in Seq(Frame) :
        q = front \o tail /\ (clean => tail = <<>>) /\ Pending(front, all, first)
  BY DEF Waiting
<1>2. Len(front) \in Nat /\ (\A i \in 1..Len(front) : q[i] = front[i])
  BY <1>1, FrontAndTail
<1>3. CASE front = <<>>
  <2>1. q = tail
    BY <1>1, <1>3, ConcatEmptySeq
  <2>2. Tail(q) \in Seq(Frame) /\ Tail(q) = front \o Tail(q)
    BY <1>3, HeadTailProperties, ConcatEmptySeq
  <2> QED
    BY <1>1, <2>1, <2>2, Zenon DEF Waiting
<1>4. CASE front # <<>>
  <2>1. Len(front) \in Nat \ {0} /\ Head(front) = front[1] /\ Head(q) = q[1]
    BY <1>2, <1>4, EmptySeq
  <2>2. Head(front) = Head(q)
    BY <1>2, <2>1
  <2>3. Pending(Tail(front), all, first)
    BY <1>1, <1>4, <2>2, PendingIgnored
  <2>4. Tail(front) \in Seq(Frame)
    BY <1>4, HeadTailProperties
  <2>5. Tail(q) = Tail(front) \o tail
    <3>1. 1 \in 0..Len(front)
      BY <2>1
    <3>2. SubSeq(q, 2, Len(q)) = SubSeq(front, 2, Len(front)) \o tail
      <4>1. SubSeq(q, 1 + 1, Len(q)) = SubSeq(front, 1 + 1, Len(front)) \o tail
        BY <1>1, <3>1, BehindFront
      <4>2. 1 + 1 = 2
        OBVIOUS
      <4> QED
        BY <4>1, <4>2, Zenon
    <3>3. Tail(q) = SubSeq(q, 2, Len(q)) /\ Tail(front) = SubSeq(front, 2, Len(front))
      <4>1. q \in Seq(Frame)
        BY <1>1, FrontAndTail
      <4> QED
        BY <1>4, <4>1, TailIsSubSeq
    <3> QED
      BY <3>2, <3>3, Zenon
  <2> QED
    BY <1>1, <2>3, <2>4, <2>5, Zenon DEF Waiting
<1> QED
  BY <1>3, <1>4

-----------------------------------------------------------------------------
(***************************************************************************)
(* The history of the requests that were handled, when one more is.        *)
(***************************************************************************)
IsStart(e) == e.frames[1] = "START SCENARIO"
IsStep(e) == e.frames[1] = "RUN STEP"
IsEnd(e) == e.frames[1] = "END SCENARIO"

(* A handled request is of one kind. *)
LEMMA OneKind ==
  ASSUME NEW e \in Entry
  PROVE  /\ IsStart(e) \/ IsStep(e) \/ IsEnd(e)
         /\ ~(IsStart(e) /\ IsStep(e)) /\ ~(IsStart(e) /\ IsEnd(e))
         /\ ~(IsStep(e) /\ IsEnd(e))
<1>1. e.frames \in RequestFrames
  BY DEF Entry
<1>2. e.frames[1] \in Commands
  BY <1>1, Zenon DEF RequestFrames
<1> QED
  BY <1>2 DEF IsStart, IsStep, IsEnd, Commands

(* The handled requests before it stay, and it is the last one. *)
LEMMA OneMore ==
  ASSUME NEW l \in Seq(Entry), NEW e \in Entry
  PROVE  LET l2 == Append(l, e)
             n == Len(l) + 1
         IN  /\ l2 \in Seq(Entry) /\ Len(l2) = n /\ Len(l) \in Nat
             /\ DOMAIN l = 1..Len(l) /\ DOMAIN l2 = 1..n
             /\ \A i \in 1..Len(l) :
                  /\ l2[i] = l[i] /\ l[i] \in Entry
                  /\ Starts(l2, i) <=> Starts(l, i)
                  /\ Steps(l2, i) <=> Steps(l, i)
                  /\ Ends(l2, i) <=> Ends(l, i)
             /\ l2[n] = e
             /\ Starts(l2, n) <=> IsStart(e)
             /\ Steps(l2, n) <=> IsStep(e)
             /\ Ends(l2, n) <=> IsEnd(e)
<1> DEFINE l2 == Append(l, e)
           n == Len(l) + 1
<1>1. /\ l2 \in Seq(Entry) /\ Len(l2) = n /\ l2[n] = e
      /\ \A i \in 1..Len(l) : l2[i] = l[i]
  BY AppendProperties
<1>2. /\ Len(l) \in Nat /\ DOMAIN l = 1..Len(l) /\ DOMAIN l2 = 1..n
      /\ \A i \in 1..Len(l) : l[i] \in Entry
  BY <1>1, LenProperties, ElementOfSeq
<1> HIDE DEF l2
<1>3. /\ Starts(l2, n) <=> IsStart(e)
      /\ Steps(l2, n) <=> IsStep(e)
      /\ Ends(l2, n) <=> IsEnd(e)
  BY <1>1, Zenon DEF Starts, Steps, Ends, IsStart, IsStep, IsEnd
<1>4. ASSUME NEW i \in 1..Len(l)
      PROVE  /\ Starts(l2, i) <=> Starts(l, i)
             /\ Steps(l2, i) <=> Steps(l, i)
             /\ Ends(l2, i) <=> Ends(l, i)
  BY <1>1, Zenon DEF Starts, Steps, Ends
<1> QED
  BY <1>1, <1>2, <1>3, <1>4 DEF l2

(* What becomes of a scenario that was started before, and of one that is  *)
(* started now.                                                            *)
LEMMA FateGrows ==
  ASSUME NEW l \in Seq(Entry), NEW e \in Entry
  PROVE  LET l2 == Append(l, e)
             n == Len(l) + 1
         IN  /\ \A i \in 1..Len(l) :
                  /\ Open(l2, i) <=> Open(l, i) /\ IsStep(e)
                  /\ Ended(l2, i) <=> Ended(l, i) \/ (IsEnd(e) /\ Open(l, i))
                  /\ Overwritten(l2, i) <=>
                       Overwritten(l, i) \/ (IsStart(e) /\ Open(l, i))
             /\ Open(l2, n) /\ ~Ended(l2, n) /\ ~Overwritten(l2, n)
<1> DEFINE l2 == Append(l, e)
           n == Len(l) + 1
<1>1. /\ Len(l2) = n /\ Len(l) \in Nat
      /\ \A i \in 1..Len(l) :
           /\ Starts(l2, i) <=> Starts(l, i)
           /\ Steps(l2, i) <=> Steps(l, i)
           /\ Ends(l2, i) <=> Ends(l, i)
      /\ Starts(l2, n) <=> IsStart(e)
      /\ Steps(l2, n) <=> IsStep(e)
      /\ Ends(l2, n) <=> IsEnd(e)
  BY OneMore
<1> HIDE DEF l2
<1>2. ASSUME NEW i \in 1..Len(l), NEW j \in 1..n
      PROVE  StepsBetween(l2, i, j) <=> StepsBetween(l, i, j)
  <2>1. \A k \in (i + 1)..(j - 1) : k \in 1..Len(l)
    BY <1>1
  <2> QED
    BY <1>1, <2>1 DEF StepsBetween
<1>3. ASSUME NEW i \in 1..Len(l)
      PROVE  Open(l2, i) <=> Open(l, i) /\ IsStep(e)
  <2>1. StepsBetween(l2, i, n) <=> Open(l, i)
    <3>1. n \in 1..n
      BY <1>1
    <3> QED
      BY <1>2, <3>1 DEF Open
  <2>2. StepsBetween(l2, i, n + 1) <=> StepsBetween(l2, i, n) /\ Steps(l2, n)
    <3>1. \A k : k \in (i + 1)..(n + 1 - 1) <=> k \in (i + 1)..(n - 1) \/ k = n
      BY <1>1
    <3> QED
      BY <3>1 DEF StepsBetween
  <2>3. Open(l2, i) <=> StepsBetween(l2, i, n + 1)
    BY <1>1 DEF Open
  <2> QED
    BY <1>1, <2>1, <2>2, <2>3
<1>4. ASSUME NEW i \in 1..Len(l), NEW j
      PROVE  j \in (i + 1)..n <=> j \in (i + 1)..Len(l) \/ j = n
  BY <1>1
<1>5. ASSUME NEW i \in 1..Len(l)
      PROVE  StepsBetween(l2, i, n) <=> Open(l, i)
  <2>1. n \in 1..n
    BY <1>1
  <2> QED
    BY <1>2, <2>1 DEF Open
<1>6. ASSUME NEW i \in 1..Len(l), NEW j \in (i + 1)..Len(l)
      PROVE  /\ StepsBetween(l2, i, j) <=> StepsBetween(l, i, j)
             /\ Starts(l2, j) <=> Starts(l, j)
             /\ Ends(l2, j) <=> Ends(l, j)
  <2>1. j \in 1..n /\ j \in 1..Len(l)
    BY <1>1
  <2> QED
    BY <1>1, <1>2, <2>1
<1>7. ASSUME NEW i \in 1..Len(l)
      PROVE  /\ Ended(l2, i) <=> Ended(l, i) \/ (IsEnd(e) /\ Open(l, i))
             /\ Overwritten(l2, i) <=>
                  Overwritten(l, i) \/ (IsStart(e) /\ Open(l, i))
  <2> HIDE DEF n
  <2>1. Ended(l2, i) <=> \E j \in (i + 1)..n : Ends(l2, j) /\ StepsBetween(l2, i, j)
    BY <1>1 DEF Ended
  <2>2. Overwritten(l2, i) <=>
          \E j \in (i + 1)..n : Starts(l2, j) /\ StepsBetween(l2, i, j)
    BY <1>1 DEF Overwritten
  <2>3. Ended(l, i) <=> \E j \in (i + 1)..Len(l) : Ends(l2, j) /\ StepsBetween(l2, i, j)
    BY <1>6 DEF Ended
  <2>4. Overwritten(l, i) <=>
          \E j \in (i + 1)..Len(l) : Starts(l2, j) /\ StepsBetween(l2, i, j)
    BY <1>6 DEF Overwritten
  <2>5. Ended(l2, i) <=> Ended(l, i) \/ (Ends(l2, n) /\ StepsBetween(l2, i, n))
    BY <1>4, <2>1, <2>3, Zenon
  <2>6. Overwritten(l2, i) <=>
          Overwritten(l, i) \/ (Starts(l2, n) /\ StepsBetween(l2, i, n))
    BY <1>4, <2>2, <2>4, Zenon
  <2> QED
    BY <1>1, <1>5, <2>5, <2>6, Zenon
<1>8. Open(l2, n) /\ ~Ended(l2, n) /\ ~Overwritten(l2, n)
  <2>1. (n + 1)..Len(l2) = {} /\ (n + 1)..(Len(l2) + 1 - 1) = {}
    BY <1>1
  <2> QED
    BY <2>1 DEF Open, Ended, Overwritten, StepsBetween
<1> QED
  BY <1>3, <1>7, <1>8 DEF l2

(* A scenario that was started is open, was ended, or was overwritten, and *)
(* only one of these.                                                      *)
Fates(l) ==
  \A i \in DOMAIN l : Starts(l, i) =>
    /\ Open(l, i) \/ Ended(l, i) \/ Overwritten(l, i)
    /\ ~(Open(l, i) /\ Ended(l, i)) /\ ~(Open(l, i) /\ Overwritten(l, i))
    /\ ~(Ended(l, i) /\ Overwritten(l, i))

(* Each was started on a state object of its own, of those constructed. *)
Fresh(l, constructed) ==
  /\ \A i \in DOMAIN l : Starts(l, i) => l[i].state \in 1..constructed
  /\ \A i, j \in DOMAIN l :
       Starts(l, i) /\ Starts(l, j) /\ l[i].state = l[j].state => i = j

(* The one that is open was started on this state object. *)
OpenOn(l, state) ==
  \A i \in DOMAIN l : Starts(l, i) /\ Open(l, i) => l[i].state = state

(* One more request makes none of them two.                                *)
LEMMA FatesGrow ==
  ASSUME NEW l \in Seq(Entry), NEW e \in Entry, Fates(l)
  PROVE  Fates(Append(l, e))
<1> DEFINE l2 == Append(l, e)
           n == Len(l) + 1
<1>1. /\ Len(l) \in Nat /\ DOMAIN l = 1..Len(l) /\ DOMAIN l2 = 1..n
      /\ \A i \in 1..Len(l) : Starts(l2, i) <=> Starts(l, i)
  BY OneMore
<1>2. /\ \A i \in 1..Len(l) :
           /\ Open(l2, i) <=> Open(l, i) /\ IsStep(e)
           /\ Ended(l2, i) <=> Ended(l, i) \/ (IsEnd(e) /\ Open(l, i))
           /\ Overwritten(l2, i) <=>
                Overwritten(l, i) \/ (IsStart(e) /\ Open(l, i))
      /\ Open(l2, n) /\ ~Ended(l2, n) /\ ~Overwritten(l2, n)
  BY FateGrows
<1>3. /\ IsStart(e) \/ IsStep(e) \/ IsEnd(e)
      /\ ~(IsStart(e) /\ IsStep(e)) /\ ~(IsStart(e) /\ IsEnd(e))
      /\ ~(IsStep(e) /\ IsEnd(e))
  BY OneKind
<1>4. \A i \in 1..n : i \in 1..Len(l) \/ i = n
  BY <1>1
<1> HIDE DEF l2, n
<1>5. Fates(l2)
  BY <1>1, <1>2, <1>3, <1>4 DEF Fates
<1> QED
  BY <1>5 DEF l2

(* A scenario is being run when it is started, and as long as its steps    *)
(* are.                                                                    *)
LEMMA InScenarioGrows ==
  ASSUME NEW l \in Seq(Entry), NEW e \in Entry
  PROVE  /\ IsStart(e) => InScenario(Append(l, e))
         /\ IsStep(e) => (InScenario(Append(l, e)) <=> InScenario(l))
         /\ IsEnd(e) => ~InScenario(Append(l, e))
<1> DEFINE l2 == Append(l, e)
           n == Len(l) + 1
<1>1. /\ Len(l) \in Nat /\ DOMAIN l = 1..Len(l) /\ DOMAIN l2 = 1..n
      /\ \A i \in 1..Len(l) : Starts(l2, i) <=> Starts(l, i)
      /\ Starts(l2, n) <=> IsStart(e)
  BY OneMore
<1>2. /\ \A i \in 1..Len(l) : Open(l2, i) <=> Open(l, i) /\ IsStep(e)
      /\ Open(l2, n)
  BY FateGrows
<1>3. /\ IsStart(e) \/ IsStep(e) \/ IsEnd(e)
      /\ ~(IsStart(e) /\ IsStep(e)) /\ ~(IsStart(e) /\ IsEnd(e))
      /\ ~(IsStep(e) /\ IsEnd(e))
  BY OneKind
<1>4. /\ \A i \in 1..n : i \in 1..Len(l) \/ i = n
      /\ \A i \in 1..Len(l) : i \in 1..n
      /\ n \in 1..n
  BY <1>1
<1> HIDE DEF l2, n
<1>5. /\ IsStart(e) => InScenario(l2)
      /\ IsStep(e) => (InScenario(l2) <=> InScenario(l))
      /\ IsEnd(e) => ~InScenario(l2)
  BY <1>1, <1>2, <1>3, <1>4 DEF InScenario
<1> QED
  BY <1>5 DEF l2

(* A scenario that is started on the next state object keeps them apart;   *)
(* the other requests start none.                                          *)
LEMMA FreshGrows ==
  ASSUME NEW l \in Seq(Entry), NEW e \in Entry, NEW built0 \in Nat,
         Fresh(l, built0)
  PROVE  /\ IsStart(e) /\ e.state = built0 + 1 => Fresh(Append(l, e), built0 + 1)
         /\ ~IsStart(e) => Fresh(Append(l, e), built0)
<1> DEFINE l2 == Append(l, e)
           n == Len(l) + 1
<1>1. /\ Len(l) \in Nat /\ DOMAIN l = 1..Len(l) /\ DOMAIN l2 = 1..n
      /\ \A i \in 1..Len(l) :
           l2[i] = l[i] /\ l[i] \in Entry /\ (Starts(l2, i) <=> Starts(l, i))
      /\ l2[n] = e
      /\ Starts(l2, n) <=> IsStart(e)
  BY OneMore
<1>2. /\ \A i \in 1..n : i \in 1..Len(l) \/ i = n
      /\ \A i \in 1..Len(l) : i \in 1..n
  BY <1>1
<1>3. \A i \in 1..Len(l) : Starts(l, i) =>
        l[i].state \in 1..built0 /\ l[i].state \in 1..(built0 + 1)
                                 /\ l[i].state # built0 + 1
  BY <1>1 DEF Fresh
<1> HIDE DEF l2, n
<1>4. ASSUME IsStart(e), e.state = built0 + 1
      PROVE  Fresh(l2, built0 + 1)
  <2>1. e.state \in 1..(built0 + 1)
    BY <1>4
  <2>2. ASSUME NEW i \in 1..n, Starts(l2, i)
        PROVE  l2[i].state \in 1..(built0 + 1)
    BY <1>1, <1>2, <1>3, <2>1, <2>2
  <2>3. ASSUME NEW i \in 1..n, NEW j \in 1..n, Starts(l2, i), Starts(l2, j),
               l2[i].state = l2[j].state
        PROVE  i = j
    BY <1>1, <1>2, <1>3, <1>4, <2>3 DEF Fresh
  <2> QED
    BY <1>1, <2>2, <2>3 DEF Fresh
<1>5. ASSUME ~IsStart(e)
      PROVE  Fresh(l2, built0)
  BY <1>1, <1>2, <1>3, <1>5 DEF Fresh
<1> QED
  BY <1>4, <1>5 DEF l2

(* The open scenario stays on its state object.                            *)
LEMMA OpenOnGrows ==
  ASSUME NEW l \in Seq(Entry), NEW e \in Entry, NEW state
  PROVE  /\ IsStart(e) => OpenOn(Append(l, e), e.state)
         /\ IsStep(e) /\ OpenOn(l, state) => OpenOn(Append(l, e), state)
         /\ OpenOn(l, state) /\ IsEnd(e) => OpenOn(Append(l, e), state)
<1> DEFINE l2 == Append(l, e)
           n == Len(l) + 1
<1>1. /\ Len(l) \in Nat /\ DOMAIN l = 1..Len(l) /\ DOMAIN l2 = 1..n
      /\ \A i \in 1..Len(l) : l2[i] = l[i] /\ (Starts(l2, i) <=> Starts(l, i))
      /\ l2[n] = e
      /\ Starts(l2, n) <=> IsStart(e)
  BY OneMore
<1>2. \A i \in 1..Len(l) : Open(l2, i) <=> Open(l, i) /\ IsStep(e)
  BY FateGrows
<1>3. \A i \in 1..n : i \in 1..Len(l) \/ i = n
  BY <1>1
<1>4. /\ ~(IsStart(e) /\ IsStep(e)) /\ ~(IsStart(e) /\ IsEnd(e))
      /\ ~(IsStep(e) /\ IsEnd(e))
  BY OneKind
<1> HIDE DEF l2, n
<1>5. IsStart(e) => OpenOn(l2, e.state)
  BY <1>1, <1>2, <1>3, <1>4, Zenon DEF OpenOn
<1>6. OpenOn(l, state) /\ (IsStep(e) \/ IsEnd(e)) => OpenOn(l2, state)
  BY <1>1, <1>2, <1>3, <1>4, Zenon DEF OpenOn
<1> QED
  BY <1>5, <1>6 DEF l2

(* What the states that are left and that are lost become.                 *)
LEMMA StatesLeftGrow ==
  ASSUME NEW l \in Seq(Entry), NEW e \in Entry
  PROVE  /\ IsStart(e) => StatesLeft(Append(l, e)) = StatesLeft(l) \cup {e.state}
         /\ IsStep(e) => StatesLeft(Append(l, e)) = StatesLeft(l)
         /\ IsEnd(e) => StatesLeft(Append(l, e)) =
              {l[i].state : i \in {k \in DOMAIN l : /\ Starts(l, k) /\ ~Ended(l, k)
                                                  /\ ~Open(l, k)}}
<1> DEFINE l2 == Append(l, e)
           n == Len(l) + 1
<1>1. /\ Len(l) \in Nat /\ DOMAIN l = 1..Len(l) /\ DOMAIN l2 = 1..n
      /\ \A i \in 1..Len(l) : l2[i] = l[i] /\ (Starts(l2, i) <=> Starts(l, i))
      /\ l2[n] = e
      /\ Starts(l2, n) <=> IsStart(e)
  BY OneMore
<1>2. /\ \A i \in 1..Len(l) : Ended(l2, i) <=> Ended(l, i) \/ (IsEnd(e) /\ Open(l, i))
      /\ ~Ended(l2, n)
  BY FateGrows
<1>3. /\ \A i \in 1..n : i \in 1..Len(l) \/ i = n
      /\ \A i \in 1..Len(l) : i \in 1..n
      /\ n \in 1..n
  BY <1>1
<1>4. /\ IsStart(e) \/ IsStep(e) \/ IsEnd(e)
      /\ ~(IsStart(e) /\ IsStep(e)) /\ ~(IsStart(e) /\ IsEnd(e))
      /\ ~(IsStep(e) /\ IsEnd(e))
  BY OneKind
<1> HIDE DEF l2, n
<1>5. ASSUME NEW x
      PROVE  x \in StatesLeft(l2) <=>
               \/ IsStart(e) /\ x = e.state
               \/ \E i \in 1..Len(l) : /\ Starts(l, i) /\ x = l[i].state
                                       /\ ~Ended(l, i) /\ ~(IsEnd(e) /\ Open(l, i))
  <2>1. x \in StatesLeft(l2) <=>
          \E i \in 1..n : Starts(l2, i) /\ ~Ended(l2, i) /\ x = l2[i].state
    BY <1>1 DEF StatesLeft
  <2> QED
    BY <1>1, <1>2, <1>3, <2>1, Zenon
<1>6. ASSUME NEW x
      PROVE  x \in StatesLeft(l) <=>
               \E i \in 1..Len(l) : Starts(l, i) /\ ~Ended(l, i) /\ x = l[i].state
  BY <1>1 DEF StatesLeft
<1>7. IsStart(e) => StatesLeft(l2) = StatesLeft(l) \cup {e.state}
  BY <1>4, <1>5, <1>6
<1>8. IsStep(e) => StatesLeft(l2) = StatesLeft(l)
  <2>1. IsStep(e) => \A x : x \in StatesLeft(l2) <=> x \in StatesLeft(l)
    BY <1>4, <1>5, <1>6
  <2> QED
    BY <2>1
<1>9. IsEnd(e) => StatesLeft(l2) =
        {l[i].state : i \in {k \in DOMAIN l : /\ Starts(l, k) /\ ~Ended(l, k)
                                            /\ ~Open(l, k)}}
  BY <1>1, <1>4, <1>5
<1> QED
  BY <1>7, <1>8, <1>9 DEF l2

(* The states of the scenarios that are neither open nor were ended.       *)
StatesBehind(l) ==
  {l[i].state : i \in {k \in DOMAIN l : Starts(l, k) /\ ~Ended(l, k) /\ ~Open(l, k)}}

(* They are those that are lost, and all that are left but the open one's. *)
LEMMA LostAndLeft ==
  ASSUME NEW l \in Seq(Entry), Fates(l)
  PROVE  /\ StatesLost(l) = StatesBehind(l)
         /\ ~InScenario(l) => StatesBehind(l) = StatesLeft(l)
         /\ \A n \in Nat : \A state :
              Fresh(l, n) /\ OpenOn(l, state) /\ InScenario(l) =>
                StatesBehind(l) = StatesLeft(l) \ {state}
<1>1. ASSUME NEW x
      PROVE  /\ x \in StatesLost(l) <=>
                  \E i \in DOMAIN l : /\ Starts(l, i) /\ Overwritten(l, i)
                                     /\ x = l[i].state
             /\ x \in StatesLeft(l) <=>
                  \E i \in DOMAIN l : /\ Starts(l, i) /\ ~Ended(l, i)
                                     /\ x = l[i].state
             /\ x \in StatesBehind(l) <=>
                  \E i \in DOMAIN l : /\ Starts(l, i) /\ ~Ended(l, i) /\ ~Open(l, i)
                                     /\ x = l[i].state
  BY DEF StatesLost, StatesLeft, StatesBehind
<1>2. StatesLost(l) = StatesBehind(l)
  <2>1. \A i \in DOMAIN l : Starts(l, i) =>
          (Overwritten(l, i) <=> ~Ended(l, i) /\ ~Open(l, i))
    BY DEF Fates
  <2>2. \A x : x \in StatesLost(l) <=> x \in StatesBehind(l)
    BY <1>1, <2>1
  <2> QED
    BY <2>2
<1>3. ASSUME ~InScenario(l)
      PROVE  StatesBehind(l) = StatesLeft(l)
  <2>1. \A i \in DOMAIN l : Starts(l, i) => ~Open(l, i)
    BY <1>3 DEF InScenario
  <2>2. \A x : x \in StatesLeft(l) <=> x \in StatesBehind(l)
    BY <1>1, <2>1
  <2> QED
    BY <2>2
<1>4. ASSUME NEW n \in Nat, NEW state, Fresh(l, n), OpenOn(l, state), InScenario(l)
      PROVE  StatesBehind(l) = StatesLeft(l) \ {state}
  <2>1. PICK o \in DOMAIN l : Starts(l, o) /\ Open(l, o)
    BY <1>4 DEF InScenario
  <2>2. l[o].state = state
    BY <1>4, <2>1 DEF OpenOn
  <2>3. \A i \in DOMAIN l : Starts(l, i) =>
          (Open(l, i) <=> l[i].state = state)
    BY <1>4, <2>1, <2>2 DEF Fresh, OpenOn
  <2>4. \A x : x \in StatesBehind(l) <=> x \in StatesLeft(l) /\ x # state
    BY <1>1, <2>3
  <2> QED
    BY <2>4
<1> QED
  BY <1>2, <1>3, <1>4

-----------------------------------------------------------------------------
(***************************************************************************)
(* The inductive invariant, part by part, for one step runner.             *)
(***************************************************************************)
OpenTypeOK ==
  /\ main \in [Runners -> MainStates]
  /\ actor \in [Runners -> ActorStates]
  /\ pipe \in [Runners -> Seq({"VERBOSE", "$TERM"} \cup AppCommands)]
  /\ cucumber \in [Runners -> CucumberType \cup {NULL}]
  /\ built \in [Runners -> Nat]
  /\ live \in [Runners -> SUBSET Nat]
  /\ log \in [Runners -> Seq(Entry)]
  /\ tidy \in [Runners -> BOOLEAN]
  /\ asked \in [Runners -> Seq(RequestMessages)]
  /\ requests \in [Runners -> Seq(Frame)]
  /\ peers \in SUBSET Runners

Serving(r) == actor[r] \in {"loop", "terminated"}

(* A step runner is sent nothing, and does nothing, before it connects. *)
Connection(r) ==
  /\ main[r] = "boot" => actor[r] = "none"
  /\ r \in peers <=> Serving(r)
  /\ actor[r] \in {"none", "init"} =>
       asked[r] = <<>> /\ log[r] = <<>> /\ requests[r] = <<>> /\ live[r] = {}

InOrder(r) ==
  /\ tidy[r] => Len(log[r]) <= Len(asked[r])
  /\ \A k \in DOMAIN log[r] \cap DOMAIN asked[r] : log[r][k].frames = asked[r][k]

(* What was asked and not handled is in the queue, and what is behind it   *)
(* was sent after a message that is no request has brought a command.      *)
Queued(r) ==
  r \in peers /\ Len(log[r]) <= Len(asked[r]) =>
    Waiting(requests[r], asked[r], Len(log[r]) + 1, tidy[r])

ScenarioOpen(r) == IF Serving(r) THEN cucumber[r] # NULL <=> InScenario(log[r])
                                 ELSE cucumber[r] = NULL

StatesApart(r) ==
  r \in Constructing =>
    /\ Fresh(log[r], built[r])
    /\ cucumber[r] # NULL => OpenOn(log[r], cucumber[r].state)

StatesKnown(r) ==
  r \in Constructing \cap Destructing =>
    /\ Serving(r) => live[r] = StatesLeft(log[r])
    /\ actor[r] = "gone" => live[r] = StatesLost(log[r])

RunnerInv(r) ==
  /\ Connection(r) /\ InOrder(r) /\ Queued(r) /\ ScenarioOpen(r)
  /\ Fates(log[r]) /\ StatesApart(r) /\ StatesKnown(r)

OpenInv == OpenTypeOK /\ \A r \in Runners : RunnerInv(r)

(* Nothing of a step runner changes that the invariant speaks of. *)
Untouched(r) ==
  /\ main'[r] = "boot" => main[r] = "boot"
  /\ actor'[r] = actor[r] /\ cucumber'[r] = cucumber[r] /\ built'[r] = built[r]
  /\ live'[r] = live[r] /\ log'[r] = log[r]
  /\ tidy'[r] = tidy[r] /\ asked'[r] = asked[r]
  /\ requests'[r] = requests[r] /\ (r \in peers' <=> r \in peers)

LEMMA UntouchedKept ==
  ASSUME NEW r, RunnerInv(r), Untouched(r)
  PROVE  RunnerInv(r)'
BY DEF RunnerInv, Untouched, Connection, Serving, InOrder, Queued, ScenarioOpen,
       StatesApart, StatesKnown

(* The frames a handler takes for its request.                             *)
LEMMA FramesTaken ==
  ASSUME OpenTypeOK, NEW r \in Runners, NEW command \in Commands,
         HasRequest(r, command)
  PROVE  LET n == FramesRead(command)
         IN  /\ n \in Nat \ {0} /\ n <= Len(requests[r])
             /\ SubSeq(requests[r], 1, n) \in RequestFrames
             /\ SubSeq(requests[r], 1, n)[1] = command
<1> DEFINE n == FramesRead(command)
           q == requests[r]
<1>1. n \in Nat \ {0}
  BY DEF FramesRead
<1>2. q \in Seq(Frame) /\ q # <<>> /\ Head(q) = command /\ n <= Len(q)
  BY DEF HasRequest, OpenTypeOK
<1> HIDE DEF n, q
<1>3. Len(q) \in Nat /\ q[1] = command /\ \A i \in 1..Len(q) : q[i] \in Frame
  BY <1>2, LenProperties, ElementOfSeq
<1>4. \A i \in 1..n : q[i] \in Frame
  BY <1>1, <1>2, <1>3
<1>5. /\ SubSeq(q, 1, n) \in Seq(Frame)
      /\ \A i \in 1..(n - 1 + 1) : SubSeq(q, 1, n)[i] = q[1 + i - 1]
  BY <1>1, <1>4, SubSeqProperties
<1>6. 1 \in 1..(n - 1 + 1) /\ 1 + 1 - 1 = 1
  BY <1>1
<1>7. SubSeq(q, 1, n)[1] = command
  BY <1>3, <1>5, <1>6
<1> QED
  BY <1>1, <1>2, <1>5, <1>7 DEF RequestFrames, n, q

(* The first frame of a queue is a command.  It is that of the next        *)
(* request, and the handler reads all frames of it and no other; or it     *)
(* came in a message that is no request.                                   *)
LEMMA NextRequest ==
  ASSUME OpenTypeOK, NEW r \in Runners, RunnerInv(r),
         NEW command \in Commands, HasRequest(r, command)
  PROVE  LET k == Len(log[r]) + 1
             n == FramesRead(command)
         IN  IF k <= Len(asked[r])
             THEN /\ asked[r][k][1] = command
                  /\ SubSeq(requests[r], 1, n) = asked[r][k]
                  /\ Waiting(SubSeq(requests[r], n + 1, Len(requests[r])), asked[r],
                             k + 1, tidy[r])
             ELSE ~tidy[r]
<1> DEFINE k == Len(log[r]) + 1
           q == requests[r]
           all == asked[r]
           clean == tidy[r]
<1>1. /\ q \in Seq(Frame) /\ all \in Seq(RequestMessages) /\ clean \in BOOLEAN
      /\ Len(log[r]) \in Nat /\ Len(all) \in Nat
      /\ clean => Len(log[r]) <= Len(all)
  BY LenProperties DEF OpenTypeOK, RunnerInv, InOrder
<1>2. /\ q # <<>> /\ Head(q) = command
      /\ Len(log[r]) <= Len(all) => Waiting(q, all, k, clean)
  BY DEF HasRequest, RunnerInv, Connection, Serving, Queued
<1>3. /\ k \in Nat
      /\ Len(log[r]) <= Len(all) => k \in 1..(Len(all) + 1)
      /\ k <= Len(all) => k \in 1..Len(all) /\ Len(log[r]) <= Len(all)
  BY <1>1
<1> HIDE DEF k, q, all, clean
<1>4. ASSUME k <= Len(all)
      PROVE  LET n == FramesRead(command)
             IN  /\ all[k][1] = command
                 /\ SubSeq(q, 1, n) = all[k]
                 /\ Waiting(SubSeq(q, n + 1, Len(q)), all, k + 1, clean)
  <2>1. /\ Head(all[k]) = Head(q) /\ SubSeq(q, 1, Len(all[k])) = all[k]
        /\ Waiting(SubSeq(q, Len(all[k]) + 1, Len(q)), all, k + 1, clean)
    BY <1>1, <1>2, <1>3, <1>4, WaitingHandled
  <2>2. all[k] \in RequestMessages
    BY <1>1, <1>3, <1>4, ElementOfSeq
  <2>3. /\ all[k][1] = command
        /\ command = "RUN STEP" => Len(all[k]) = 3
        /\ command # "RUN STEP" => Len(all[k]) = 2
    BY <1>2, <2>1, <2>2, RequestShape, Zenon
  <2>4. Len(all[k]) = FramesRead(command)
    BY <2>3, Zenon DEF FramesRead
  <2> QED
    BY <2>1, <2>3, <2>4, Zenon
<1>5. ASSUME ~(k <= Len(all))
      PROVE  ~clean
  <2>1. CASE Len(log[r]) <= Len(all)
    BY <1>1, <1>2, <1>3, <1>5, <2>1, WaitingHandled
  <2>2. CASE ~(Len(log[r]) <= Len(all))
    BY <1>1, <2>2
  <2> QED
    BY <2>1, <2>2
<1> QED
  BY <1>4, <1>5, Zenon DEF k, q, all, clean

(* What is left of a queue.                                                *)
LEMMA RestOf ==
  ASSUME NEW S, NEW q \in Seq(S), NEW n \in Nat
  PROVE  SubSeq(q, n + 1, Len(q)) \in Seq(S)
<1>1. Len(q) \in Nat /\ \A i \in 1..Len(q) : q[i] \in S
  BY LenProperties, ElementOfSeq
<1>2. \A i \in (n + 1)..Len(q) : q[i] \in S
  BY <1>1
<1> QED
  BY <1>1, <1>2, SubSeqProperties

(* The part of a handler that all of them have in common: the request is   *)
(* read, kept in the history and answered.                                 *)
LEMMA RequestHandled ==
  ASSUME OpenTypeOK, NEW r \in Runners, RunnerInv(r),
         NEW command \in Commands, HasRequest(r, command),
         NEW n, n = FramesRead(command),
         NEW state \in Nat, NEW fails \in BOOLEAN, NEW reply \in ReplyCommands,
         NEW message,
         Handled(r, n, state, fails, reply), ReadAndAnswer(r, n, message),
         UNCHANGED <<main, actor, tidy, asked>>
  PROVE  /\ log' \in [Runners -> Seq(Entry)]
         /\ requests' \in [Runners -> Seq(Frame)]
         /\ peers' = peers
         /\ \A s \in Runners \ {r} : log'[s] = log[s] /\ requests'[s] = requests[s]
         /\ \E e \in Entry : /\ log'[r] = Append(log[r], e)
                             /\ e.frames[1] = command /\ e.state = state
         /\ Connection(r)' /\ InOrder(r)' /\ Queued(r)'
<1> DEFINE k == Len(log[r]) + 1
           taken == SubSeq(requests[r], 1, n)
           rest == SubSeq(requests[r], n + 1, Len(requests[r]))
           e == [frames |-> taken, state |-> state, fails |-> fails, reply |-> reply]
<1>1. /\ n \in Nat \ {0} /\ n <= Len(requests[r])
      /\ taken \in RequestFrames /\ taken[1] = command
  BY FramesTaken, Zenon
<1>2. IF k <= Len(asked[r])
      THEN /\ asked[r][k][1] = command
           /\ taken = asked[r][k]
           /\ Waiting(rest, asked[r], k + 1, tidy[r])
      ELSE ~tidy[r]
  BY NextRequest, Zenon
<1> HIDE DEF taken
<1>3. e \in Entry /\ e.frames = taken /\ e.frames[1] = command /\ e.state = state
  <2>1. e \in Entry
    BY <1>1, Zenon DEF Entry
  <2> QED
    BY <1>1, <2>1, Zenon
<1>4. /\ log' = [log EXCEPT ![r] = Append(@, e)]
      /\ requests' = [requests EXCEPT ![r] = rest]
      /\ peers' = peers
  BY DEF Handled, ReadAndAnswer, taken
<1> HIDE DEF e, rest
<1>5. rest \in Seq(Frame)
  <2>1. requests[r] \in Seq(Frame)
    BY DEF OpenTypeOK
  <2> QED
    BY <1>1, <2>1, RestOf DEF rest
<1>6. /\ log' \in [Runners -> Seq(Entry)] /\ log'[r] = Append(log[r], e)
      /\ requests' \in [Runners -> Seq(Frame)] /\ requests'[r] = rest
      /\ \A s \in Runners \ {r} : log'[s] = log[s] /\ requests'[s] = requests[s]
  BY <1>3, <1>4, <1>5, AppendProperties DEF OpenTypeOK
<1>7. /\ Len(log'[r]) = k /\ Len(log[r]) \in Nat /\ DOMAIN log'[r] = 1..k
      /\ DOMAIN log[r] = 1..Len(log[r])
      /\ \A i \in 1..Len(log[r]) : log'[r][i] = log[r][i]
      /\ log'[r][k] = e
  <2>1. log[r] \in Seq(Entry)
    BY DEF OpenTypeOK
  <2>2. /\ Len(Append(log[r], e)) = k /\ Len(log[r]) \in Nat
        /\ DOMAIN Append(log[r], e) = 1..k
        /\ DOMAIN log[r] = 1..Len(log[r])
        /\ \A i \in 1..Len(log[r]) : Append(log[r], e)[i] = log[r][i]
        /\ Append(log[r], e)[k] = e
    BY <1>3, <2>1, OneMore
  <2> QED
    BY <1>6, <2>2
<1>8. DOMAIN asked[r] = 1..Len(asked[r]) /\ Len(asked[r]) \in Nat
  BY LenProperties DEF OpenTypeOK
<1>9. InOrder(r)'
  <2>1. \A i \in 1..k : i \in 1..Len(log[r]) \/ i = k
    BY <1>7
  <2>2. ASSUME NEW i \in DOMAIN log'[r] \cap DOMAIN asked[r]
        PROVE  log'[r][i].frames = asked[r][i]
    <3>1. CASE i \in 1..Len(log[r])
      BY <1>7, <2>2, <3>1 DEF RunnerInv, InOrder
    <3>2. CASE i = k
      BY <1>2, <1>3, <1>7, <1>8, <2>2, <3>2
    <3> QED
      BY <1>7, <2>1, <2>2, <3>1, <3>2
  <2>3. tidy[r] => Len(log'[r]) <= Len(asked[r])
    BY <1>2, <1>7
  <2> QED
    BY <2>2, <2>3 DEF InOrder
<1>10. Queued(r)'
  <2>1. ASSUME k <= Len(asked[r])
        PROVE  Waiting(rest, asked[r], k + 1, tidy[r])
    BY <1>2, <2>1
  <2> QED
    BY <1>6, <1>7, <2>1, Zenon DEF Queued
<1>11. Connection(r)'
  <2>1. actor[r] = "loop"
    BY DEF HasRequest
  <2> QED
    BY <2>1, <1>4 DEF Connection, Serving, RunnerInv
<1> QED
  BY <1>3, <1>4, <1>6, <1>9, <1>10, <1>11

-----------------------------------------------------------------------------
(***************************************************************************)
(* The invariant, step by step.                                            *)
(***************************************************************************)

(* A step changes one step runner.                                         *)
LEMMA OneRunner ==
  ASSUME OpenInv, NEW r \in Runners, OpenTypeOK',
         \A s \in Runners \ {r} : Untouched(s), RunnerInv(r)'
  PROVE  OpenInv'
<1>1. ASSUME NEW s \in Runners PROVE RunnerInv(s)'
  <2>1. CASE s = r
    BY <2>1
  <2>2. CASE s # r
    BY <2>2, UntouchedKept DEF OpenInv
  <2> QED
    BY <2>1, <2>2
<1> QED
  BY <1>1 DEF OpenInv

(* A scenario starts on the step definitions of its step runner.           *)
LEMMA NewScenario ==
  ASSUME NEW state \in Nat, NEW r \in Runners
  PROVE  /\ CucumberNew(state, Defs[r]) \in CucumberType
         /\ CucumberNew(state, Defs[r]) # NULL
         /\ CucumberNew(state, Defs[r]).state = state
<1>1. Defs[r] \in Seq(SUBSET Texts)
  BY StepsAssumption DEF StepsAssumption
<1>2. Len(Defs[r]) \in Nat /\ \A i \in 1..Len(Defs[r]) : Defs[r][i] \in SUBSET Texts
  BY <1>1, LenProperties, ElementOfSeq
<1>3. \A i \in 1..Len(Defs[r]) : CucumberStepDefNew(Defs[r][i]) \in StepDef
  BY <1>2 DEF CucumberStepDefNew, StepDef
<1>4. [i \in 1..Len(Defs[r]) |-> CucumberStepDefNew(Defs[r][i])] \in Seq(StepDef)
  BY <1>2, <1>3, SeqDef
<1>5. CucumberNew(state, Defs[r]) \in CucumberType
  BY <1>4 DEF CucumberNew, CucumberType
<1>6. CucumberNew(state, Defs[r]).state = state
  BY DEF CucumberNew
<1> QED
  BY <1>5, <1>6, StepsAssumption DEF StepsAssumption

(* A step that is run leaves a scenario on its state object.               *)
LEMMA SameScenario ==
  ASSUME NEW c \in CucumberType, NEW i, NEW fails \in BOOLEAN
  PROVE  /\ CucumberStepDefRun(c, i, fails) \in CucumberType
         /\ CucumberStepDefRun(c, i, fails).state = c.state
<1> DEFINE d == c.step_defs
           e == [d EXCEPT ![i].failed = fails \/ @]
<1>1. d \in Seq(StepDef) /\ c.state \in Nat
  BY DEF CucumberType
<1>2. DOMAIN d = 1..Len(d) /\ Len(d) \in Nat
  BY <1>1, LenProperties
<1>3. ASSUME NEW j \in 1..Len(d) PROVE e[j] \in StepDef
  <2>1. d[j] \in StepDef
    BY <1>1, ElementOfSeq
  <2>2. (fails \/ d[j].failed) \in BOOLEAN
    BY Zenon
  <2>3. [d[j] EXCEPT !.failed = fails \/ @] \in StepDef
    BY <2>1, <2>2 DEF StepDef
  <2>4. e[j] = IF j = i THEN [d[j] EXCEPT !.failed = fails \/ @] ELSE d[j]
    BY <1>2, Zenon
  <2> QED
    BY <2>1, <2>3, <2>4
<1>4. e \in Seq(StepDef)
  <2>1. e \in [1..Len(d) -> StepDef]
    BY <1>2, <1>3, Zenon
  <2> HIDE DEF e
  <2> QED
    BY <1>2, <2>1, SeqDef
<1>5. CucumberStepDefRun(c, i, fails) = [c EXCEPT !.step_defs = e]
  BY Zenon DEF CucumberStepDefRun
<1> HIDE DEF e
<1> QED
  BY <1>4, <1>5 DEF CucumberType

(* What all handlers of a request keep.                                    *)
LEMMA HandlerTypes ==
  ASSUME OpenTypeOK, NEW r \in Runners,
         UNCHANGED <<main, actor, pipe, tidy, asked>>, peers' = peers,
         log' \in [Runners -> Seq(Entry)], requests' \in [Runners -> Seq(Frame)],
         \A s \in Runners \ {r} : log'[s] = log[s] /\ requests'[s] = requests[s],
         NEW c \in CucumberType \cup {NULL}, cucumber' = [cucumber EXCEPT ![r] = c],
         NEW n \in Nat, built' = [built EXCEPT ![r] = n],
         NEW states \in SUBSET Nat, live' = [live EXCEPT ![r] = states]
  PROVE  OpenTypeOK' /\ \A s \in Runners \ {r} : Untouched(s)
BY DEF OpenTypeOK, Untouched

(* START SCENARIO: one more state, the open scenario is the new one.       *)
LEMMA StartKept ==
  ASSUME OpenInv, NEW r \in Runners, StartScenario(r), UNCHANGED clientVars
  PROVE  OpenInv'
<1> DEFINE state == StateConstructor(r)
           c == CucumberNew(state, Defs[r])
           n == IF state = 0 THEN built[r] ELSE state
           states == live[r] \cup ({state} \ {0})
           message == [command |-> "SCENARIO STARTED", id |-> requests[r][2]]
           command == "START SCENARIO"
           reply == "SCENARIO STARTED"
<1>1. OpenTypeOK /\ RunnerInv(r)
  BY DEF OpenInv
<1>2. /\ built[r] \in Nat /\ state \in Nat /\ n \in Nat /\ states \in SUBSET Nat
      /\ r \in Constructing => /\ state = built[r] + 1 /\ n = built[r] + 1
                               /\ states = live[r] \cup {state}
  BY <1>1 DEF OpenTypeOK, StateConstructor
<1>3. c \in CucumberType /\ c # NULL /\ c.state = state
  BY <1>2, NewScenario
<1>4. /\ HasRequest(r, command) /\ actor[r] = "loop" /\ r \in peers
      /\ cucumber' = [cucumber EXCEPT ![r] = c]
      /\ built' = [built EXCEPT ![r] = n]
      /\ live' = [live EXCEPT ![r] = states]
      /\ Handled(r, 2, state, FALSE, reply) /\ ReadAndAnswer(r, 2, message)
      /\ UNCHANGED <<main, actor, pipe, tidy, asked>>
  <2>1. HasRequest(r, command) /\ actor[r] = "loop"
    BY Zenon DEF StartScenario, HasRequest
  <2>2. r \in peers
    BY <1>1, <2>1 DEF RunnerInv, Connection, Serving
  <2>3. /\ cucumber' = [cucumber EXCEPT ![r] = c]
        /\ built' = [built EXCEPT ![r] = n]
        /\ live' = [live EXCEPT ![r] = states]
        /\ Handled(r, 2, state, FALSE, reply) /\ ReadAndAnswer(r, 2, message)
    BY Zenon DEF StartScenario
  <2>4. UNCHANGED <<main, actor, pipe, tidy, asked>>
    BY Zenon DEF StartScenario, clientVars
  <2> QED
    BY <2>1, <2>2, <2>3, <2>4
<1>5. command \in Commands /\ reply \in ReplyCommands
  BY DEF Commands, ReplyCommands
<1>6. 2 = FramesRead(command)
  BY DEF FramesRead
<1>7. \A e \in Entry : e.frames[1] = command => IsStart(e)
  BY Zenon DEF IsStart
<1> HIDE DEF state, c, n, states, message, command, reply
<1>8. /\ log' \in [Runners -> Seq(Entry)]
      /\ requests' \in [Runners -> Seq(Frame)]
      /\ peers' = peers
      /\ \A s \in Runners \ {r} : log'[s] = log[s] /\ requests'[s] = requests[s]
      /\ \E e \in Entry : /\ log'[r] = Append(log[r], e)
                          /\ e.frames[1] = command /\ e.state = state
      /\ Connection(r)' /\ InOrder(r)' /\ Queued(r)'
  BY <1>1, <1>2, <1>4, <1>5, <1>6, RequestHandled
<1>9. PICK e \in Entry : log'[r] = Append(log[r], e) /\ IsStart(e) /\ e.state = state
  BY <1>7, <1>8
<1>10. OpenTypeOK' /\ \A s \in Runners \ {r} : Untouched(s)
  BY <1>1, <1>2, <1>3, <1>4, <1>8, HandlerTypes
<1>11. log[r] \in Seq(Entry) /\ Fates(log[r])
  BY <1>1 DEF OpenTypeOK, RunnerInv
<1>12. /\ Fates(log'[r]) /\ InScenario(log'[r]) /\ OpenOn(log'[r], state)
       /\ StatesLeft(log'[r]) = StatesLeft(log[r]) \cup {state}
  BY <1>9, <1>11, FatesGrow, InScenarioGrows, OpenOnGrows, StatesLeftGrow
<1>13. cucumber'[r] = c /\ built'[r] = n /\ live'[r] = states /\ actor'[r] = "loop"
  BY <1>1, <1>4 DEF OpenTypeOK
<1>14. ScenarioOpen(r)'
  BY <1>3, <1>12, <1>13 DEF ScenarioOpen, Serving
<1>15. StatesApart(r)'
  <2>1. ASSUME r \in Constructing
        PROVE  Fresh(log'[r], built'[r])
    <3>1. Fresh(log[r], built[r]) /\ e.state = built[r] + 1
      BY <1>1, <1>2, <1>9, <2>1 DEF RunnerInv, StatesApart
    <3>2. Fresh(Append(log[r], e), built[r] + 1)
      BY <1>2, <1>9, <1>11, <3>1, FreshGrows
    <3> QED
      BY <1>2, <1>9, <1>13, <2>1, <3>2
  <2> QED
    BY <1>3, <1>12, <1>13, <2>1 DEF StatesApart
<1>16. StatesKnown(r)'
  BY <1>1, <1>2, <1>4, <1>12, <1>13 DEF StatesKnown, RunnerInv, Serving
<1>17. RunnerInv(r)'
  BY <1>8, <1>12, <1>14, <1>15, <1>16 DEF RunnerInv
<1> QED
  BY <1>10, <1>17, OneRunner

(* RUN STEP, with a step definition that matches or without: the scenario  *)
(* is the same, on the same state.                                         *)
LEMMA StepKept ==
  ASSUME OpenInv, NEW r \in Runners, RunStep(r) \/ StepNotFound(r),
         UNCHANGED clientVars
  PROVE  OpenInv'
<1> DEFINE command == "RUN STEP"
           state == cucumber[r].state
<1>1. OpenTypeOK /\ RunnerInv(r)
  BY DEF OpenInv
<1>2. /\ HasRequest(r, command) /\ actor[r] = "loop" /\ r \in peers
      /\ cucumber[r] # NULL /\ cucumber[r] \in CucumberType /\ state \in Nat
  <2>1. HasRequest(r, command) /\ actor[r] = "loop" /\ cucumber[r] # NULL
    BY Zenon DEF RunStep, StepNotFound, StepRequested, HasRequest
  <2>2. r \in peers
    BY <1>1, <2>1 DEF RunnerInv, Connection, Serving
  <2>3. cucumber[r] \in CucumberType
    BY <1>1, <2>1 DEF OpenTypeOK
  <2> QED
    BY <2>1, <2>2, <2>3 DEF CucumberType
<1>3. \E fails \in BOOLEAN, reply \in ReplyCommands, c \in CucumberType :
        /\ c.state = state /\ cucumber' = [cucumber EXCEPT ![r] = c]
        /\ Handled(r, 3, state, fails, reply)
        /\ \E message : ReadAndAnswer(r, 3, message)
  <2>1. CASE RunStep(r)
    <3>1. PICK fails \in BOOLEAN :
            LET ran == CucumberStepDefRun(cucumber[r], StepDefFor(r), fails)
                answer == IF CucumberStepDefFailed(ran, StepDefFor(r))
                          THEN "STEP FAILED" ELSE "STEP SUCCEEDED"
            IN  /\ cucumber' = [cucumber EXCEPT ![r] = ran]
                /\ Handled(r, 3, state, fails, answer)
                /\ ReadAndAnswer(r, 3, [command |-> answer, id |-> requests[r][2]])
      BY <2>1, Zenon DEF RunStep
    <3> DEFINE ran == CucumberStepDefRun(cucumber[r], StepDefFor(r), fails)
               answer == IF CucumberStepDefFailed(ran, StepDefFor(r))
                         THEN "STEP FAILED" ELSE "STEP SUCCEEDED"
    <3>2. answer \in ReplyCommands
      BY DEF ReplyCommands, StepReplies
    <3>3. ran \in CucumberType /\ ran.state = state
      BY <1>2, SameScenario
    <3> QED
      BY <3>1, <3>2, <3>3, Zenon
  <2>2. CASE StepNotFound(r)
    <3> DEFINE answer == "STEP NOT FOUND"
    <3>1. answer \in ReplyCommands /\ FALSE \in BOOLEAN
      BY DEF ReplyCommands, StepReplies
    <3>2. /\ Handled(r, 3, state, FALSE, answer)
          /\ ReadAndAnswer(r, 3, [command |-> answer, id |-> requests[r][2]])
          /\ cucumber' = cucumber
      BY <2>2, Zenon DEF StepNotFound
    <3>3. cucumber' = [cucumber EXCEPT ![r] = cucumber[r]]
      <4> HIDE DEF answer
      <4> QED
        BY <1>1, <3>2 DEF OpenTypeOK
    <3> HIDE DEF answer
    <3> QED
      BY <1>2, <3>1, <3>2, <3>3, Zenon
  <2> QED
    BY <2>1, <2>2, Zenon
<1>4. UNCHANGED <<main, actor, pipe, tidy, asked, built, live>>
  BY Zenon DEF RunStep, StepNotFound, clientVars
<1>5. command \in Commands
  BY DEF Commands
<1>6. 3 = FramesRead(command)
  BY DEF FramesRead
<1>7. \A e \in Entry : e.frames[1] = command => IsStep(e)
  BY Zenon DEF IsStep
<1> HIDE DEF state, command
<1>8. PICK fails \in BOOLEAN, reply \in ReplyCommands, c \in CucumberType :
        /\ c.state = state /\ cucumber' = [cucumber EXCEPT ![r] = c]
        /\ Handled(r, 3, state, fails, reply)
        /\ \E message : ReadAndAnswer(r, 3, message)
  BY <1>3, Zenon
<1>9. PICK message : ReadAndAnswer(r, 3, message)
  BY <1>8, Zenon
<1>10. /\ log' \in [Runners -> Seq(Entry)]
       /\ requests' \in [Runners -> Seq(Frame)]
       /\ peers' = peers
       /\ \A s \in Runners \ {r} : log'[s] = log[s] /\ requests'[s] = requests[s]
       /\ \E e \in Entry : /\ log'[r] = Append(log[r], e)
                           /\ e.frames[1] = command /\ e.state = state
       /\ Connection(r)' /\ InOrder(r)' /\ Queued(r)'
  BY <1>1, <1>2, <1>4, <1>5, <1>6, <1>8, <1>9, RequestHandled
<1>11. PICK e \in Entry : log'[r] = Append(log[r], e) /\ IsStep(e) /\ e.state = state
  BY <1>7, <1>10
<1>12. /\ built[r] \in Nat /\ built' = [built EXCEPT ![r] = built[r]]
       /\ live[r] \in SUBSET Nat /\ live' = [live EXCEPT ![r] = live[r]]
  BY <1>1, <1>4 DEF OpenTypeOK
<1>13. OpenTypeOK' /\ \A s \in Runners \ {r} : Untouched(s)
  BY <1>1, <1>4, <1>8, <1>10, <1>12, HandlerTypes
<1>14. log[r] \in Seq(Entry) /\ Fates(log[r])
  BY <1>1 DEF OpenTypeOK, RunnerInv
<1>15. InScenario(log[r])
  BY <1>1, <1>2 DEF RunnerInv, ScenarioOpen, Serving
<1>16. /\ Fates(log'[r]) /\ InScenario(log'[r])
       /\ OpenOn(log[r], state) => OpenOn(log'[r], state)
       /\ StatesLeft(log'[r]) = StatesLeft(log[r])
  BY <1>11, <1>14, <1>15, FatesGrow, InScenarioGrows, OpenOnGrows, StatesLeftGrow
<1>17. /\ cucumber'[r] = c /\ c # NULL /\ actor'[r] = "loop"
       /\ built'[r] = built[r] /\ live'[r] = live[r]
  BY <1>1, <1>2, <1>4, <1>8, StepsAssumption DEF OpenTypeOK, StepsAssumption
<1>18. ScenarioOpen(r)'
  BY <1>16, <1>17 DEF ScenarioOpen, Serving
<1>19. StatesApart(r)'
  <2>1. ASSUME r \in Constructing
        PROVE  Fresh(log'[r], built'[r]) /\ OpenOn(log'[r], c.state)
    <3>1. Fresh(log[r], built[r]) /\ OpenOn(log[r], state)
      BY <1>1, <1>2, <2>1 DEF RunnerInv, StatesApart, state
    <3>2. ~IsStart(e)
      BY <1>11, OneKind
    <3>3. Fresh(Append(log[r], e), built[r])
      BY <1>12, <1>14, <3>1, <3>2, FreshGrows
    <3> QED
      BY <1>8, <1>11, <1>16, <1>17, <3>1, <3>3
  <2> QED
    BY <1>17, <2>1 DEF StatesApart
<1>20. StatesKnown(r)'
  BY <1>1, <1>2, <1>16, <1>17 DEF StatesKnown, RunnerInv, Serving
<1>21. RunnerInv(r)'
  BY <1>10, <1>16, <1>18, <1>19, <1>20 DEF RunnerInv
<1> QED
  BY <1>13, <1>21, OneRunner

(* cucumber_destroy: the state of the open scenario is not live any more,  *)
(* those of the scenarios started before it still are.                     *)
LEMMA DestroyedStates ==
  ASSUME OpenInv, NEW r \in Runners, Serving(r), CucumberDestroy(r)
  PROVE  /\ cucumber' = [cucumber EXCEPT ![r] = NULL]
         /\ \E states \in SUBSET Nat :
              /\ live' = [live EXCEPT ![r] = states]
              /\ r \in Constructing \cap Destructing => states = StatesBehind(log[r])
<1>1. OpenTypeOK /\ RunnerInv(r)
  BY DEF OpenInv
<1>2. /\ log[r] \in Seq(Entry) /\ Fates(log[r]) /\ live[r] \in SUBSET Nat
      /\ built[r] \in Nat
      /\ cucumber[r] # NULL <=> InScenario(log[r])
  BY <1>1 DEF OpenTypeOK, RunnerInv, ScenarioOpen
<1> DEFINE states == IF cucumber[r] # NULL /\ r \in Destructing
                     THEN live[r] \ {cucumber[r].state} ELSE live[r]
<1>3. states \in SUBSET Nat /\ live' = [live EXCEPT ![r] = states]
  BY <1>1, <1>2 DEF CucumberDestroy, OpenTypeOK
<1>4. ASSUME r \in Constructing \cap Destructing
      PROVE  states = StatesBehind(log[r])
  <2>1. live[r] = StatesLeft(log[r])
    BY <1>1, <1>4 DEF RunnerInv, StatesKnown
  <2>2. CASE cucumber[r] = NULL
    BY <1>2, <2>1, <2>2, LostAndLeft
  <2>3. CASE cucumber[r] # NULL
    <3>1. Fresh(log[r], built[r]) /\ OpenOn(log[r], cucumber[r].state)
      BY <1>1, <1>4, <2>3 DEF RunnerInv, StatesApart
    <3>2. InScenario(log[r])
      BY <1>2, <2>3, Zenon
    <3>3. StatesBehind(log[r]) = StatesLeft(log[r]) \ {cucumber[r].state}
      BY <1>2, <3>1, <3>2, LostAndLeft, Zenon
    <3>4. states = live[r] \ {cucumber[r].state}
      BY <1>4, <2>3
    <3> QED
      BY <2>1, <3>3, <3>4, Zenon
  <2> QED
    BY <2>2, <2>3
<1> HIDE DEF states
<1> QED
  BY <1>3, <1>4 DEF CucumberDestroy

(* END SCENARIO: no scenario is open, and its state is not left.           *)
LEMMA EndKept ==
  ASSUME OpenInv, NEW r \in Runners, EndScenario(r), UNCHANGED clientVars
  PROVE  OpenInv'
<1> DEFINE message == [command |-> "SCENARIO ENDED", id |-> requests[r][2]]
           command == "END SCENARIO"
           reply == "SCENARIO ENDED"
<1>1. OpenTypeOK /\ RunnerInv(r)
  BY DEF OpenInv
<1>2. /\ HasRequest(r, command) /\ actor[r] = "loop" /\ CucumberDestroy(r)
      /\ Handled(r, 2, 0, FALSE, reply) /\ ReadAndAnswer(r, 2, message)
      /\ UNCHANGED <<main, actor, pipe, tidy, asked, built>>
  BY Zenon DEF EndScenario, HasRequest, clientVars
<1>3. command \in Commands /\ reply \in ReplyCommands
  BY DEF Commands, ReplyCommands
<1>4. 2 = FramesRead(command)
  BY DEF FramesRead
<1>5. \A e \in Entry : e.frames[1] = command => IsEnd(e)
  BY Zenon DEF IsEnd
<1> HIDE DEF message, command, reply
<1>6. /\ log' \in [Runners -> Seq(Entry)]
      /\ requests' \in [Runners -> Seq(Frame)]
      /\ peers' = peers
      /\ \A s \in Runners \ {r} : log'[s] = log[s] /\ requests'[s] = requests[s]
      /\ \E e \in Entry : /\ log'[r] = Append(log[r], e)
                          /\ e.frames[1] = command /\ e.state = 0
      /\ Connection(r)' /\ InOrder(r)' /\ Queued(r)'
  BY <1>1, <1>2, <1>3, <1>4, RequestHandled
<1>7. PICK e \in Entry : log'[r] = Append(log[r], e) /\ IsEnd(e)
  BY <1>5, <1>6
<1>8. Serving(r)
  BY <1>2 DEF Serving
<1>9. cucumber' = [cucumber EXCEPT ![r] = NULL]
  BY <1>2, <1>8, DestroyedStates
<1>10. PICK states \in SUBSET Nat :
         /\ live' = [live EXCEPT ![r] = states]
         /\ r \in Constructing \cap Destructing => states = StatesBehind(log[r])
  BY <1>2, <1>8, DestroyedStates
<1>11. built[r] \in Nat /\ built' = [built EXCEPT ![r] = built[r]]
  BY <1>1, <1>2 DEF OpenTypeOK
<1>12. OpenTypeOK' /\ \A s \in Runners \ {r} : Untouched(s)
  BY <1>1, <1>2, <1>6, <1>9, <1>10, <1>11, HandlerTypes
<1>13. log[r] \in Seq(Entry) /\ Fates(log[r])
  BY <1>1 DEF OpenTypeOK, RunnerInv
<1>14. /\ Fates(log'[r]) /\ ~InScenario(log'[r])
       /\ StatesLeft(log'[r]) = StatesBehind(log[r])
  BY <1>7, <1>13, FatesGrow, InScenarioGrows, StatesLeftGrow DEF StatesBehind
<1>15. /\ cucumber'[r] = NULL /\ actor'[r] = "loop"
       /\ built'[r] = built[r] /\ live'[r] = states
  BY <1>1, <1>2, <1>9, <1>10 DEF OpenTypeOK
<1>16. ScenarioOpen(r)' /\ StatesKnown(r)'
  BY <1>10, <1>14, <1>15 DEF ScenarioOpen, StatesKnown, Serving
<1>17. StatesApart(r)'
  <2>1. ASSUME r \in Constructing
        PROVE  Fresh(log'[r], built'[r])
    <3>1. Fresh(log[r], built[r])
      BY <1>1, <2>1 DEF RunnerInv, StatesApart
    <3>2. ~IsStart(e)
      BY <1>7, OneKind
    <3> QED
      BY <1>7, <1>11, <1>13, <1>15, <3>1, <3>2, FreshGrows
  <2> QED
    BY <1>15, <2>1 DEF StatesApart
<1>18. RunnerInv(r)'
  BY <1>6, <1>14, <1>16, <1>17 DEF RunnerInv
<1> QED
  BY <1>12, <1>18, OneRunner

(* The end of the actor: of the states, those of overwritten scenarios are *)
(* left.                                                                   *)
LEMMA DestroyKept ==
  ASSUME OpenInv, NEW r \in Runners, CucumberStepsDestroy(r), UNCHANGED clientVars
  PROVE  OpenInv'
<1>1. OpenTypeOK /\ RunnerInv(r)
  BY DEF OpenInv
<1>2. /\ actor[r] = "terminated" /\ actor' = [actor EXCEPT ![r] = "gone"]
      /\ peers' = peers \ {r} /\ requests' = [requests EXCEPT ![r] = <<>>]
      /\ CucumberDestroy(r) /\ UNCHANGED <<main, pipe, built, log, tidy, asked>>
  BY DEF CucumberStepsDestroy, Disconnect, clientVars
<1>3. Serving(r)
  BY <1>2 DEF Serving
<1>4. cucumber' = [cucumber EXCEPT ![r] = NULL]
  BY <1>2, <1>3, DestroyedStates
<1>5. PICK states \in SUBSET Nat :
        /\ live' = [live EXCEPT ![r] = states]
        /\ r \in Constructing \cap Destructing => states = StatesBehind(log[r])
  BY <1>2, <1>3, DestroyedStates
<1>6. <<>> \in Seq(Frame)
  OBVIOUS
<1>7. OpenTypeOK' /\ \A s \in Runners \ {r} : Untouched(s)
  BY <1>1, <1>2, <1>4, <1>5, <1>6 DEF OpenTypeOK, Untouched, ActorStates
<1>8. /\ actor'[r] = "gone" /\ cucumber'[r] = NULL /\ live'[r] = states
      /\ r \notin peers' /\ log'[r] = log[r] /\ asked'[r] = asked[r] /\ tidy'[r] = tidy[r]
      /\ built'[r] = built[r] /\ main'[r] = main[r]
  BY <1>1, <1>2, <1>4, <1>5 DEF OpenTypeOK
<1>9. log[r] \in Seq(Entry) /\ Fates(log[r])
  BY <1>1 DEF OpenTypeOK, RunnerInv
<1>10. StatesLost(log[r]) = StatesBehind(log[r])
  BY <1>9, LostAndLeft
<1>11. Connection(r)' /\ InOrder(r)' /\ Queued(r)'
  BY <1>1, <1>2, <1>8 DEF Connection, InOrder, Queued, Serving, RunnerInv
<1>12. ScenarioOpen(r)' /\ StatesApart(r)' /\ StatesKnown(r)'
  BY <1>1, <1>5, <1>8, <1>10 DEF ScenarioOpen, StatesApart, StatesKnown, Serving,
                                 RunnerInv
<1>13. RunnerInv(r)'
  BY <1>8, <1>9, <1>11, <1>12 DEF RunnerInv
<1> QED
  BY <1>7, <1>13, OneRunner

(* The death of the process.                                               *)
LEMMA DieKept ==
  ASSUME OpenInv, NEW r \in Runners, actor[r] = "loop", Die(r), UNCHANGED clientVars
  PROVE  OpenInv'
<1>1. OpenTypeOK /\ RunnerInv(r)
  BY DEF OpenInv
<1>2. /\ main' = [main EXCEPT ![r] = "dead"] /\ actor' = [actor EXCEPT ![r] = "dead"]
      /\ pipe' = [pipe EXCEPT ![r] = <<>>]
      /\ cucumber' = [cucumber EXCEPT ![r] = NULL]
      /\ live' = [live EXCEPT ![r] = {}]
      /\ peers' = peers \ {r} /\ requests' = [requests EXCEPT ![r] = <<>>]
      /\ UNCHANGED <<built, log, tidy, asked>>
  BY DEF Die, Disconnect, clientVars
<1>3. /\ <<>> \in Seq(Frame) /\ <<>> \in Seq({"VERBOSE", "$TERM"} \cup AppCommands)
      /\ {} \in SUBSET Nat
  OBVIOUS
<1>4. OpenTypeOK' /\ \A s \in Runners \ {r} : Untouched(s)
  BY <1>1, <1>2, <1>3 DEF OpenTypeOK, Untouched, ActorStates, MainStates
<1>5. /\ actor'[r] = "dead" /\ cucumber'[r] = NULL /\ main'[r] = "dead"
      /\ r \notin peers' /\ log'[r] = log[r] /\ asked'[r] = asked[r] /\ tidy'[r] = tidy[r]
      /\ built'[r] = built[r]
  BY <1>1, <1>2 DEF OpenTypeOK
<1>6. Connection(r)' /\ InOrder(r)' /\ Queued(r)'
  BY <1>1, <1>5 DEF Connection, InOrder, Queued, Serving, RunnerInv
<1>7. ScenarioOpen(r)' /\ StatesApart(r)' /\ StatesKnown(r)'
  BY <1>1, <1>5 DEF ScenarioOpen, StatesApart, StatesKnown, Serving, RunnerInv
<1>8. RunnerInv(r)'
  BY <1>1, <1>5, <1>6, <1>7 DEF RunnerInv
<1> QED
  BY <1>4, <1>8, OneRunner

(* The actor connects, reads a command of its pipe, ignores a frame.       *)
LEMMA ActorKept ==
  ASSUME OpenInv, NEW r \in Runners, UNCHANGED clientVars,
         \/ CucumberStepsNew(r) \/ RecvVerbose(r) \/ RecvTerm(r) \/ IgnoreFrame(r)
  PROVE  OpenInv'
<1>1. OpenTypeOK /\ RunnerInv(r)
  BY DEF OpenInv
<1>2. CASE CucumberStepsNew(r)
  <2>1. /\ actor[r] = "init" /\ actor' = [actor EXCEPT ![r] = "loop"]
        /\ peers' = peers \cup {r}
        /\ UNCHANGED <<main, pipe, cucumber, built, live, log, tidy, asked, requests>>
    BY <1>2 DEF CucumberStepsNew, ConnectAndGreet, clientVars
  <2>2. OpenTypeOK' /\ \A s \in Runners \ {r} : Untouched(s)
    BY <1>1, <2>1 DEF OpenTypeOK, Untouched, ActorStates
  <2>3. /\ actor'[r] = "loop" /\ r \in peers'
        /\ log[r] = <<>> /\ asked[r] = <<>> /\ requests[r] = <<>> /\ live[r] = {}
        /\ cucumber[r] = NULL /\ main[r] # "boot"
    BY <1>1, <2>1 DEF OpenTypeOK, RunnerInv, Connection, ScenarioOpen, Serving
  <2>4. Waiting(requests[r], asked[r], Len(log[r]) + 1, tidy[r])
    <3>1. <<>> \in Seq(Frame) /\ <<>> = <<>> \o <<>>
      BY ConcatEmptySeq
    <3> QED
      BY <2>3, <3>1, NothingPending, Zenon DEF Waiting
  <2>5. Connection(r)' /\ InOrder(r)' /\ Queued(r)'
    BY <1>1, <2>1, <2>3, <2>4 DEF Connection, InOrder, Queued, Serving, RunnerInv
  <2>6. ScenarioOpen(r)' /\ StatesApart(r)' /\ StatesKnown(r)'
    BY <1>1, <2>1, <2>3 DEF ScenarioOpen, StatesApart, StatesKnown, Serving, RunnerInv,
                            InScenario, StatesLeft
  <2>7. RunnerInv(r)'
    BY <1>1, <2>1, <2>5, <2>6 DEF RunnerInv
  <2> QED
    BY <2>2, <2>7, OneRunner
<1>3. CASE RecvVerbose(r)
  <2>1. /\ pipe[r] # <<>> /\ pipe' = [pipe EXCEPT ![r] = Tail(@)]
        /\ UNCHANGED <<main, actor, cucumber, built, live, log, tidy, asked, requests, peers>>
    BY <1>3 DEF RecvVerbose, HasCommand, clientVars, transportVars
  <2>2. OpenTypeOK' /\ \A s \in Runners : Untouched(s)
    BY <1>1, <2>1, HeadTailProperties DEF OpenTypeOK, Untouched
  <2> QED
    BY <1>1, <2>2, UntouchedKept, OneRunner
<1>4. CASE RecvTerm(r)
  <2>1. /\ pipe[r] # <<>> /\ pipe' = [pipe EXCEPT ![r] = Tail(@)]
        /\ actor[r] = "loop" /\ actor' = [actor EXCEPT ![r] = "terminated"]
        /\ UNCHANGED <<main, cucumber, built, live, log, tidy, asked, requests, peers>>
    BY <1>4 DEF RecvTerm, HasCommand, clientVars, transportVars
  <2>2. OpenTypeOK' /\ \A s \in Runners \ {r} : Untouched(s)
    BY <1>1, <2>1, HeadTailProperties DEF OpenTypeOK, Untouched, ActorStates
  <2>3. actor'[r] = "terminated"
    BY <1>1, <2>1 DEF OpenTypeOK
  <2>4. RunnerInv(r)'
    BY <1>1, <2>1, <2>3 DEF RunnerInv, Connection, InOrder, Queued, ScenarioOpen,
                            StatesApart, StatesKnown, Serving
  <2> QED
    BY <2>2, <2>4, OneRunner
<1>5. CASE IgnoreFrame(r)
  <2>1. /\ actor[r] = "loop" /\ requests[r] # <<>> /\ Head(requests[r]) \notin Commands
        /\ requests' = [requests EXCEPT ![r] = Tail(@)]
        /\ UNCHANGED <<main, actor, pipe, cucumber, built, live, log, tidy, asked, peers>>
    BY <1>5 DEF IgnoreFrame, clientVars, stepsVars
  <2>2. OpenTypeOK' /\ \A s \in Runners \ {r} : Untouched(s)
    BY <1>1, <2>1, HeadTailProperties DEF OpenTypeOK, Untouched
  <2>3. /\ requests[r] \in Seq(Frame) /\ asked[r] \in Seq(RequestMessages)
        /\ Len(log[r]) <= Len(asked[r]) =>
             Len(log[r]) + 1 \in 1..(Len(asked[r]) + 1)
    BY <1>1, LenProperties DEF OpenTypeOK
  <2>4. Len(log[r]) <= Len(asked[r]) =>
          Waiting(requests[r], asked[r], Len(log[r]) + 1, tidy[r])
    BY <1>1, <2>1 DEF RunnerInv, Connection, Queued, Serving
  <2>5. Len(log[r]) <= Len(asked[r]) =>
          Waiting(Tail(requests[r]), asked[r], Len(log[r]) + 1, tidy[r])
    BY <2>1, <2>3, <2>4, WaitingIgnored
  <2>6. requests'[r] = Tail(requests[r])
    BY <1>1, <2>1 DEF OpenTypeOK
  <2>7. RunnerInv(r)'
    BY <1>1, <2>1, <2>5, <2>6 DEF RunnerInv, Connection, InOrder, Queued, ScenarioOpen,
                                  StatesApart, StatesKnown, Serving
  <2> QED
    BY <2>2, <2>7, OneRunner
<1> QED
  BY <1>2, <1>3, <1>4, <1>5

(* The main thread only starts the actor, and writes to its pipe.          *)
LEMMA MainKept ==
  ASSUME OpenInv, NEW r \in Runners, UNCHANGED clientVars,
         MainThread(r) \/ MainInput(r)
  PROVE  OpenInv'
<1>1. OpenTypeOK /\ RunnerInv(r)
  BY DEF OpenInv
<1>2. CASE StartActor(r)
  <2>1. /\ main[r] = "boot" /\ main' = [main EXCEPT ![r] = "spawned"]
        /\ actor' = [actor EXCEPT ![r] = "init"]
        /\ UNCHANGED <<pipe, cucumber, built, live, log, tidy, asked, requests, peers>>
    BY <1>2 DEF StartActor, clientVars, transportVars
  <2>2. OpenTypeOK' /\ \A s \in Runners \ {r} : Untouched(s)
    BY <1>1, <2>1 DEF OpenTypeOK, Untouched, MainStates, ActorStates
  <2>3. actor[r] = "none" /\ actor'[r] = "init" /\ main'[r] = "spawned"
    BY <1>1, <2>1 DEF OpenTypeOK, RunnerInv, Connection
  <2>4. RunnerInv(r)'
    BY <1>1, <2>1, <2>3 DEF RunnerInv, Connection, InOrder, Queued, ScenarioOpen,
                            StatesApart, StatesKnown, Serving
  <2> QED
    BY <2>2, <2>4, OneRunner
<1>3. ASSUME NEW place \in MainStates \ {"boot"}, main' = [main EXCEPT ![r] = place],
             pipe' \in [Runners -> Seq({"VERBOSE", "$TERM"} \cup AppCommands)],
             UNCHANGED <<actor, cucumber, built, live, log, transportVars>>
      PROVE  OpenInv'
  <2>1. OpenTypeOK' /\ \A s \in Runners : Untouched(s)
    BY <1>1, <1>3 DEF OpenTypeOK, Untouched, transportVars, clientVars
  <2> QED
    BY <1>1, <2>1, UntouchedKept, OneRunner
<1>4. \A command \in {"VERBOSE", "$TERM"} \cup AppCommands :
        [pipe EXCEPT ![r] = Append(@, command)]
          \in [Runners -> Seq({"VERBOSE", "$TERM"} \cup AppCommands)]
  BY <1>1, AppendProperties DEF OpenTypeOK
<1>5. pipe \in [Runners -> Seq({"VERBOSE", "$TERM"} \cup AppCommands)]
  BY <1>1 DEF OpenTypeOK
<1>6. main = [main EXCEPT ![r] = main[r]]
  BY <1>1 DEF OpenTypeOK
<1>7. CASE ActorStarted(r)
  BY <1>3, <1>4, <1>5, <1>7 DEF ActorStarted, MainStates
<1>8. CASE AppSends(r)
  <2>1. /\ main[r] \in MainStates \ {"boot"} /\ main' = [main EXCEPT ![r] = main[r]]
        /\ UNCHANGED <<actor, cucumber, built, live, log, transportVars>>
    BY <1>6, <1>8 DEF AppSends, MainStates
  <2>2. pipe' \in [Runners -> Seq({"VERBOSE", "$TERM"} \cup AppCommands)]
    BY <1>4, <1>8 DEF AppSends
  <2> QED
    BY <1>3, <2>1, <2>2
<1>9. CASE EndOfInput(r)
  BY <1>3, <1>4, <1>9 DEF EndOfInput, MainStates
<1>10. CASE DestroyActor(r)
  BY <1>3, <1>4, <1>5, <1>10 DEF DestroyActor, MainStates
<1>11. CASE Exit(r)
  BY <1>3, <1>5, <1>11 DEF Exit, MainStates
<1> QED
  BY <1>2, <1>7, <1>8, <1>9, <1>10, <1>11 DEF MainThread, MainInput

(* The client sends a message that leaves what was asked and not handled   *)
(* in the queue.                                                           *)
LEMMA SentKept ==
  ASSUME OpenInv, NEW r \in Runners, r \in peers, NEW m \in Seq(Frame),
         NEW all \in Seq(RequestMessages), NEW clean \in BOOLEAN,
         requests' = [requests EXCEPT ![r] = @ \o m], peers' = peers,
         asked' = [asked EXCEPT ![r] = all], tidy' = [tidy EXCEPT ![r] = clean],
         UNCHANGED <<main, actor, pipe, cucumber, built, live, log>>,
         clean => tidy[r],
         Len(asked[r]) <= Len(all),
         \A k \in 1..Len(asked[r]) : all[k] = asked[r][k],
         all = asked[r] \/ tidy[r],
         Len(log[r]) <= Len(all) => Waiting(requests[r] \o m, all, Len(log[r]) + 1, clean)
  PROVE  OpenInv'
<1>1. OpenTypeOK /\ RunnerInv(r) /\ Serving(r)
  BY DEF OpenInv, RunnerInv, Connection
<1>2. requests[r] \o m \in Seq(Frame)
  BY <1>1, ConcatProperties DEF OpenTypeOK
<1>3. OpenTypeOK' /\ \A s \in Runners \ {r} : Untouched(s)
  BY <1>1, <1>2 DEF OpenTypeOK, Untouched
<1>4. /\ requests'[r] = requests[r] \o m /\ asked'[r] = all /\ tidy'[r] = clean
      /\ log'[r] = log[r] /\ actor'[r] = actor[r]
  BY <1>1 DEF OpenTypeOK
<1>5. Queued(r)'
  BY <1>4 DEF Queued
<1>6. Connection(r)'
  BY <1>1, <1>4 DEF RunnerInv, Connection, Serving
<1>7. InOrder(r)'
  <2>1. /\ Len(log[r]) \in Nat /\ Len(asked[r]) \in Nat /\ Len(all) \in Nat
        /\ DOMAIN log[r] = 1..Len(log[r]) /\ DOMAIN asked[r] = 1..Len(asked[r])
        /\ DOMAIN all = 1..Len(all)
    BY <1>1, LenProperties DEF OpenTypeOK
  <2>2. /\ tidy[r] => Len(log[r]) <= Len(asked[r])
        /\ \A k \in DOMAIN log[r] \cap DOMAIN asked[r] : log[r][k].frames = asked[r][k]
    BY <1>1 DEF RunnerInv, InOrder
  <2>3. clean => Len(log[r]) <= Len(all)
    BY <2>1, <2>2
  <2>4. ASSUME NEW k \in DOMAIN log[r] \cap DOMAIN all
        PROVE  log[r][k].frames = all[k]
    <3>1. k \in DOMAIN asked[r]
      BY <2>1, <2>2
    <3> QED
      BY <2>1, <2>2, <3>1
  <2> QED
    BY <1>4, <2>3, <2>4 DEF InOrder
<1>8. RunnerInv(r)'
  BY <1>1, <1>4, <1>5, <1>6, <1>7 DEF RunnerInv, ScenarioOpen, StatesApart,
                                      StatesKnown, Serving
<1> QED
  BY <1>3, <1>8, OneRunner

(* The client asks for more, or sends something else, or reads an answer.  *)
LEMMA ClientKept ==
  ASSUME OpenInv, NEW r \in Runners,
         SendRequest(r) \/ SendOther(r) \/ CollectReply(r)
  PROVE  OpenInv'
<1>1. OpenTypeOK /\ RunnerInv(r)
  BY DEF OpenInv
<1>2. /\ requests[r] \in Seq(Frame) /\ asked[r] \in Seq(RequestMessages)
      /\ tidy[r] \in BOOLEAN
      /\ Len(log[r]) \in Nat /\ Len(asked[r]) \in Nat
      /\ Len(log[r]) <= Len(asked[r]) => Len(log[r]) + 1 \in 1..(Len(asked[r]) + 1)
      /\ tidy[r] => Len(log[r]) <= Len(asked[r])
  BY <1>1, LenProperties DEF OpenTypeOK, RunnerInv, InOrder
<1>3. /\ asked = [asked EXCEPT ![r] = asked[r]]
      /\ tidy = [tidy EXCEPT ![r] = tidy[r]]
  BY <1>1 DEF OpenTypeOK
<1>4. r \in peers /\ Len(log[r]) <= Len(asked[r]) =>
        Waiting(requests[r], asked[r], Len(log[r]) + 1, tidy[r])
  BY <1>1 DEF RunnerInv, Queued
<1>5. CASE SendRequest(r)
  <2>1. PICK m \in RequestMessages :
          /\ r \in peers /\ requests' = [requests EXCEPT ![r] = @ \o m]
          /\ asked' = IF tidy[r] THEN [asked EXCEPT ![r] = Append(@, m)] ELSE asked
          /\ peers' = peers /\ tidy' = tidy
          /\ UNCHANGED <<main, actor, pipe, cucumber, built, live, log>>
    BY <1>5 DEF SendRequest, ClientSends, Send, stepsVars
  <2>2. m \in Seq(Frame)
    BY RequestShape
  <2>3. CASE tidy[r]
    <3>1. /\ Append(asked[r], m) \in Seq(RequestMessages)
          /\ Len(Append(asked[r], m)) = Len(asked[r]) + 1
          /\ \A k \in 1..Len(asked[r]) : Append(asked[r], m)[k] = asked[r][k]
      BY <1>2, AppendProperties
    <3>2. tidy[r] = TRUE
      BY <1>2, <2>3
    <3>3. Pending(requests[r], asked[r], Len(log[r]) + 1)
      BY <1>2, <1>4, <2>1, <3>2, WaitingClean
    <3>4. Pending(requests[r] \o m, Append(asked[r], m), Len(log[r]) + 1)
      BY <1>2, <2>3, <3>3, PendingRequest
    <3>5. requests[r] \o m \in Seq(Frame)
      BY <1>2, <2>2, ConcatProperties
    <3>6. Waiting(requests[r] \o m, Append(asked[r], m), Len(log[r]) + 1, tidy[r])
      BY <3>2, <3>4, <3>5, WaitingClean, Zenon
    <3>7. asked' = [asked EXCEPT ![r] = Append(asked[r], m)]
      BY <2>1, <2>3
    <3>8. Len(asked[r]) <= Len(Append(asked[r], m))
      BY <1>2, <3>1
    <3>9. tidy' = [tidy EXCEPT ![r] = tidy[r]]
      BY <1>3, <2>1
    <3> QED
      BY <1>2, <2>1, <2>2, <2>3, <3>1, <3>6, <3>7, <3>8, <3>9, SentKept
  <2>4. CASE ~tidy[r]
    <3>1. tidy[r] = FALSE
      BY <1>2, <2>4
    <3>2. Len(log[r]) <= Len(asked[r]) =>
            Waiting(requests[r] \o m, asked[r], Len(log[r]) + 1, tidy[r])
      BY <1>4, <2>1, <2>2, <3>1, WaitingStill, Zenon
    <3>3. /\ asked' = [asked EXCEPT ![r] = asked[r]]
          /\ tidy' = [tidy EXCEPT ![r] = tidy[r]]
      BY <1>3, <2>1, <2>4, Zenon
    <3>4. Len(asked[r]) <= Len(asked[r])
      BY <1>2
    <3> QED
      BY <1>2, <2>1, <2>2, <3>2, <3>3, <3>4, SentKept
  <2> QED
    BY <2>3, <2>4
<1>6. CASE SendOther(r)
  <2>1. PICK m \in OtherMessages :
          /\ r \in peers /\ requests' = [requests EXCEPT ![r] = @ \o m]
          /\ tidy' = [tidy EXCEPT ![r] = @ /\ ~HoldsCommand(m)]
          /\ peers' = peers
          /\ UNCHANGED <<main, actor, pipe, cucumber, built, live, log, asked>>
    BY <1>6 DEF SendOther, ClientSends, Send, stepsVars
  <2> DEFINE clean == tidy[r] /\ ~HoldsCommand(m)
  <2>2. m \in Seq(Frame)
    BY OtherShape
  <2>3. /\ clean \in BOOLEAN /\ (clean => tidy[r])
        /\ tidy' = [tidy EXCEPT ![r] = clean]
        /\ asked' = [asked EXCEPT ![r] = asked[r]]
    BY <1>2, <1>3, <2>1, Zenon
  <2>4. ASSUME Len(log[r]) <= Len(asked[r])
        PROVE  Waiting(requests[r] \o m, asked[r], Len(log[r]) + 1, clean)
    <3>1. Waiting(requests[r], asked[r], Len(log[r]) + 1, tidy[r])
      BY <1>4, <2>1, <2>4
    <3>2. CASE clean
      <4>1. /\ ~HoldsCommand(m) /\ clean = TRUE /\ tidy[r] = TRUE
        BY <1>2, <3>2, Zenon
      <4>2. Waiting(requests[r] \o m, asked[r], Len(log[r]) + 1, tidy[r])
        BY <1>2, <2>4, <3>1, <4>1, WaitingOther
      <4> QED
        BY <4>1, <4>2, Zenon
    <3>3. CASE ~clean
      <4>1. clean = FALSE
        BY <2>3, <3>3, Zenon
      <4>2. Waiting(requests[r] \o m, asked[r], Len(log[r]) + 1, FALSE)
        BY <2>2, <3>1, WaitingStill, Zenon
      <4> QED
        BY <4>1, <4>2, Zenon
    <3> QED
      BY <3>2, <3>3
  <2> HIDE DEF clean
  <2>5. Len(asked[r]) <= Len(asked[r])
    BY <1>2
  <2> QED
    BY <1>2, <2>1, <2>2, <2>3, <2>4, <2>5, SentKept
<1>7. CASE CollectReply(r)
  <2>1. UNCHANGED <<main, actor, pipe, cucumber, built, live, log, tidy, asked,
                    requests, peers>>
    BY <1>7 DEF CollectReply, Receive, stepsVars, clientVars
  <2>2. OpenTypeOK' /\ \A s \in Runners : Untouched(s)
    BY <1>1, <2>1 DEF OpenTypeOK, Untouched
  <2> QED
    BY <1>1, <2>2, UntouchedKept, OneRunner
<1> QED
  BY <1>5, <1>6, <1>7

(* The invariant holds at first.                                           *)
LEMMA OpenInvInit == OpenInit => OpenInv
<1> SUFFICES ASSUME OpenInit PROVE OpenInv
  OBVIOUS
<1>1. OpenTypeOK
  <2>1. /\ <<>> \in Seq(Frame) /\ <<>> \in Seq(Entry) /\ <<>> \in Seq(RequestMessages)
        /\ <<>> \in Seq({"VERBOSE", "$TERM"} \cup AppCommands)
    OBVIOUS
  <2> QED
    BY <2>1 DEF OpenInit, StepsInit, TransportInit, OpenTypeOK, MainStates, ActorStates
<1>2. ASSUME NEW r \in Runners PROVE RunnerInv(r)
  <2>1. /\ main[r] = "boot" /\ actor[r] = "none" /\ cucumber[r] = NULL
        /\ log[r] = <<>> /\ asked[r] = <<>> /\ requests[r] = <<>> /\ live[r] = {}
        /\ peers = {}
    BY DEF OpenInit, StepsInit, TransportInit
  <2> QED
    BY <2>1 DEF RunnerInv, Connection, Serving, InOrder, Queued, ScenarioOpen, Fates,
                StatesApart, Fresh, StatesKnown
<1> QED
  BY <1>1, <1>2 DEF OpenInv

(* The steps there are.                                                    *)
LEMMA OpenSteps ==
  ASSUME OpenNext
  PROVE  \E r \in Runners :
           \/ (MainThread(r) \/ MainInput(r)) /\ UNCHANGED clientVars
           \/ (ActorThread(r) \/ AwaitFrame(r)) /\ UNCHANGED clientVars
           \/ SendRequest(r) \/ SendOther(r) \/ CollectReply(r)
<1>1. PICK r \in Runners :
        \/ (MainThread(r) \/ MainInput(r)) /\ UNCHANGED <<reading, clientVars>>
        \/ OpenActor(r) /\ UNCHANGED clientVars
        \/ SendRequest(r) \/ SendOther(r) \/ CollectReply(r)
  BY Zenon DEF OpenNext
<1>2. OpenActor(r) => ActorThread(r) \/ AwaitFrame(r)
  BY Zenon DEF OpenActor, ActorThread
<1>3. UNCHANGED <<reading, clientVars>> => UNCHANGED clientVars
  OBVIOUS
<1> QED
  BY <1>1, <1>2, <1>3, Zenon

(* Every step keeps it.                                                    *)
LEMMA OpenInvNext == OpenInv /\ [OpenNext]_openVars => OpenInv'
<1> SUFFICES ASSUME OpenInv, [OpenNext]_openVars PROVE OpenInv'
  OBVIOUS
<1>1. CASE UNCHANGED openVars
  <2>1. OpenTypeOK' /\ \A r \in Runners : Untouched(r)
    BY <1>1 DEF OpenInv, OpenTypeOK, Untouched, openVars, clientVars, stepsVars,
                transportVars
  <2> QED
    BY <2>1, UntouchedKept DEF OpenInv
<1>2. ASSUME NEW r \in Runners, ActorThread(r), UNCHANGED clientVars
      PROVE  OpenInv'
  <2>1. CASE CucumberStepsNew(r) \/ RecvVerbose(r) \/ RecvTerm(r) \/ IgnoreFrame(r)
    BY <1>2, <2>1, ActorKept
  <2>2. CASE StartScenario(r)
    BY <1>2, <2>2, StartKept
  <2>3. CASE EndScenario(r)
    BY <1>2, <2>3, EndKept
  <2>4. CASE RunStep(r) \/ StepNotFound(r)
    BY <1>2, <2>4, StepKept
  <2>5. CASE CucumberStepsDestroy(r)
    BY <1>2, <2>5, DestroyKept
  <2>6. CASE RecvInvalid(r) \/ StepCrashes(r) \/ StepUnscoped(r)
    <3>1. actor[r] = "loop" /\ Die(r)
      BY <2>6, Zenon DEF RecvInvalid, StepCrashes, StepUnscoped, HasCommand,
                         StepRequested, HasRequest
    <3> QED
      BY <1>2, <3>1, DieKept
  <2> QED
    BY <1>2, <2>1, <2>2, <2>3, <2>4, <2>5, <2>6, Zenon DEF ActorThread, RecvApi, RecvPickle
<1>3. ASSUME NEW r \in Runners, AwaitFrame(r), UNCHANGED clientVars
      PROVE  OpenInv'
  <2>1. OpenTypeOK' /\ \A s \in Runners : Untouched(s)
    BY <1>3 DEF OpenInv, OpenTypeOK, Untouched, AwaitFrame, clientVars, stepsVars,
                transportVars
  <2> QED
    BY <2>1, UntouchedKept DEF OpenInv
<1>4. CASE OpenNext
  <2>1. PICK r \in Runners :
          \/ (MainThread(r) \/ MainInput(r)) /\ UNCHANGED clientVars
          \/ (ActorThread(r) \/ AwaitFrame(r)) /\ UNCHANGED clientVars
          \/ SendRequest(r) \/ SendOther(r) \/ CollectReply(r)
    BY <1>4, OpenSteps
  <2> QED
    BY <1>2, <1>3, <2>1, MainKept, ClientKept, Zenon
<1> QED
  BY <1>1, <1>4

-----------------------------------------------------------------------------
(***************************************************************************)
(* The theorems.                                                           *)
(***************************************************************************)

(* The inductive invariant, of every number of step runners and of         *)
(* messages, of whatever frames, with every state constructor, destructor  *)
(* and step definition.                                                    *)
THEOREM OpenInvariant == OpenSpec => []OpenInv
BY OpenInvInit, OpenInvNext, PTL DEF OpenSpec

(* Requests are handled in the order they were sent, each with all of its  *)
(* frames, whatever is sent between them that has no command in it; and    *)
(* whatever is sent afterwards.                                            *)
THEOREM HandlesInOrder == OpenSpec => []HandledInOrder
<1>1. OpenInv => HandledInOrder
  BY DEF OpenInv, RunnerInv, InOrder, HandledInOrder
<1> QED
  BY <1>1, OpenInvariant, PTL

(* What is live of the states is what the requests account for: a state is *)
(* destroyed with its scenario or with the actor, one whose scenario is    *)
(* overwritten never.                                                      *)
THEOREM AccountsForStates == OpenSpec => []StatesAccounted
<1>1. ASSUME OpenInv, NEW r \in Constructing \cap Destructing
      PROVE  /\ actor[r] \in {"loop", "terminated"} => live[r] = StatesLeft(log[r])
             /\ actor[r] = "gone" => live[r] = StatesLost(log[r])
  <2>1. r \in Runners
    BY StepsAssumption DEF StepsAssumption
  <2> QED
    BY <1>1, <2>1, Zenon DEF OpenInv, RunnerInv, StatesKnown, Serving
<1>2. OpenInv => StatesAccounted
  BY <1>1 DEF StatesAccounted
<1> QED
  BY <1>2, OpenInvariant, PTL

(* No step kills its process and the application sends only what the actor *)
(* knows.                                                                  *)
NoOtherDeath == Crashing = {} /\ AppCommands \subseteq {"VERBOSE", "$TERM"}

(* The actor thread of s works on what is its own.                         *)
LEMMA ActorChanges ==
  ASSUME OpenTypeOK, NEW s \in Runners, ActorThread(s)
  PROVE  /\ \E place : actor' = [actor EXCEPT ![s] = place]
         /\ \E entries : log' = [log EXCEPT ![s] = entries]
<1>1. /\ actor = [actor EXCEPT ![s] = actor[s]]
      /\ log = [log EXCEPT ![s] = log[s]]
  BY DEF OpenTypeOK
<1>2. CASE UNCHANGED log
  <2>1. \E place : actor' = [actor EXCEPT ![s] = place]
    BY <1>1, Zenon DEF ActorThread, RecvApi, RecvPickle, CucumberStepsNew, RecvVerbose, RecvTerm, RecvInvalid,
                       CucumberStepsDestroy, StartScenario, EndScenario, RunStep,
                       StepNotFound, StepCrashes, StepUnscoped, IgnoreFrame, Die,
                       stepsVars
  <2> QED
    BY <1>1, <1>2, <2>1
<1>3. CASE StartScenario(s) \/ EndScenario(s) \/ RunStep(s) \/ StepNotFound(s)
  <2>1. actor' = actor
    BY <1>3, Zenon DEF StartScenario, EndScenario, RunStep, StepNotFound
  <2>2. \E entries : log' = [log EXCEPT ![s] = entries]
    BY <1>3, Zenon DEF StartScenario, EndScenario, RunStep, StepNotFound, Handled
  <2> QED
    BY <1>1, <2>1, <2>2
<1>4. \/ UNCHANGED log
      \/ StartScenario(s) \/ EndScenario(s) \/ RunStep(s) \/ StepNotFound(s)
  BY Zenon DEF ActorThread, RecvApi, RecvPickle, CucumberStepsNew, RecvVerbose, RecvTerm, RecvInvalid,
               CucumberStepsDestroy, StepCrashes, StepUnscoped, IgnoreFrame, Die,
               stepsVars
<1> QED
  BY <1>2, <1>3, <1>4

(* It kills its process only at a step outside of a scenario.              *)
LEMMA DeathOfStep ==
  ASSUME NoOtherDeath, OpenTypeOK, NEW r \in Runners, ActorThread(r),
         actor'[r] = "dead"
  PROVE  StepUnscoped(r)
<1>1. actor[r] # "dead"
  BY Zenon DEF ActorThread, RecvApi, RecvPickle, CucumberStepsNew, RecvVerbose, RecvTerm, RecvInvalid,
               CucumberStepsDestroy, StartScenario, EndScenario, RunStep, StepNotFound,
               StepCrashes, StepUnscoped, IgnoreFrame, HasCommand, HasRequest,
               StepRequested
<1>2. actor' # actor
  BY <1>1
<1>3. \/ CucumberStepsNew(r) \/ RecvTerm(r) \/ RecvInvalid(r)
      \/ CucumberStepsDestroy(r) \/ StepCrashes(r) \/ StepUnscoped(r)
  BY <1>2, Zenon DEF ActorThread, RecvApi, RecvPickle, RecvVerbose, StartScenario, EndScenario, RunStep,
                     StepNotFound, IgnoreFrame, stepsVars
<1>4. ~CucumberStepsNew(r) /\ ~RecvTerm(r) /\ ~CucumberStepsDestroy(r)
  BY DEF CucumberStepsNew, RecvTerm, CucumberStepsDestroy, OpenTypeOK
<1>5. ~RecvInvalid(r)
  <2> SUFFICES ASSUME RecvInvalid(r) PROVE FALSE
    OBVIOUS
  <2>1. /\ pipe[r] # <<>> /\ pipe[r] \in Seq({"VERBOSE", "$TERM"} \cup AppCommands)
        /\ Head(pipe[r]) \notin {"VERBOSE", "$TERM"}
    BY DEF RecvInvalid, HasCommand, OpenTypeOK
  <2>2. Head(pipe[r]) \in {"VERBOSE", "$TERM"} \cup AppCommands
    BY <2>1
  <2> QED
    BY <2>1, <2>2 DEF NoOtherDeath
<1>6. ~StepCrashes(r)
  BY DEF StepCrashes, NoOtherDeath
<1> QED
  BY <1>3, <1>4, <1>5, <1>6

(* A step runner dies with a step at the front of its queue and no         *)
(* scenario open, and a dead one stays as it is.                           *)
LEMMA DeathKept ==
  ASSUME NoOtherDeath
  PROVE  OpenInv /\ DiesOfUnscopedStep /\ [OpenNext]_openVars => DiesOfUnscopedStep'
<1> SUFFICES ASSUME OpenInv, DiesOfUnscopedStep, [OpenNext]_openVars,
                    NEW r \in Runners, actor'[r] = "dead"
             PROVE  /\ ~InScenario(log'[r])
                    /\ IF Len(log'[r]) < Len(asked'[r])
                       THEN asked'[r][Len(log'[r]) + 1][1] = "RUN STEP"
                       ELSE ~tidy'[r]
  BY Zenon DEF DiesOfUnscopedStep
<1> DEFINE command == "RUN STEP"
           Doomed(l, all, clean) ==
             /\ ~InScenario(l)
             /\ IF Len(l) < Len(all) THEN all[Len(l) + 1][1] = command ELSE ~clean
<1>1. /\ OpenTypeOK /\ RunnerInv(r)
      /\ actor[r] = "dead" => Doomed(log[r], asked[r], tidy[r])
  BY Zenon DEF OpenInv, DiesOfUnscopedStep
<1> SUFFICES Doomed(log'[r], asked'[r], tidy'[r])
  BY Zenon
<1>2. ASSUME log'[r] = log[r], asked'[r] = asked[r], tidy'[r] = tidy[r],
             actor[r] = "dead"
      PROVE  Doomed(log'[r], asked'[r], tidy'[r])
  BY <1>1, <1>2, Zenon
<1>3. ASSUME StepUnscoped(r), UNCHANGED clientVars
      PROVE  Doomed(log'[r], asked'[r], tidy'[r])
  <2>1. /\ HasRequest(r, command) /\ cucumber[r] = NULL /\ actor[r] = "loop"
        /\ log' = log /\ asked' = asked /\ tidy' = tidy
    BY <1>3, Zenon DEF StepUnscoped, HasRequest, Die, clientVars
  <2>2. ~InScenario(log[r])
    BY <1>1, <2>1 DEF RunnerInv, ScenarioOpen, Serving
  <2>3. command \in Commands
    BY DEF Commands
  <2> HIDE DEF command
  <2>4. IF Len(log[r]) + 1 <= Len(asked[r])
        THEN asked[r][Len(log[r]) + 1][1] = command
        ELSE ~tidy[r]
    BY <1>1, <2>1, <2>3, NextRequest
  <2>5. Len(log[r]) \in Nat /\ Len(asked[r]) \in Nat
    BY <1>1, LenProperties DEF OpenTypeOK
  <2>6. Len(log[r]) < Len(asked[r]) <=> Len(log[r]) + 1 <= Len(asked[r])
    BY <2>5
  <2> QED
    BY <2>1, <2>2, <2>4, <2>6, Zenon
<1>4. UNCHANGED openVars \/ \E s \in Runners :
        \/ (MainThread(s) \/ MainInput(s)) /\ UNCHANGED clientVars
        \/ (ActorThread(s) \/ AwaitFrame(s)) /\ UNCHANGED clientVars
        \/ SendRequest(s) \/ SendOther(s) \/ CollectReply(s)
  BY OpenSteps, Zenon
<1> HIDE DEF Doomed
<1> USE DEF clientVars
<1>5. ASSUME log'[r] = log[r], asked'[r] = asked[r], tidy'[r] = tidy[r],
             actor'[r] = actor[r]
      PROVE  Doomed(log'[r], asked'[r], tidy'[r])
  BY <1>2, <1>5
<1>6. ASSUME NEW s \in Runners, ActorThread(s), UNCHANGED clientVars
      PROVE  Doomed(log'[r], asked'[r], tidy'[r])
  <2>1. CASE s # r
    <3>1. /\ \E place : actor' = [actor EXCEPT ![s] = place]
          /\ \E entries : log' = [log EXCEPT ![s] = entries]
      BY <1>1, <1>6, ActorChanges
    <3> QED
      BY <1>1, <1>5, <1>6, <2>1, <3>1 DEF OpenTypeOK
  <2>2. CASE s = r
    <3>1. StepUnscoped(r)
      BY <1>1, <1>6, <2>2, DeathOfStep
    <3> QED
      BY <1>3, <1>6, <3>1
  <2> QED
    BY <2>1, <2>2
<1>7. ASSUME NEW s \in Runners, MainThread(s) \/ MainInput(s), UNCHANGED clientVars
      PROVE  Doomed(log'[r], asked'[r], tidy'[r])
  <2>1. log' = log /\ (actor' = actor \/ actor' = [actor EXCEPT ![s] = "init"])
    BY <1>7 DEF MainThread, MainInput, StartActor, ActorStarted, DestroyActor, Exit,
                AppSends, EndOfInput
  <2>2. actor'[r] = actor[r]
    BY <1>1, <2>1 DEF OpenTypeOK
  <2> QED
    BY <1>5, <1>7, <2>1, <2>2
<1>8. ASSUME NEW s \in Runners, SendRequest(s) \/ SendOther(s)
      PROVE  Doomed(log'[r], asked'[r], tidy'[r])
  <2>1. s \in peers /\ UNCHANGED <<log, actor>>
    BY <1>8 DEF SendRequest, SendOther, ClientSends, stepsVars
  <2>2. s # r
    BY <1>1, <2>1 DEF RunnerInv, Connection, Serving
  <2>3. asked'[r] = asked[r] /\ tidy'[r] = tidy[r]
    BY <1>1, <1>8, <2>2 DEF SendRequest, SendOther, OpenTypeOK
  <2> QED
    BY <1>5, <2>1, <2>3
<1>9. ASSUME NEW s \in Runners, CollectReply(s) \/ (AwaitFrame(s) /\ UNCHANGED clientVars)
      PROVE  Doomed(log'[r], asked'[r], tidy'[r])
  BY <1>5, <1>9 DEF CollectReply, AwaitFrame, stepsVars
<1>10. CASE UNCHANGED openVars
  BY <1>5, <1>10 DEF openVars, stepsVars
<1> HIDE DEF clientVars
<1> QED
  BY <1>4, <1>6, <1>7, <1>8, <1>9, <1>10

(* When no step kills its process and the application sends only what the  *)
(* actor knows, a step runner dies of nothing but a step outside of a      *)
(* scenario.                                                               *)
THEOREM DiesOfUnscopedSteps ==
  ASSUME NoOtherDeath
  PROVE  OpenSpec => []DiesOfUnscopedStep
<1>1. OpenInit => DiesOfUnscopedStep
  BY DEF OpenInit, StepsInit, DiesOfUnscopedStep
<1>2. OpenInv /\ DiesOfUnscopedStep /\ [OpenNext]_openVars => DiesOfUnscopedStep'
  BY DeathKept
<1> QED
  BY <1>1, <1>2, OpenInvariant, PTL DEF OpenSpec

=============================================================================
