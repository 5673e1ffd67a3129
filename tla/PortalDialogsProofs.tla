------------------------- MODULE PortalDialogsProofs -------------------------
(***************************************************************************)
(* What holds of PortalDialogs for any number of requests: the queue, the  *)
(* screen and the waiting calls agree, and the backend with its shell      *)
(* implements DialogPromise.                                               *)
(*                                                                         *)
(* The line of those that wait has no request twice and not the one that   *)
(* shows; so the answer of a dialog is that of one request, and Honest, the *)
(* link between what the shell answers and what the user said, survives    *)
(* the requests answered in passing.                                       *)
(***************************************************************************)
EXTENDS PortalDialogs, SequenceTheorems, TLAPS

-----------------------------------------------------------------------------
\* Lines of requests.

\* What is where once the entry at i of a line is taken out.
LEMMA WithoutAt ==
  ASSUME NEW S, NEW line \in Seq(S), NEW i \in 1 .. Len(line)
  PROVE  /\ Without(line, i) \in Seq(S) /\ Len(Without(line, i)) = Len(line) - 1
         /\ \A j \in 1 .. Len(line) - 1 :
              Without(line, i)[j] = IF j < i THEN line[j] ELSE line[j + 1]
<1> DEFINE front == SubSeq(line, 1, i - 1)
           back  == SubSeq(line, i + 1, Len(line))
           w     == Without(line, i)
<1>0. Len(line) \in Nat /\ i \in Int /\ 1 <= i /\ i <= Len(line)
  OBVIOUS
<1>1. /\ front \in Seq(S) /\ Len(front) = i - 1
      /\ \A j \in 1 .. i - 1 : front[j] = line[j]
  BY <1>0, SubSeqProperties
<1>2. /\ back \in Seq(S) /\ Len(back) = Len(line) - i
      /\ \A j \in 1 .. Len(line) - i : back[j] = line[i + j]
  BY <1>0, SubSeqProperties
<1>3. w = front \o back
  BY DEF Without
<1> HIDE DEF front, back, w
<1>4. /\ w \in Seq(S) /\ Len(w) = Len(line) - 1
      /\ \A j \in 1 .. Len(line) - 1 :
           w[j] = IF j <= Len(front) THEN front[j] ELSE back[j - Len(front)]
  <2>1. Len(front) + Len(back) = Len(line) - 1
    BY <1>0, <1>1, <1>2
  <2>2. /\ front \o back \in Seq(S) /\ Len(front \o back) = Len(front) + Len(back)
        /\ \A j \in 1 .. Len(front) + Len(back) : (front \o back)[j] =
             IF j <= Len(front) THEN front[j] ELSE back[j - Len(front)]
    <3> front \in Seq(S) /\ back \in Seq(S)
      BY <1>1, <1>2
    <3> HIDE <1>1, <1>2
    <3> QED
      BY ConcatProperties
  <2> QED
    BY <2>1, <2>2, <1>3
<1>5. \A j \in 1 .. Len(line) - 1 : w[j] = IF j < i THEN line[j] ELSE line[j + 1]
  <2> SUFFICES ASSUME NEW j \in 1 .. Len(line) - 1
               PROVE  w[j] = IF j < i THEN line[j] ELSE line[j + 1]
    OBVIOUS
  <2>1. w[j] = IF j <= Len(front) THEN front[j] ELSE back[j - Len(front)]
    BY <1>4
  <2>2. CASE j < i
    BY <2>1, <2>2, <1>0, <1>1
  <2>3. CASE j >= i
    <3>1. j - (i - 1) \in 1 .. Len(line) - i /\ i + (j - (i - 1)) = j + 1
      BY <2>3, <1>0
    <3> QED
      BY <2>1, <2>3, <3>1, <1>0, <1>1, <1>2
  <2> QED
    BY <2>2, <2>3, <1>0
<1> QED
  BY <1>4, <1>5 DEF w

\* Taking out the entry at i of a line without repetitions takes out that
\* request and nothing else.
LEMMA WithoutEntry ==
  ASSUME NEW S, NEW line \in Seq(S), Distinct(line), NEW i \in 1 .. Len(line)
  PROVE  /\ Without(line, i) \in Seq(S)
         /\ Distinct(Without(line, i))
         /\ Entries(Without(line, i)) = Entries(line) \ {line[i]}
<1> DEFINE w == Without(line, i)
<1>0. Len(line) \in Nat /\ i \in Int /\ 1 <= i /\ i <= Len(line)
  OBVIOUS
<1>1. w \in Seq(S) /\ Len(w) = Len(line) - 1
  BY WithoutAt
<1>2. \A j \in 1 .. Len(line) - 1 : w[j] = IF j < i THEN line[j] ELSE line[j + 1]
  BY WithoutAt
<1> HIDE DEF w
<1>3. Distinct(w)
  BY <1>0, <1>1, <1>2 DEF Distinct
<1>4. Entries(w) = Entries(line) \ {line[i]}
  <2>1. ASSUME NEW j \in 1 .. Len(w)
        PROVE  w[j] \in Entries(line) \ {line[i]}
    <3>1. j \in 1 .. Len(line) - 1 /\ j + 1 \in 1 .. Len(line) /\ j \in 1 .. Len(line)
      BY <2>1, <1>0, <1>1
    <3>2. CASE j < i
      BY <3>1, <3>2, <1>0, <1>2 DEF Entries, Distinct
    <3>3. CASE ~(j < i)
      <4>1. j + 1 # i
        BY <3>1, <3>3, <1>0
      <4> QED
        BY <3>1, <3>3, <4>1, <1>0, <1>2 DEF Entries, Distinct
    <3> QED
      BY <3>2, <3>3
  <2>2. ASSUME NEW j \in 1 .. Len(line), line[j] # line[i]
        PROVE  line[j] \in Entries(w)
    <3>1. CASE j < i
      <4>1. j \in 1 .. Len(w) /\ w[j] = line[j]
        BY <3>1, <1>0, <1>1, <1>2
      <4> QED
        BY <4>1 DEF Entries
    <3>2. CASE j > i
      <4>1. j - 1 \in 1 .. Len(w) /\ w[j - 1] = line[j]
        BY <3>2, <1>0, <1>1, <1>2
      <4> QED
        BY <4>1 DEF Entries
    <3> QED
      BY <2>2, <3>1, <3>2
  <2> QED
    BY <2>1, <2>2 DEF Entries
<1> QED
  BY <1>1, <1>3, <1>4 DEF w

\* One that is not in the line may join at its end.
LEMMA AppendedEntry ==
  ASSUME NEW S, NEW line \in Seq(S), Distinct(line),
         NEW r \in S, r \notin Entries(line)
  PROVE  /\ Append(line, r) \in Seq(S)
         /\ Distinct(Append(line, r))
         /\ Entries(Append(line, r)) = Entries(line) \cup {r}
<1> DEFINE w == Append(line, r)
<1>1. /\ w \in Seq(S) /\ Len(w) = Len(line) + 1 /\ Len(line) \in Nat
      /\ \A j \in 1 .. Len(line) : w[j] = line[j]
      /\ w[Len(line) + 1] = r
  OBVIOUS
<1>2. Distinct(w)
  BY <1>1 DEF Distinct, Entries
<1>3. Entries(w) = Entries(line) \cup {r}
  <2>1. \A j \in 1 .. Len(w) : w[j] \in Entries(line) \cup {r}
    BY <1>1 DEF Entries
  <2>2. \A j \in 1 .. Len(line) : line[j] \in Entries(w)
    BY <1>1 DEF Entries
  <2>3. r \in Entries(w)
    BY <1>1 DEF Entries
  <2> QED
    BY <2>1, <2>2, <2>3 DEF Entries
<1> QED
  BY <1>1, <1>2, <1>3

\* Behind the n refused of a line and the one that shows, the rest waits.
LEMMA RestOfLine ==
  ASSUME NEW S, NEW line \in Seq(S), Distinct(line), NEW n \in 0 .. Len(line)
  PROVE  LET rest == SubSeq(line, n + 2, Len(line)) IN
         /\ rest \in Seq(S)
         /\ Distinct(rest)
         /\ n = Len(line) => rest = << >>
         /\ \A q \in Entries(rest) :
              q \in Entries(line) /\ \A i \in 1 .. n + 1 :
                i <= Len(line) => line[i] # q
         /\ \A j \in 1 .. Len(line) : j > n + 1 => line[j] \in Entries(rest)
<1> DEFINE rest == SubSeq(line, n + 2, Len(line))
<1>0. Len(line) \in Nat /\ n \in Nat /\ n <= Len(line)
  OBVIOUS
<1>1. rest \in Seq(S)
  BY <1>0, SubSeqProperties
<1>2. CASE n + 1 >= Len(line)
  <2>1. Len(rest) = 0
    BY <1>0, <1>2, SubSeqProperties
  <2>2. rest = << >>
    BY <1>1, <2>1
  <2>3. Entries(rest) = {}
    BY <2>1 DEF Entries
  <2> QED
    BY <1>0, <1>1, <1>2, <2>1, <2>2, <2>3 DEF Distinct
<1>3. CASE n + 1 < Len(line)
  <2>1. /\ Len(rest) = Len(line) - n - 1
        /\ \A j \in 1 .. Len(line) - n - 1 : rest[j] = line[n + 1 + j]
    BY <1>0, <1>3, SubSeqProperties
  <2>2. Distinct(rest)
    BY <1>0, <1>3, <2>1 DEF Distinct
  <2>3. ASSUME NEW q \in Entries(rest)
        PROVE  q \in Entries(line) /\ \A i \in 1 .. n + 1 :
                 i <= Len(line) => line[i] # q
    <3>1. PICK j \in 1 .. Len(line) - n - 1 : q = line[n + 1 + j]
      BY <2>1, <2>3 DEF Entries
    <3> QED
      BY <3>1, <1>0, <1>3 DEF Entries, Distinct
  <2>4. ASSUME NEW j \in 1 .. Len(line), j > n + 1
        PROVE  line[j] \in Entries(rest)
    <3>1. j - n - 1 \in 1 .. Len(rest) /\ rest[j - n - 1] = line[j]
      BY <1>0, <1>3, <2>1, <2>4
    <3> QED
      BY <3>1 DEF Entries
  <2> QED
    BY <1>0, <1>1, <1>3, <2>2, <2>3, <2>4
<1> QED
  BY <1>0, <1>2, <1>3

\* r is in the line ahead of q.
InOrder(line, r, q) ==
  \E i, j \in 1 .. Len(line) : i < j /\ line[i] = r /\ line[j] = q

\* Who is served does not change the order of the others.
LEMMA OrderWithout ==
  ASSUME NEW S, NEW line \in Seq(S), Distinct(line), NEW i \in 1 .. Len(line),
         NEW r \in Entries(Without(line, i)), NEW q \in Entries(Without(line, i)),
         InOrder(line, r, q)
  PROVE  InOrder(Without(line, i), r, q)
<1> DEFINE w == Without(line, i)
<1>0. Len(line) \in Nat /\ i \in Int
  OBVIOUS
<1>1. /\ Len(w) = Len(line) - 1
      /\ \A j \in 1 .. Len(line) - 1 : w[j] = IF j < i THEN line[j] ELSE line[j + 1]
  BY WithoutAt
<1>2. PICK a, b \in 1 .. Len(line) : a < b /\ line[a] = r /\ line[b] = q
  BY DEF InOrder
<1>3. line[i] # r /\ line[i] # q
  BY WithoutEntry
<1>4. a # i /\ b # i
  BY <1>2, <1>3
<1> HIDE DEF w
<1>5. PICK c \in 1 .. Len(w) : w[c] = r /\ c = IF a < i THEN a ELSE a - 1
  <2>1. CASE a < i
    BY <1>0, <1>1, <1>2, <1>4, <2>1
  <2>2. CASE a > i
    <3>1. a - 1 \in 1 .. Len(line) - 1 /\ ~(a - 1 < i) /\ (a - 1) + 1 = a /\ ~(a < i)
      BY <1>0, <2>2
    <3> QED
      BY <1>1, <1>2, <3>1
  <2> QED
    BY <1>0, <1>4, <2>1, <2>2
<1>6. PICK d \in 1 .. Len(w) : w[d] = q /\ d = IF b < i THEN b ELSE b - 1
  <2>1. CASE b < i
    BY <1>0, <1>1, <1>2, <1>4, <2>1
  <2>2. CASE b > i
    <3>1. b - 1 \in 1 .. Len(line) - 1 /\ ~(b - 1 < i) /\ (b - 1) + 1 = b /\ ~(b < i)
      BY <1>0, <2>2
    <3> QED
      BY <1>1, <1>2, <3>1
  <2> QED
    BY <1>0, <1>4, <2>1, <2>2
<1>7. c < d
  BY <1>0, <1>2, <1>4, <1>5, <1>6
<1>8. InOrder(w, r, q)
  BY <1>5, <1>6, <1>7 DEF InOrder
<1> QED
  BY <1>8 DEF w

LEMMA OrderOfRest ==
  ASSUME NEW S, NEW line \in Seq(S), Distinct(line), NEW n \in 0 .. Len(line),
         NEW r \in Entries(SubSeq(line, n + 2, Len(line))), NEW q,
         InOrder(line, r, q)
  PROVE  /\ n < Len(line) /\ line[n + 1] # q
         /\ q \in Entries(SubSeq(line, n + 2, Len(line)))
              => InOrder(SubSeq(line, n + 2, Len(line)), r, q)
<1> DEFINE rest == SubSeq(line, n + 2, Len(line))
<1>0. Len(line) \in Nat /\ n \in Nat /\ n <= Len(line)
  OBVIOUS
<1>1. rest \in Seq(S)
  BY <1>0, SubSeqProperties
<1>2. n + 1 < Len(line)
  <2>1. CASE n + 1 >= Len(line)
    <3>1. Len(rest) = 0
      BY <1>0, <2>1, SubSeqProperties
    <3> HIDE DEF rest
    <3>2. Entries(rest) = {}
      BY <3>1 DEF Entries
    <3> QED
      BY <3>2 DEF rest
  <2> QED
    BY <1>0, <2>1
<1>3. /\ Len(rest) = Len(line) - n - 1
      /\ \A j \in 1 .. Len(line) - n - 1 : rest[j] = line[n + 1 + j]
  BY <1>0, <1>2, SubSeqProperties
<1>4. r \in Entries(rest)
  OBVIOUS
<1> HIDE DEF rest
<1>5. PICK c \in 1 .. Len(line) - n - 1 : r = line[n + 1 + c] /\ rest[c] = r
  BY <1>3, <1>4 DEF Entries
<1>6. PICK a, b \in 1 .. Len(line) : a < b /\ line[a] = r /\ line[b] = q
  BY DEF InOrder
<1>7. a = n + 1 + c
  BY <1>0, <1>2, <1>5, <1>6 DEF Distinct
<1>8. b > n + 2 /\ b - n - 1 \in 1 .. Len(line) - n - 1 /\ c < b - n - 1
  BY <1>0, <1>2, <1>6, <1>7
<1>9. line[n + 1] # q
  BY <1>0, <1>2, <1>6, <1>8 DEF Distinct
<1>10. InOrder(rest, r, q)
  <2>1. rest[b - n - 1] = q
    BY <1>0, <1>3, <1>6, <1>8
  <2> QED
    BY <1>3, <1>5, <1>8, <2>1 DEF InOrder
<1> QED
  BY <1>0, <1>2, <1>9, <1>10 DEF rest

-----------------------------------------------------------------------------
\* The invariant.

\* What the shell answers is what the user said, or a no the user had no part
\* in; as long as it has not answered, the user has said nothing.
Honest ==
  \A r \in Requests :
    /\ pc[r] = "idle" => shellCall[r] = "none"
    /\ shellCall[r] \in {"none", "sent", "held"} => said[r] = "nothing"
    /\ shellCall[r] = "yes" => said[r] = "yes"
    /\ shellCall[r] = "no" => said[r] # "yes"

Sound == TypeOK /\ EveryHandlerHasItsPlace /\ ScreenMatchesQueue
IInv == Sound /\ Honest

\* The types of what the shell's loop changes.
ShellTyped ==
  /\ shellCall \in [Requests -> Calls]
  /\ showing \in MaybeRequest /\ answer \in MaybeRequest
  /\ waiting \in Seq(Requests)
  /\ win \in MaybeRequest /\ closing \in BOOLEAN /\ mapped \subseteq Requests

\* A call is answered no in passing, or left alone.
OnlyRefuses(calls, after) ==
  \A q \in Requests :
    after[q] = calls[q] \/ (calls[q] = "held" /\ after[q] = "no")

LEMMA NoRequestIsNone == NoRequest \notin Requests
  BY DEF NoRequest, Requests

LEMMA Started ==
  ASSUME mapped = {win} \ {NoRequest},
         NEW line \in Seq(Requests), Distinct(line),
         NEW calls \in [Requests -> Calls],
         \A q \in Requests : calls[q] = "held" <=> q \in Entries(line),
         StartNext(line, calls)
  PROVE  /\ ShellTyped' /\ EveryHandlerHasItsPlace' /\ ScreenMatchesQueue'
         /\ OnlyRefuses(calls, shellCall')
<1>1. PICK n \in 0 .. Len(line) :
        /\ shellCall' = Refused(line, n, calls)
        /\ showing' = Shown(line, n) /\ answer' = Shown(line, n)
        /\ waiting' = SubSeq(line, n + 2, Len(line))
        /\ OpenOverlay(Shown(line, n))
  BY DEF StartNext
<1>2. Len(line) \in Nat /\ n \in Nat /\ n <= Len(line)
  OBVIOUS
<1>3. \A i \in 1 .. Len(line) : line[i] \in Requests
  OBVIOUS
<1>4. /\ n < Len(line) => n + 1 \in 1 .. Len(line) /\ showing' = line[n + 1]
      /\ n >= Len(line) => showing' = NoRequest
  BY <1>1, <1>2 DEF Shown
<1>5. showing' \in MaybeRequest
  BY <1>3, <1>4, <1>2 DEF MaybeRequest
<1>6. /\ waiting' \in Seq(Requests) /\ Distinct(waiting)'
      /\ n = Len(line) => waiting' = << >>
      /\ \A q \in Entries(waiting)' :
           q \in Entries(line) /\ \A i \in 1 .. n + 1 :
             i <= Len(line) => line[i] # q
      /\ \A j \in 1 .. Len(line) : j > n + 1 => line[j] \in Entries(waiting)'
  <2> DEFINE rest == SubSeq(line, n + 2, Len(line))
  <2>1. /\ rest \in Seq(Requests) /\ Distinct(rest)
        /\ n = Len(line) => rest = << >>
        /\ \A q \in Entries(rest) :
             q \in Entries(line) /\ \A i \in 1 .. n + 1 :
               i <= Len(line) => line[i] # q
        /\ \A j \in 1 .. Len(line) : j > n + 1 => line[j] \in Entries(rest)
    BY RestOfLine
  <2>2. waiting' = rest
    BY <1>1
  <2> HIDE DEF rest
  <2>3. Distinct(waiting)' /\ Entries(waiting)' = Entries(rest)
    BY <2>1, <2>2 DEF Distinct, Entries
  <2> QED
    BY <2>1, <2>2, <2>3
<1>7. ~Waits(showing)'
  <2>1. CASE n < Len(line)
    BY <2>1, <1>2, <1>4, <1>6 DEF Waits
  <2>2. CASE n = Len(line)
    BY <2>2, <1>2, <1>6 DEF Waits, Entries
  <2> QED
    BY <2>1, <2>2, <1>2
<1>8. shellCall' \in [Requests -> Calls] /\ OnlyRefuses(calls, shellCall')
  <2>1. \A q \in Requests : (\E i \in 1 .. n : line[i] = q) => calls[q] = "held"
    BY <1>2 DEF Entries
  <2> QED
    BY <1>1, <2>1 DEF Refused, OnlyRefuses, Calls
<1>9. \A q \in Requests : shellCall'[q] = "held" <=> (showing' = q \/ Waits(q)')
  <2> SUFFICES ASSUME NEW q \in Requests
               PROVE  shellCall'[q] = "held" <=> (showing' = q \/ Waits(q)')
    OBVIOUS
  <2>1. ASSUME shellCall'[q] = "held" PROVE showing' = q \/ Waits(q)'
    <3>1. q \in Entries(line) /\ ~\E i \in 1 .. n : line[i] = q
      BY <1>1, <2>1 DEF Refused
    <3>2. PICK j \in 1 .. Len(line) : q = line[j]
      BY <3>1 DEF Entries
    <3>3. j > n
      BY <1>2, <3>1, <3>2
    <3>4. CASE j = n + 1
      BY <1>2, <1>4, <3>2, <3>4
    <3>5. CASE j > n + 1
      BY <1>6, <3>2, <3>5 DEF Waits
    <3> QED
      BY <1>2, <3>3, <3>4, <3>5
  <2>2. ASSUME showing' = q PROVE shellCall'[q] = "held"
    <3>1. n < Len(line) /\ q = line[n + 1] /\ n + 1 \in 1 .. Len(line)
      BY <1>2, <1>4, <2>2, NoRequestIsNone
    <3>2. \A i \in 1 .. n : line[i] # q
      BY <1>2, <3>1 DEF Distinct
    <3> QED
      BY <1>1, <3>1, <3>2 DEF Refused, Entries
  <2>3. ASSUME Waits(q)' PROVE shellCall'[q] = "held"
    <3>1. q \in Entries(line) /\ \A i \in 1 .. n : line[i] # q
      BY <1>2, <1>6, <2>3 DEF Waits
    <3> QED
      BY <1>1, <3>1 DEF Refused
  <2> QED
    BY <2>1, <2>2, <2>3
<1>10. showing' = NoRequest => waiting' = << >>
  <2>1. n < Len(line) => showing' \in Requests
    BY <1>3, <1>4
  <2> QED
    BY <2>1, <1>2, <1>6, NoRequestIsNone
<1>11. ScreenMatchesQueue' /\ win' = showing' /\ closing' = FALSE
       /\ mapped' \subseteq Requests
  BY <1>1, <1>5 DEF OpenOverlay, ScreenMatchesQueue, MaybeRequest
<1>12. EveryHandlerHasItsPlace'
  BY <1>6, <1>7, <1>9, <1>10 DEF EveryHandlerHasItsPlace
<1>13. ShellTyped'
  BY <1>1, <1>5, <1>6, <1>8, <1>11 DEF ShellTyped
<1> QED
  BY <1>8, <1>11, <1>12, <1>13

\* An answer on the loop: by a button, by Escape or by a Dismiss.
LEMMA Finished ==
  ASSUME Sound, answer # NoRequest, NEW word \in {"yes", "no"}, Finish(word)
  PROVE  /\ ShellTyped' /\ EveryHandlerHasItsPlace' /\ ScreenMatchesQueue'
         /\ OnlyRefuses([shellCall EXCEPT ![answer] = word], shellCall')
<1>1. /\ answer \in Requests /\ showing = answer
      /\ shellCall \in [Requests -> Calls] /\ waiting \in Seq(Requests)
  BY DEF Sound, TypeOK, ScreenMatchesQueue, MaybeRequest
<1>2. PICK calls \in [Requests -> Calls] : calls = [shellCall EXCEPT ![answer] = word]
  BY <1>1 DEF Calls
<1>3. \A q \in Requests : calls[q] = "held" <=> q \in Entries(waiting)
  BY <1>1, <1>2 DEF Sound, EveryHandlerHasItsPlace, Waits
<1>4. CASE waiting # << >> /\ StartNext(waiting, calls)
  <2>1. PICK line \in Seq(Requests) : line = waiting
    BY <1>1
  <2>2. StartNext(line, calls)
    BY <1>4, <2>1
  <2>3. mapped = {win} \ {NoRequest} /\ Distinct(line)
    BY <2>1 DEF Sound, ScreenMatchesQueue, EveryHandlerHasItsPlace
  <2>4. \A q \in Requests : calls[q] = "held" <=> q \in Entries(line)
    BY <1>3, <2>1
  <2> QED
    BY <2>2, <2>3, <2>4, <1>2, Started
<1>5. CASE /\ waiting = << >> /\ shellCall' = calls
           /\ showing' = NoRequest /\ answer' = NoRequest
           /\ HideOverlay /\ UNCHANGED waiting
  <2>1. \A q \in Requests : shellCall'[q] # "held" /\ q # NoRequest
    BY <1>3, <1>5, NoRequestIsNone DEF Entries
  <2>2. waiting' = << >> /\ Entries(waiting)' = {}
    BY <1>5 DEF Entries
  <2>3. EveryHandlerHasItsPlace'
    BY <1>5, <2>1, <2>2 DEF EveryHandlerHasItsPlace, Waits, Distinct
  <2>4. ScreenMatchesQueue'
    BY <1>5 DEF Sound, ScreenMatchesQueue, HideOverlay
  <2>5. ShellTyped'
    BY <1>1, <1>5 DEF ShellTyped, Sound, TypeOK, HideOverlay, MaybeRequest
  <2> QED
    BY <1>2, <1>5, <2>3, <2>4, <2>5 DEF OnlyRefuses
<1> QED
  BY <1>2, <1>4, <1>5 DEF Finish

LEMMA Enqueued ==
  ASSUME Sound, NEW r \in Requests, Enqueue(r)
  PROVE  /\ ShellTyped' /\ EveryHandlerHasItsPlace' /\ ScreenMatchesQueue'
         /\ OnlyRefuses([shellCall EXCEPT ![r] = "held"], shellCall')
<1>1. /\ shellCall \in [Requests -> Calls] /\ waiting \in Seq(Requests)
      /\ shellCall[r] = "sent" /\ r # NoRequest
  BY NoRequestIsNone DEF Sound, TypeOK, Enqueue
<1>2. PICK calls \in [Requests -> Calls] : calls = [shellCall EXCEPT ![r] = "held"]
  BY <1>1 DEF Calls
<1>3. r \notin Entries(waiting) /\ showing # r
  BY <1>1 DEF Sound, EveryHandlerHasItsPlace, Waits
<1>4. CASE showing = NoRequest /\ StartNext(<<r>>, calls)
  <2>1. PICK line \in Seq(Requests) : line = <<r>>
    <3>1. <<r>> \in Seq(Requests)
      OBVIOUS
    <3> QED
      BY <3>1, Zenon
  <2>2. Len(line) = 1 /\ line[1] = r
    BY <2>1
  <2>3. Distinct(line) /\ Entries(line) = {r}
    BY <2>2 DEF Distinct, Entries
  <2>4. \A q \in Requests : shellCall[q] # "held"
    BY <1>4, NoRequestIsNone
       DEF Sound, EveryHandlerHasItsPlace, Waits, Entries
  <2>5. \A q \in Requests : calls[q] = "held" <=> q \in Entries(line)
    BY <1>1, <1>2, <2>3, <2>4
  <2>6. StartNext(line, calls)
    BY <1>4, <2>1
  <2>7. mapped = {win} \ {NoRequest}
    BY DEF Sound, ScreenMatchesQueue
  <2> QED
    BY <2>3, <2>5, <2>6, <2>7, <1>2, Started
<1>5. CASE /\ showing # NoRequest /\ shellCall' = calls
           /\ waiting' = Append(waiting, r)
           /\ UNCHANGED <<showing, answer, windows>>
  <2>0. Distinct(waiting)
    BY DEF Sound, EveryHandlerHasItsPlace
  <2>1. PICK line \in Seq(Requests) : line = waiting
    BY <1>1
  <2>2. /\ Append(line, r) \in Seq(Requests) /\ Distinct(Append(line, r))
        /\ Entries(Append(line, r)) = Entries(line) \cup {r}
    BY <2>0, <2>1, <1>3, AppendedEntry
  <2>3. waiting' = Append(line, r)
    BY <1>5, <2>1
  <2>4. /\ waiting' \in Seq(Requests) /\ Distinct(waiting)'
        /\ Entries(waiting)' = Entries(waiting) \cup {r}
    BY <2>1, <2>2, <2>3 DEF Distinct, Entries
  <2>5. EveryHandlerHasItsPlace'
    BY <1>1, <1>2, <1>3, <1>5, <2>4 DEF Sound, EveryHandlerHasItsPlace, Waits
  <2>6. ScreenMatchesQueue'
    BY <1>5 DEF Sound, ScreenMatchesQueue, windows
  <2>7. ShellTyped'
    BY <1>5, <2>4 DEF ShellTyped, Sound, TypeOK, windows
  <2> QED
    BY <1>2, <1>5, <2>5, <2>6, <2>7 DEF OnlyRefuses
<1> QED
  BY <1>2, <1>4, <1>5 DEF Enqueue

LEMMA Dropped ==
  ASSUME Sound, NEW r \in Requests, showing # r, Waits(r), Drop(r)
  PROVE  /\ ShellTyped' /\ EveryHandlerHasItsPlace' /\ ScreenMatchesQueue'
         /\ OnlyRefuses(shellCall, shellCall')
<1>1. /\ shellCall \in [Requests -> Calls] /\ waiting \in Seq(Requests)
      /\ Distinct(waiting) /\ shellCall[r] = "held"
  BY DEF Sound, TypeOK, EveryHandlerHasItsPlace
<1>2. PICK i \in 1 .. Len(waiting) :
        waiting[i] = r /\ waiting' = Without(waiting, i)
  BY DEF Drop
<1>3. PICK line \in Seq(Requests) : line = waiting
  BY <1>1
<1>4. PICK after : after = Without(line, i)
  OBVIOUS
<1>5. /\ after \in Seq(Requests) /\ Distinct(after)
      /\ Entries(after) = Entries(waiting) \ {r}
      /\ waiting' = after
  <2>1. i \in 1 .. Len(line) /\ Distinct(line) /\ line[i] = r
    BY <1>1, <1>2, <1>3
  <2> QED
    BY <2>1, <1>2, <1>3, <1>4, WithoutEntry
<1>6. /\ waiting' \in Seq(Requests) /\ Distinct(waiting)'
      /\ Entries(waiting)' = Entries(waiting) \ {r}
  BY <1>5 DEF Distinct, Entries
<1>7. shellCall' = [shellCall EXCEPT ![r] = "no"]
      /\ UNCHANGED <<showing, answer, windows>>
  BY DEF Drop
<1>8. showing # NoRequest
  BY <1>2 DEF Sound, EveryHandlerHasItsPlace
<1>9. EveryHandlerHasItsPlace'
  BY <1>1, <1>6, <1>7, <1>8 DEF Sound, EveryHandlerHasItsPlace, Waits
<1>10. ScreenMatchesQueue'
  BY <1>7 DEF Sound, ScreenMatchesQueue, windows
<1>11. ShellTyped'
  BY <1>1, <1>6, <1>7 DEF ShellTyped, Sound, TypeOK, windows, Calls
<1> QED
  BY <1>1, <1>7, <1>9, <1>10, <1>11 DEF OnlyRefuses

-----------------------------------------------------------------------------
\* Every step preserves the invariant.

LEMMA InitInv == Init => IInv
<1> SUFFICES ASSUME Init PROVE IInv
  OBVIOUS
<1>1. TypeOK
  <2>1. waiting \in Seq(Requests)
    BY DEF Init
  <2> QED
    BY <2>1 DEF Init, TypeOK, Codes, Calls, MaybeRequest
<1>2. EveryHandlerHasItsPlace
  BY NoRequestIsNone
     DEF Init, EveryHandlerHasItsPlace, Distinct, Waits, Entries
<1>3. ScreenMatchesQueue /\ Honest
  BY DEF Init, ScreenMatchesQueue, Honest
<1> QED
  BY <1>1, <1>2, <1>3 DEF IInv, Sound

\* The steps of the backend leave the shell alone, besides the new call.
LEMMA BackendStep ==
  ASSUME IInv, NEW r \in Requests,
         \/ Begin(r) \/ MountFails(r) \/ Close(r) \/ WatcherCancels(r)
         \/ WatcherEnds(r) \/ Settle(r) \/ End(r)
  PROVE  IInv'
<1> USE DEF IInv, Sound
<1>1. UNCHANGED <<host, said, alive, crashes>>
  BY DEF Begin, MountFails, Close, WatcherCancels, WatcherEnds, Settle, End
<1>2. \/ UNCHANGED shellCall
      \/ /\ pc[r] = "idle"
         /\ \E to \in {"sent", "failed"} : shellCall' = [shellCall EXCEPT ![r] = to]
         /\ pc' = [pc EXCEPT ![r] = "asking"]
  <2>1. Made(r) => pc[r] = "idle"
    BY DEF Made, Requests
  <2> QED
    BY <2>1
       DEF Begin, MountFails, Close, WatcherCancels, WatcherEnds, Settle, End
<1>3. /\ pc' \in [Requests -> {"idle", "asking", "settled", "done"}]
      /\ \A q \in Requests : pc'[q] = "idle" => pc[q] = "idle"
  BY DEF Begin, MountFails, Close, WatcherCancels, WatcherEnds, Settle, End, TypeOK
<1>4. shellCall' \in [Requests -> Calls]
  BY <1>2 DEF TypeOK, Calls
<1>5. code' \in [Requests -> Codes]
  <2>1. Response(r) \in Codes
    BY DEF Response, Codes
  <2> QED
    BY <2>1 DEF Begin, MountFails, Close, WatcherCancels, WatcherEnds, Settle, End,
       TypeOK, Codes
<1>6. /\ watcher' \in [Requests -> {"none", "watching", "dismissing", "gone"}]
      /\ closed' \subseteq Requests /\ dismissals' \subseteq Requests
  BY DEF Begin, MountFails, Close, WatcherCancels, WatcherEnds, Settle, End, TypeOK
<1>7. TypeOK'
  BY <1>1, <1>3, <1>4, <1>5, <1>6 DEF TypeOK, host, windows
<1>8. \A q \in Requests : shellCall'[q] = "held" <=> shellCall[q] = "held"
  BY <1>2 DEF TypeOK, Honest
<1>9. EveryHandlerHasItsPlace'
  BY <1>1, <1>8 DEF EveryHandlerHasItsPlace, Waits, Distinct, Entries, host, windows
<1>10. ScreenMatchesQueue'
  BY <1>1 DEF ScreenMatchesQueue, host, windows
<1>11. Honest'
  <2>1. CASE UNCHANGED shellCall
    BY <2>1, <1>1, <1>3 DEF Honest
  <2>2. CASE ~UNCHANGED shellCall
    BY <2>2, <1>1, <1>2, <1>3 DEF Honest, TypeOK
  <2> QED
    BY <2>1, <2>2
<1> QED
  BY <1>7, <1>9, <1>10, <1>11

\* What a step of the shell's loop has to keep for the types and for Honest.
LEMMA ShellStep ==
  ASSUME IInv, ShellTyped', EveryHandlerHasItsPlace', ScreenMatchesQueue',
         UNCHANGED <<portal, alive, crashes>>, dismissals' \subseteq dismissals,
         said' \in [Requests -> {"nothing", "yes", "no"}],
         \A q \in Requests :
           \/ shellCall'[q] = shellCall[q] /\ said'[q] = said[q]
           \/ /\ shellCall[q] = "sent" /\ shellCall'[q] \in {"held", "no"}
              /\ said'[q] = said[q]
           \/ /\ shellCall[q] = "held" /\ shellCall'[q] = "no"
              /\ said'[q] = said[q]
           \/ /\ shellCall[q] = "held" /\ shellCall'[q] \in {"yes", "no"}
              /\ said'[q] = shellCall'[q]
  PROVE  IInv'
<1>1. TypeOK'
  BY DEF IInv, Sound, TypeOK, ShellTyped, portal
<1>2. Honest'
  <2> SUFFICES ASSUME NEW q \in Requests
               PROVE  /\ pc'[q] = "idle" => shellCall'[q] = "none"
                      /\ shellCall'[q] \in {"none", "sent", "held"} => said'[q] = "nothing"
                      /\ shellCall'[q] = "yes" => said'[q] = "yes"
                      /\ shellCall'[q] = "no" => said'[q] # "yes"
    BY DEF Honest
  <2>1. /\ pc'[q] = pc[q]
        /\ pc[q] = "idle" => shellCall[q] = "none"
        /\ shellCall[q] \in {"none", "sent", "held"} => said[q] = "nothing"
        /\ shellCall[q] = "yes" => said[q] = "yes"
        /\ shellCall[q] = "no" => said[q] # "yes"
    BY DEF IInv, Honest, portal
  <2> QED
    BY <2>1
<1> QED
  BY <1>1, <1>2 DEF IInv, Sound

LEMMA EnqueueStep ==
  ASSUME IInv, NEW r \in Requests, Enqueue(r)
  PROVE  IInv'
<1>1. /\ ShellTyped' /\ EveryHandlerHasItsPlace' /\ ScreenMatchesQueue'
      /\ OnlyRefuses([shellCall EXCEPT ![r] = "held"], shellCall')
  BY Enqueued DEF IInv
<1>2. /\ shellCall \in [Requests -> Calls] /\ shellCall[r] = "sent"
      /\ UNCHANGED <<portal, dismissals, alive, crashes, said>>
      /\ said \in [Requests -> {"nothing", "yes", "no"}]
  BY DEF IInv, Sound, TypeOK, Enqueue
<1>3. \A q \in Requests :
        \/ shellCall'[q] = shellCall[q] /\ said'[q] = said[q]
        \/ /\ shellCall[q] = "sent" /\ shellCall'[q] \in {"held", "no"}
           /\ said'[q] = said[q]
        \/ /\ shellCall[q] = "held" /\ shellCall'[q] = "no"
           /\ said'[q] = said[q]
  BY <1>1, <1>2 DEF OnlyRefuses
<1> QED
  BY <1>1, <1>2, <1>3, ShellStep

LEMMA DismissStep ==
  ASSUME IInv, NEW r \in Requests, Dismiss(r)
  PROVE  IInv'
<1>1. /\ shellCall \in [Requests -> Calls]
      /\ dismissals' \subseteq dismissals
      /\ UNCHANGED <<portal, alive, crashes, said>>
      /\ said \in [Requests -> {"nothing", "yes", "no"}]
  BY DEF IInv, Sound, TypeOK, Dismiss
<1>2. CASE showing = r /\ answer # NoRequest /\ Finish("no")
  <2>1. answer = r /\ shellCall[r] = "held" /\ answer # NoRequest
    BY <1>2, NoRequestIsNone
       DEF IInv, Sound, ScreenMatchesQueue, EveryHandlerHasItsPlace
  <2>2. /\ ShellTyped' /\ EveryHandlerHasItsPlace' /\ ScreenMatchesQueue'
        /\ OnlyRefuses([shellCall EXCEPT ![answer] = "no"], shellCall')
    BY <1>2, Finished DEF IInv
  <2>3. \A q \in Requests :
          \/ shellCall'[q] = shellCall[q] /\ said'[q] = said[q]
          \/ /\ shellCall[q] = "held" /\ shellCall'[q] = "no"
             /\ said'[q] = said[q]
    BY <1>1, <2>1, <2>2 DEF OnlyRefuses
  <2> QED
    BY <1>1, <2>2, <2>3, ShellStep
<1>3. CASE showing # r /\ Waits(r) /\ Drop(r)
  <2>1. /\ ShellTyped' /\ EveryHandlerHasItsPlace' /\ ScreenMatchesQueue'
        /\ OnlyRefuses(shellCall, shellCall')
    BY <1>3, Dropped DEF IInv
  <2>2. \A q \in Requests :
          \/ shellCall'[q] = shellCall[q] /\ said'[q] = said[q]
          \/ /\ shellCall[q] = "held" /\ shellCall'[q] = "no"
             /\ said'[q] = said[q]
    BY <1>1, <2>1 DEF OnlyRefuses
  <2> QED
    BY <1>1, <2>1, <2>2, ShellStep
<1>4. CASE UNCHANGED <<shellCall, host>>
  <2>1. /\ ShellTyped' /\ EveryHandlerHasItsPlace' /\ ScreenMatchesQueue'
    BY <1>4 DEF IInv, Sound, TypeOK, ShellTyped, EveryHandlerHasItsPlace, Distinct,
       Waits, Entries, ScreenMatchesQueue, host, windows
  <2> QED
    BY <1>1, <1>4, <2>1, ShellStep
<1> QED
  BY <1>2, <1>3, <1>4 DEF Dismiss

\* The dialog a user can answer is that of the request whose turn it is.
LEMMA UserAnswers ==
  ASSUME IInv, NEW r \in Requests, NEW word \in {"yes", "no"}, UserSays(r, word)
  PROVE  /\ r = answer /\ shellCall[r] = "held" /\ said[r] = "nothing"
         /\ said' = [said EXCEPT ![r] = word]
<1>1. r = answer /\ answer = showing
  BY DEF IInv, Sound, ScreenMatchesQueue, UserSays
<1>2. shellCall[r] = "held"
  BY <1>1 DEF IInv, Sound, EveryHandlerHasItsPlace
<1>3. said[r] = "nothing"
  BY <1>2 DEF IInv, Honest
<1> QED
  BY <1>1, <1>2, <1>3 DEF UserSays

LEMMA UserStep ==
  ASSUME IInv, NEW r \in Requests, NEW word \in {"yes", "no"}, UserSays(r, word)
  PROVE  IInv'
<1>1. /\ r = answer /\ shellCall[r] = "held" /\ said[r] = "nothing"
      /\ said' = [said EXCEPT ![r] = word]
  BY UserAnswers
<1>2. /\ shellCall \in [Requests -> Calls]
      /\ UNCHANGED <<portal, dismissals, alive, crashes>>
      /\ said \in [Requests -> {"nothing", "yes", "no"}]
      /\ answer # NoRequest /\ Finish(word)
  BY DEF IInv, Sound, TypeOK, UserSays
<1>3. /\ ShellTyped' /\ EveryHandlerHasItsPlace' /\ ScreenMatchesQueue'
      /\ OnlyRefuses([shellCall EXCEPT ![answer] = word], shellCall')
  BY <1>2, Finished DEF IInv
<1>4. said' \in [Requests -> {"nothing", "yes", "no"}]
  BY <1>1, <1>2
<1>5. \A q \in Requests :
        \/ shellCall'[q] = shellCall[q] /\ said'[q] = said[q]
        \/ /\ shellCall[q] = "held" /\ shellCall'[q] = "no"
           /\ said'[q] = said[q]
        \/ /\ shellCall[q] = "held" /\ shellCall'[q] \in {"yes", "no"}
           /\ said'[q] = shellCall'[q]
  BY <1>1, <1>2, <1>3 DEF OnlyRefuses
<1> QED
  BY <1>2, <1>3, <1>4, <1>5, ShellStep

LEMMA OtherStep ==
  ASSUME IInv, ExitPlayed \/ ShellDies \/ ShellStarts
  PROVE  IInv'
<1>1. CASE ExitPlayed
  <2>1. ShellTyped' /\ UNCHANGED <<portal, shellCall, dismissals, alive, crashes, said>>
    BY <1>1 DEF ExitPlayed, IInv, Sound, TypeOK, ShellTyped, MaybeRequest
  <2>2. EveryHandlerHasItsPlace'
    BY <1>1 DEF ExitPlayed, IInv, Sound, EveryHandlerHasItsPlace, Distinct, Waits,
       Entries
  <2>3. ScreenMatchesQueue'
    BY <1>1 DEF ExitPlayed, IInv, Sound, ScreenMatchesQueue
  <2>4. said' \in [Requests -> {"nothing", "yes", "no"}]
    BY <2>1 DEF IInv, Sound, TypeOK
  <2> QED
    BY <2>1, <2>2, <2>3, <2>4, ShellStep
<1>2. CASE ShellStarts
  <2>1. TypeOK'
    BY <1>2 DEF ShellStarts, IInv, Sound, TypeOK, portal, host, windows
  <2>2. EveryHandlerHasItsPlace' /\ ScreenMatchesQueue' /\ Honest'
    BY <1>2 DEF ShellStarts, IInv, Sound, EveryHandlerHasItsPlace, Distinct, Waits,
       Entries, ScreenMatchesQueue, Honest, portal, host, windows
  <2> QED
    BY <2>1, <2>2 DEF IInv, Sound
<1>3. CASE ShellDies
  <2>1. PICK lost \in SUBSET {r \in Requests : pc[r] = "asking"} :
          shellCall' = [r \in Requests |->
            IF shellCall[r] \in {"sent", "held"}
                 \/ (r \in lost /\ shellCall[r] \in {"yes", "no"})
              THEN "failed" ELSE shellCall[r]]
    BY <1>3 DEF ShellDies
  <2>2. /\ shellCall' \in [Requests -> Calls]
        /\ \A r \in Requests : /\ shellCall'[r] # "held"
                              /\ \/ shellCall'[r] = shellCall[r]
                                 \/ pc[r] # "idle" /\ shellCall'[r] = "failed"
    BY <2>1 DEF IInv, Sound, TypeOK, Calls, Honest
  <2>3. /\ waiting' = << >> /\ waiting' \in Seq(Requests) /\ Entries(waiting)' = {}
        /\ UNCHANGED <<portal, said>>
    BY <1>3 DEF ShellDies, Entries
  <2>4. TypeOK'
    <3>1. crashes' = crashes + 1 /\ alive' = FALSE /\ dismissals' = {}
          /\ showing' = NoRequest /\ answer' = NoRequest
          /\ win' = NoRequest /\ closing' = FALSE /\ mapped' = {}
      BY <1>3 DEF ShellDies
    <3>2. crashes \in Nat => crashes + 1 \in Nat
      OBVIOUS
    <3>3. crashes' \in Nat
      BY <3>1, <3>2 DEF IInv, Sound, TypeOK
    <3>4. NoRequest \in MaybeRequest
      BY DEF MaybeRequest
    <3>5. /\ pc' \in [Requests -> {"idle", "asking", "settled", "done"}]
          /\ code' \in [Requests -> Codes]
          /\ watcher' \in [Requests -> {"none", "watching", "dismissing", "gone"}]
          /\ closed' \subseteq Requests
          /\ said' \in [Requests -> {"nothing", "yes", "no"}]
      BY <2>3 DEF IInv, Sound, TypeOK, portal
    <3> QED
      BY <2>2, <2>3, <3>1, <3>3, <3>4, <3>5 DEF TypeOK
  <2>5. EveryHandlerHasItsPlace' /\ ScreenMatchesQueue'
    BY <1>3, <2>2, <2>3, NoRequestIsNone
       DEF ShellDies, EveryHandlerHasItsPlace, Distinct, Waits, ScreenMatchesQueue
  <2>6. Honest'
    BY <2>2, <2>3 DEF IInv, Honest, portal
  <2> QED
    BY <2>4, <2>5, <2>6 DEF IInv, Sound
<1> QED
  BY <1>1, <1>2, <1>3

LEMMA NextInv ==
  ASSUME IInv, [Next]_vars
  PROVE  IInv'
<1>1. ASSUME NEW r \in Requests, \/ Begin(r) \/ MountFails(r) \/ Close(r)
                                \/ Watch(r) \/ Answer(r)
      PROVE  IInv'
  BY <1>1, BackendStep DEF Watch, Answer
<1>2. ASSUME NEW r \in Requests, Enqueue(r) PROVE IInv'
  BY <1>2, EnqueueStep
<1>3. ASSUME NEW r \in Requests, Dismiss(r) PROVE IInv'
  BY <1>3, DismissStep
<1>4. ASSUME NEW r \in Requests, NEW word \in {"yes", "no"}, UserSays(r, word)
      PROVE  IInv'
  BY <1>4, UserStep
<1>5. CASE ExitPlayed \/ ShellDies \/ ShellStarts
  BY <1>5, OtherStep
<1>6. CASE UNCHANGED vars
  <2>1. UNCHANGED <<pc, code, watcher, closed, shellCall, dismissals, alive, crashes,
                    showing, waiting, answer, win, closing, mapped, said>>
    BY <1>6 DEF vars, portal, host, windows
  <2> QED
    BY <2>1 DEF IInv, Sound, TypeOK, EveryHandlerHasItsPlace, Distinct, Waits,
       Entries, ScreenMatchesQueue, Honest
<1> QED
  BY <1>1, <1>2, <1>3, <1>4, <1>5, <1>6 DEF Next

LEMMA AlwaysInv == Spec => []IInv
<1> QED
  BY InitInv, NextInv, PTL DEF Spec

-----------------------------------------------------------------------------
\* Theorems.

\* Every handler of the shell that waits has its place in the queue, once,
\* whatever is enqueued, answered, refused or dismissed in what order.
THEOREM QueueStaysSound == Spec => []QueueIsSound
<1>1. IInv => QueueIsSound
  BY DEF IInv, Sound, QueueIsSound
<1> QED
  BY <1>1, AlwaysInv, PTL

\* What is on the screen is the dialog of the request it would answer.
THEOREM ScreenStaysRight == Spec => []ScreenMatchesQueue
<1>1. IInv => ScreenMatchesQueue
  BY DEF IInv, Sound
<1> QED
  BY <1>1, AlwaysInv, PTL

\* What the code of a reply tells.
LEMMA WhatTheCodeTells ==
  ASSUME NEW r \in Requests
  PROVE  /\ Response(r) \in {"success", "cancelled", "other"}
         /\ r \in closed => Response(r) = "cancelled"
         /\ Response(r) = "success" => shellCall[r] = "yes"
         /\ Response(r) = "cancelled" => r \in closed \/ shellCall[r] = "no"
<1> QED
  BY DEF Response

LEMMA InitPromise == Init => Promise!Init
<1> SUFFICES ASSUME Init PROVE Promise!Init
  OBVIOUS
<1> QED
  BY DEF Init, Promise!Init

\* A step of the backend or of the shell is a step of the promise.
LEMMA StepPromise ==
  ASSUME IInv, [Next]_vars
  PROVE  [Promise!Next]_(Promise!vars)
<1> DEFINE stage == [r \in Requests |->
                      CASE pc[r] = "idle"   -> "idle"
                        [] pc[r] = "asking" -> "open"
                        [] OTHER            -> code[r]]
<1>1. /\ pc \in [Requests -> {"idle", "asking", "settled", "done"}]
      /\ code \in [Requests -> Codes]
  BY DEF IInv, Sound, TypeOK
<1>2. ASSUME UNCHANGED <<pc, code, closed, said>>
      PROVE  UNCHANGED Promise!vars
  BY <1>2 DEF Promise!vars
<1>3. ASSUME NEW r \in Requests, Begin(r) PROVE Promise!Ask(r)
  <2>1. pc[r] = "idle"
    BY <1>3 DEF Begin, Made, Requests
  <2> QED
    BY <1>1, <1>3, <2>1 DEF Begin, Promise!Ask, host
<1>4. ASSUME NEW r \in Requests, MountFails(r) PROVE Promise!Refuse(r)
  <2>1. pc[r] = "idle"
    BY <1>4 DEF MountFails, Made, Requests
  <2> QED
    BY <1>1, <1>4, <2>1 DEF MountFails, Promise!Refuse
<1>5. ASSUME NEW r \in Requests, Close(r) PROVE Promise!Close(r)
  BY <1>1, <1>5 DEF Close, Promise!Close, Codes
<1>6. ASSUME NEW r \in Requests, Watch(r) PROVE UNCHANGED Promise!vars
  BY <1>2, <1>6 DEF Watch, WatcherCancels, WatcherEnds
<1>7. ASSUME NEW r \in Requests, Settle(r)
      PROVE  \E c \in Promise!Codes : Promise!Reply(r, c)
  <2>1. /\ shellCall[r] = "yes" => said[r] = "yes"
        /\ shellCall[r] = "no" => said[r] # "yes"
    BY DEF IInv, Honest
  <2>2. Response(r) \in Promise!Codes
    BY WhatTheCodeTells DEF Promise!Codes
  <2>3. PICK c \in Promise!Codes : c = Response(r)
    BY <2>2
  <2>4. /\ r \in closed => c = "cancelled"
        /\ c = "success" => shellCall[r] = "yes"
        /\ c = "cancelled" => r \in closed \/ shellCall[r] = "no"
    BY <2>3, WhatTheCodeTells
  <2>5. /\ pc[r] = "asking" /\ pc' = [pc EXCEPT ![r] = "settled"]
        /\ code' = [code EXCEPT ![r] = c] /\ UNCHANGED <<closed, said>>
    BY <1>7, <2>3 DEF Settle
  <2>6. /\ stage[r] = "open"
        /\ stage' = [stage EXCEPT ![r] = c]
    BY <1>1, <2>5
  <2>7. Promise!MayReply(r, c)
    BY <2>1, <2>4 DEF Promise!MayReply
  <2>8. Promise!Reply(r, c)
    BY <2>5, <2>6, <2>7 DEF Promise!Reply
  <2> QED
    BY <2>8
<1>8. ASSUME NEW r \in Requests, End(r) PROVE UNCHANGED Promise!vars
  BY <1>1, <1>8 DEF End, Promise!vars
<1>9. ASSUME NEW r \in Requests, Enqueue(r) \/ Dismiss(r)
      PROVE  UNCHANGED Promise!vars
  BY <1>2, <1>9 DEF Enqueue, Dismiss, portal
<1>10. ASSUME NEW r \in Requests, NEW word \in {"yes", "no"}, UserSays(r, word)
       PROVE  Promise!Say(r, word)
  <2>1. said[r] = "nothing" /\ said' = [said EXCEPT ![r] = word]
    BY <1>10, UserAnswers
  <2> QED
    BY <1>10, <2>1 DEF UserSays, Promise!Say, portal
<1>11. CASE ExitPlayed \/ ShellDies \/ ShellStarts
  BY <1>2, <1>11 DEF ExitPlayed, ShellDies, ShellStarts, portal
<1>12. CASE UNCHANGED vars
  BY <1>2, <1>12 DEF vars, portal
<1> QED
  BY <1>3, <1>4, <1>5, <1>6, <1>7, <1>8, <1>9, <1>10, <1>11, <1>12
     DEF Next, Answer, Promise!Next

\* The backend, the bus and the shell keep the promise of DialogPromise for
\* any number of requests, crashes and failures: one reply each, a success
\* only for a yes on the request's own dialog, a cancel once it is closed.
THEOREM PromiseIsKept == Spec => KeepsItsPromise
<1>1. Init => Promise!Init
  BY InitPromise
<1>2. IInv /\ [Next]_vars => [Promise!Next]_(Promise!vars)
  BY StepPromise
<1> QED
  BY <1>1, <1>2, AlwaysInv, PTL DEF Spec, KeepsItsPromise, Promise!Spec
\* Requests show in the order in which they came to the shell, whichever of
\* them are dismissed, refused or answered in between.
LEMMA StepInOrder ==
  ASSUME IInv, Next, NEW r \in Requests, NEW q \in Requests,
         Before(r, q), Waits(r)'
  PROVE  showing' # q /\ (Waits(q)' => Ahead(r, q)')
<1>0. /\ waiting \in Seq(Requests) /\ Distinct(waiting)
      /\ shellCall \in [Requests -> Calls]
      /\ Waits(r) /\ showing # NoRequest /\ answer = showing
      /\ \A p \in Requests : shellCall[p] = "held" <=> (showing = p \/ Waits(p))
      /\ ~Waits(showing)
  <2>1. Waits(r) => waiting # << >>
    BY DEF Waits, Entries
  <2> QED
    BY <2>1 DEF IInv, Sound, TypeOK, EveryHandlerHasItsPlace, ScreenMatchesQueue, Before
<1>1. /\ InOrder(waiting, r, q) \/ shellCall[q] \in {"none", "sent"}
      /\ Ahead(r, q)' <=> InOrder(waiting', r, q)
      /\ InOrder(waiting, r, q) => Waits(q)
  BY DEF Before, Ahead, InOrder, Waits, Entries
<1>2. /\ q # showing
      /\ Waits(q) => InOrder(waiting, r, q)
  BY <1>0, <1>1
<1>3. CASE UNCHANGED <<showing, waiting>>
  BY <1>1, <1>2, <1>3 DEF Waits, Entries
<1>4. ASSUME NEW word \in {"yes", "no"}, Finish(word)
      PROVE  showing' # q /\ (Waits(q)' => Ahead(r, q)')
  <2>1. waiting # << >>
    BY <1>0 DEF Waits, Entries
  <2>2. PICK n \in 0 .. Len(waiting) :
          /\ showing' = Shown(waiting, n)
          /\ waiting' = SubSeq(waiting, n + 2, Len(waiting))
    BY <1>4, <2>1 DEF Finish, StartNext
  <2>3. PICK line \in Seq(Requests) : line = waiting
    BY <1>0
  <2>4. r \in Entries(SubSeq(line, n + 2, Len(line)))
    BY <2>2, <2>3 DEF Waits
  <2>5. n < Len(line) /\ n \in Nat /\ Distinct(line) /\ Len(line) \in Nat
    <3>1. n \in 0 .. Len(line) /\ Distinct(line)
      BY <1>0, <2>3
    <3>2. n = Len(line) => SubSeq(line, n + 2, Len(line)) = << >>
      BY <3>1, RestOfLine
    <3>3. n # Len(line)
      BY <2>4, <3>2 DEF Entries
    <3> QED
      BY <3>1, <3>3
  <2>6. showing' = line[n + 1]
    BY <2>2, <2>3, <2>5 DEF Shown
  <2>7. CASE InOrder(waiting, r, q)
    <3>1. /\ line[n + 1] # q
          /\ q \in Entries(SubSeq(line, n + 2, Len(line)))
               => InOrder(SubSeq(line, n + 2, Len(line)), r, q)
      BY <2>3, <2>4, <2>5, <2>7, OrderOfRest
    <3> QED
      BY <1>1, <2>2, <2>3, <2>6, <3>1 DEF Waits
  <2>8. CASE ~Waits(q)
    <3>1. q \notin Entries(line)
      BY <2>3, <2>8 DEF Waits
    <3>2. line[n + 1] \in Entries(line)
      BY <2>5 DEF Entries
    <3>3. q \notin Entries(SubSeq(line, n + 2, Len(line)))
      BY <2>5, <3>1, RestOfLine
    <3> QED
      BY <2>2, <2>3, <2>6, <3>1, <3>2, <3>3 DEF Waits
  <2> QED
    BY <1>2, <2>7, <2>8
<1>5. ASSUME NEW p \in Requests, Drop(p)
      PROVE  showing' # q /\ (Waits(q)' => Ahead(r, q)')
  <2>1. PICK i \in 1 .. Len(waiting) : waiting' = Without(waiting, i)
    BY <1>5 DEF Drop
  <2>2. showing' = showing
    BY <1>5 DEF Drop
  <2>3. PICK line \in Seq(Requests) : line = waiting
    BY <1>0
  <2>4. Distinct(line) /\ i \in 1 .. Len(line)
    BY <1>0, <2>3
  <2>5. Waits(q)' => Waits(q)
    BY <2>1, <2>3, <2>4, WithoutEntry DEF Waits
  <2>6. ASSUME Waits(q)' PROVE InOrder(waiting', r, q)
    <3>1. InOrder(line, r, q)
      BY <1>2, <2>3, <2>5, <2>6
    <3>2. r \in Entries(Without(line, i)) /\ q \in Entries(Without(line, i))
      BY <2>1, <2>3, <2>6 DEF Waits
    <3> QED
      BY <2>1, <2>3, <2>4, <3>1, <3>2, OrderWithout
  <2> QED
    BY <1>1, <1>2, <2>2, <2>6
<1>6. ASSUME NEW p \in Requests, Enqueue(p)
      PROVE  showing' # q /\ (Waits(q)' => Ahead(r, q)')
  <2>1. waiting' = Append(waiting, p) /\ showing' = showing /\ shellCall[p] = "sent"
    BY <1>0, <1>6 DEF Enqueue
  <2>2. PICK line \in Seq(Requests) : line = waiting
    BY <1>0
  <2>3. /\ Len(line) \in Nat /\ Len(waiting') = Len(line) + 1
        /\ \A j \in 1 .. Len(line) : waiting'[j] = line[j]
        /\ waiting'[Len(line) + 1] = p
    BY <2>1, <2>2
  <2>4. PICK a \in 1 .. Len(line) : line[a] = r
    BY <1>0, <2>2 DEF Waits, Entries
  <2>5. ASSUME Waits(q)' PROVE InOrder(waiting', r, q)
    <3>1. CASE Waits(q)
      <4>1. InOrder(line, r, q)
        BY <1>2, <2>2, <3>1
      <4> QED
        BY <2>3, <4>1 DEF InOrder
    <3>2. CASE ~Waits(q)
      <4>1. \A j \in 1 .. Len(line) : line[j] # q
        BY <2>2, <3>2 DEF Waits, Entries
      <4>2. q = p
        BY <2>3, <2>5, <4>1 DEF Waits, Entries
      <4>3. a \in 1 .. Len(waiting') /\ Len(line) + 1 \in 1 .. Len(waiting')
            /\ a < Len(line) + 1
        BY <2>3
      <4> QED
        BY <2>3, <2>4, <4>2, <4>3 DEF InOrder
    <3> QED
      BY <3>1, <3>2
  <2> QED
    BY <1>1, <1>2, <2>1, <2>5
<1>7. CASE ShellDies
  <2>1. waiting' = << >>
    BY <1>7 DEF ShellDies
  <2> QED
    BY <2>1 DEF Waits, Entries
<1>8. ASSUME NEW p \in Requests,
             \/ Begin(p) \/ MountFails(p) \/ Close(p) \/ Watch(p) \/ Answer(p)
      PROVE  UNCHANGED <<showing, waiting>>
  BY <1>8 DEF Begin, MountFails, Close, Watch, WatcherCancels, WatcherEnds, Answer,
     Settle, End, host
<1>9. CASE ExitPlayed \/ ShellStarts
  BY <1>3, <1>9 DEF ExitPlayed, ShellStarts, host
<1>10. ASSUME NEW p \in Requests, Dismiss(p)
       PROVE  Finish("no") \/ Drop(p) \/ UNCHANGED <<showing, waiting>>
  BY <1>10 DEF Dismiss, host
<1>11. ASSUME NEW p \in Requests, NEW word \in {"yes", "no"}, UserSays(p, word)
       PROVE  Finish(word)
  BY <1>11 DEF UserSays
<1> QED
  BY <1>3, <1>4, <1>5, <1>6, <1>7, <1>8, <1>9, <1>10, <1>11 DEF Next

\* Nobody is overtaken in the queue, for any number of requests and faults.
THEOREM NobodyIsOvertaken == Spec => ShownInOrder
<1> DEFINE Kept == \A r, q \in Requests :
                     Before(r, q) /\ Waits(r)'
                       => showing' # q /\ (Waits(q)' => Ahead(r, q)')
<1>1. IInv /\ [Next]_vars => [Kept]_vars
  BY StepInOrder
<1> QED
  BY <1>1, AlwaysInv, PTL DEF Spec, ShownInOrder
=============================================================================
