---------------------------- MODULE RequestProofs ----------------------------
(***************************************************************************)
(* Why an answer to a question can be trusted, whatever the clients, the   *)
(* searches and the providers do: the messages of a conversation stay in   *)
(* the order of its turns (Chat), what the language model is shown is what *)
(* the searches found, in the order of the fused ranks (Retrieval), and    *)
(* who asks may use a repository only as GitHub has said (Access).         *)
(***************************************************************************)
EXTENDS Chat, Retrieval, Access, ListsProofs

-----------------------------------------------------------------------------
(* A conversation                                                            *)

Key(m) == 2 * m.turn + (IF m.role = "assistant" THEN 1 ELSE 0)

\* Messages in the order of their turns, each answer right after its question; only
\* the first may have lost it.
Conversation(s) ==
  /\ \A i, j \in 1 .. Len(s) : i < j => Key(s[i]) < Key(s[j])
  /\ \A i \in 1 .. Len(s) : s[i].role = "user" => ~s[i].error /\ s[i].text # <<>>
  /\ \A i \in 2 .. Len(s) : s[i].role = "assistant" =>
                              s[i - 1].role = "user" /\ s[i - 1].turn = s[i].turn

\* Nothing more happens to turn t.
Settled(t) == reply[t] \in {"done", "failed"} /\ wire[t] = <<>>

\* With n questions asked, turn t being streamed, the turns in left abandoned, and
\* replies r: a text is of its own turn, and an answer that is not being streamed is
\* complete or flagged, unless its page was left.
ShownIn(s, n, t, left, r) ==
  /\ Conversation(s)
  /\ \A i \in 1 .. Len(s) :
       /\ s[i].turn <= n
       /\ \A k \in 1 .. Len(s[i].text) : s[i].text[k] = s[i].turn
       /\ s[i].role = "assistant" /\ s[i].turn # t /\ s[i].turn \notin left =>
            r[s[i].turn] = "done" \/ s[i].error

Shown(s) == ShownIn(s, asked, streaming, abandoned, reply)

\* An answer that a later turn may use.
Usable(u, t) == u < t /\ (reply[u] = "done" \/ u \in abandoned)

ReceivedOK(t) ==
  /\ Conversation(received[t])
  /\ \A i \in 1 .. Len(received[t]) :
       received[t][i].role = "assistant" => Usable(received[t][i].turn, t)

KeptOK(t) ==
  \A i \in 1 .. Len(kept[t]) :
    /\ kept[t][i][1].role = "user" /\ kept[t][i][2].role = "assistant"
    /\ kept[t][i][1].turn = kept[t][i][2].turn
    /\ Usable(kept[t][i][2].turn, t)
    /\ i > 1 => kept[t][i - 1][2].turn < kept[t][i][2].turn

\* The stream of a turn ends with its end or its error, and says so in no other place.
WireOK(t) ==
  LET n == Len(wire[t]) IN
  /\ reply[t] # "none"
  /\ reply[t] \in {"done", "failed"} => n > 0 /\ wire[t][n] = IF reply[t] = "done" THEN "end" ELSE "error"
  /\ \A i \in 1 .. n : wire[t][i] \in {"end", "error"} => i = n /\ reply[t] \in {"done", "failed"}

Composer ==
  /\ page = "away" => streaming = 0
  /\ abandoned \subseteq 1 .. asked /\ listening \subseteq (1 .. asked) \ abandoned
  /\ streaming # 0 =>
       /\ streaming = asked /\ streaming \in listening
       /\ Len(messages) > 0
       /\ messages[Len(messages)].role = "assistant" /\ messages[Len(messages)].turn = streaming
       /\ WireOK(streaming)

TurnOK(t) ==
  /\ t <= asked /\ t # streaming /\ t \notin abandoned => Settled(t)
  /\ t > asked => reply[t] = "none" /\ wire[t] = <<>>
  /\ ReceivedOK(t) /\ KeptOK(t)

ChatInv ==
  /\ ChatTypeOK /\ Shown(messages) /\ Shown(session) /\ Composer
  /\ \A t \in Turns : TurnOK(t)

-----------------------------------------------------------------------------
(* Subsequences of a conversation                                            *)

LEMMA PickConversation ==
  ASSUME NEW s \in Seq(Message), Conversation(s), NEW I \in SUBSET DOMAIN s,
         \A i \in 1 .. Len(s) : s[i].role = "user" => i \in I
  PROVE  /\ Pick(s, I) \in Seq(Message) /\ Conversation(Pick(s, I))
         /\ \A n \in 1 .. Len(Pick(s, I)) : \E k \in I : Pick(s, I)[n] = s[k]
<1> DEFINE q == Pick(s, I)
           N == Cardinality(I)
<1>1. Len(s) \in Nat /\ DOMAIN s = 1 .. Len(s)
  BY LenProperties
<1>2. PICK at \in [1 .. N -> I] :
        /\ q \in Seq(Message) /\ Len(q) = N /\ N \in 0 .. Len(s)
        /\ \A x \in I : \E n \in 1 .. N : at[n] = x
        /\ \A i, j \in 1 .. N : i < j <=> at[i] < at[j]
        /\ \A n \in 1 .. N : q[n] = s[at[n]]
  BY PickElements, SMTT(30)
<1>3. \A n \in 1 .. N : at[n] \in I /\ at[n] \in 1 .. Len(s) /\ q[n] = s[at[n]]
  BY <1>1, <1>2
<1> HIDE DEF q, N
<1>4. \A i, j \in 1 .. N : i < j => Key(q[i]) < Key(q[j])
  <2> SUFFICES ASSUME NEW i \in 1 .. N, NEW j \in 1 .. N, i < j PROVE Key(q[i]) < Key(q[j])
    OBVIOUS
  <2>1. at[i] \in 1 .. Len(s) /\ at[j] \in 1 .. Len(s) /\ at[i] < at[j]
    BY <1>2, <1>3
  <2>2. Key(s[at[i]]) < Key(s[at[j]])
    BY <2>1 DEF Conversation
  <2> QED BY <1>3, <2>2
<1>5. \A i \in 1 .. N : q[i].role = "user" => ~q[i].error /\ q[i].text # <<>>
  BY <1>3 DEF Conversation
<1>6. ASSUME NEW n \in 2 .. N, q[n].role = "assistant"
      PROVE  q[n - 1].role = "user" /\ q[n - 1].turn = q[n].turn
  <2>1. n \in 1 .. N /\ n - 1 \in 1 .. N /\ n - 1 < n /\ n \in Int
    BY <1>2
  <2>2. at[n] \in 1 .. Len(s) /\ at[n - 1] \in 1 .. Len(s) /\ at[n - 1] < at[n]
    BY <1>2, <1>3, <2>1
  <2>3. at[n] \in 2 .. Len(s)
    BY <1>1, <2>2
  <2>4. s[at[n]].role = "assistant"
    BY <1>3, <1>6, <2>1
  <2>5. s[at[n] - 1].role = "user" /\ s[at[n] - 1].turn = s[at[n]].turn
    BY <2>3, <2>4 DEF Conversation
  <2>6. at[n] - 1 \in I /\ at[n] - 1 < at[n]
    <3>1. at[n] - 1 \in 1 .. Len(s)
      BY <1>1, <2>3
    <3> QED BY <2>2, <2>5, <3>1
  <2>7. PICK m \in 1 .. N : at[m] = at[n] - 1
    BY <1>2, <2>6
  <2>8. m < n /\ ~(m < n - 1)
    <3>1. m < n
      BY <1>2, <2>1, <2>6, <2>7
    <3>2. ASSUME m < n - 1 PROVE FALSE
      <4>1. at[m] < at[n - 1]
        BY <1>2, <2>1, <3>2
      <4> QED BY <1>1, <2>2, <2>7, <4>1
    <3> QED BY <3>1, <3>2
  <2>9. m = n - 1
    BY <2>1, <2>8
  <2> QED BY <1>3, <2>1, <2>5, <2>7, <2>9
<1>7. Conversation(q)
  BY <1>2, <1>4, <1>5, <1>6 DEF Conversation
<1> QED BY <1>2, <1>3, <1>7 DEF q

LEMMA LatestElements ==
  ASSUME NEW T, NEW s \in Seq(T), NEW n \in Nat
  PROVE  /\ Latest(s, n) \in Seq(T)
         /\ \E m \in 0 .. Len(s) :
              /\ Len(Latest(s, n)) = Len(s) - m
              /\ \A i \in 1 .. Len(s) - m : i + m \in 1 .. Len(s) /\ Latest(s, n)[i] = s[i + m]
<1>1. Len(s) \in Nat /\ s \in [1 .. Len(s) -> T]
  BY LenProperties
<1> DEFINE m == IF Len(s) > n THEN Len(s) - n ELSE 0
<1>2. m \in 0 .. Len(s)
  BY <1>1
<1>3. Latest(s, n) = SubSeq(s, m + 1, Len(s))
  <2>1. m + 1 = IF Len(s) > n THEN Len(s) - n + 1 ELSE 1
    BY <1>1
  <2> QED BY <2>1 DEF Latest
<1> HIDE DEF m
<1>4. SubSeq(s, m + 1, Len(s)) \in Seq(T) /\ Len(SubSeq(s, m + 1, Len(s))) = Len(s) - m
      /\ \A i \in 1 .. Len(s) - m : SubSeq(s, m + 1, Len(s))[i] = s[i + m]
  <2>1. m + 1 \in Int /\ Len(s) \in Int /\ Len(s) - (m + 1) + 1 = Len(s) - m
    BY <1>1, <1>2
  <2>2. \A i \in m + 1 .. Len(s) : s[i] \in T
    BY <1>1, <1>2
  <2>3. /\ SubSeq(s, m + 1, Len(s)) \in Seq(T)
        /\ Len(SubSeq(s, m + 1, Len(s))) = IF m + 1 <= Len(s) THEN Len(s) - (m + 1) + 1 ELSE 0
        /\ \A i \in 1 .. Len(s) - (m + 1) + 1 : SubSeq(s, m + 1, Len(s))[i] = s[m + 1 + i - 1]
    BY <2>1, <2>2, SubSeqProperties
  <2>4. \A i \in 1 .. Len(s) - m : m + 1 + i - 1 = i + m
    BY <1>1, <1>2
  <2>5. Len(SubSeq(s, m + 1, Len(s))) = Len(s) - m
    <3>1. (IF m + 1 <= Len(s) THEN Len(s) - (m + 1) + 1 ELSE 0) = Len(s) - m
      <4>1. \A L \in Nat : \A k \in 0 .. L : (IF k + 1 <= L THEN L - (k + 1) + 1 ELSE 0) = L - k
        OBVIOUS
      <4>2. Len(s) \in Nat
        BY <1>1
      <4> QED BY <1>2, <4>1, <4>2
    <3> QED BY <2>3, <3>1
  <2> QED BY <2>1, <2>3, <2>4, <2>5
<1>5. \A i \in 1 .. Len(s) - m : i + m \in 1 .. Len(s)
  BY <1>1, <1>2
<1> QED BY <1>2, <1>3, <1>4, <1>5

LEMMA LatestConversation ==
  ASSUME NEW s \in Seq(Message), Conversation(s), NEW n \in Nat
  PROVE  /\ Latest(s, n) \in Seq(Message) /\ Conversation(Latest(s, n))
         /\ \A i \in 1 .. Len(Latest(s, n)) : \E k \in 1 .. Len(s) : Latest(s, n)[i] = s[k]
<1> DEFINE q == Latest(s, n)
<1>1. Len(s) \in Nat
  BY LenProperties
<1>2. PICK m \in 0 .. Len(s) :
        /\ q \in Seq(Message) /\ Len(q) = Len(s) - m
        /\ \A i \in 1 .. Len(s) - m : i + m \in 1 .. Len(s) /\ q[i] = s[i + m]
  BY LatestElements
<1> HIDE DEF q
<1>3. \A i \in 1 .. Len(q) : i + m \in 1 .. Len(s) /\ q[i] = s[i + m]
  BY <1>2
<1>4. ASSUME NEW i \in 1 .. Len(q), NEW j \in 1 .. Len(q), i < j PROVE Key(q[i]) < Key(q[j])
  <2>1. i + m \in 1 .. Len(s) /\ j + m \in 1 .. Len(s) /\ i + m < j + m
    BY <1>1, <1>2, <1>3, <1>4
  <2>2. Key(s[i + m]) < Key(s[j + m])
    BY <2>1 DEF Conversation
  <2> QED BY <1>3, <2>2
<1>5. \A i \in 1 .. Len(q) : q[i].role = "user" => ~q[i].error /\ q[i].text # <<>>
  BY <1>3 DEF Conversation
<1>6. ASSUME NEW i \in 2 .. Len(q), q[i].role = "assistant"
      PROVE  q[i - 1].role = "user" /\ q[i - 1].turn = q[i].turn
  <2>1. i \in 1 .. Len(q) /\ i - 1 \in 1 .. Len(q) /\ i + m \in 2 .. Len(s) /\ (i - 1) + m = i + m - 1
    BY <1>1, <1>2
  <2>2. s[i + m].role = "assistant"
    BY <1>3, <1>6, <2>1
  <2>3. s[i + m - 1].role = "user" /\ s[i + m - 1].turn = s[i + m].turn
    BY <2>1, <2>2 DEF Conversation
  <2>4. q[i - 1] = s[i + m - 1] /\ q[i] = s[i + m]
    BY <1>3, <2>1
  <2> QED BY <2>3, <2>4
<1>7. Conversation(q)
  BY <1>4, <1>5, <1>6 DEF Conversation
<1> QED BY <1>2, <1>3, <1>7 DEF q

\* What the store keeps, and what a request carries, is a conversation of the same
\* messages.
LEMMA StoreConversation ==
  ASSUME NEW s \in Seq(Message), Conversation(s)
  PROVE  /\ Store(s) \in Seq(Message) /\ Conversation(Store(s))
         /\ \A n \in 1 .. Len(Store(s)) : \E k \in 1 .. Len(s) : Store(s)[n] = s[k] /\ ~s[k].error
<1> DEFINE I == {i \in DOMAIN s : ~s[i].error}
<1>1. DOMAIN s = 1 .. Len(s)
  BY LenProperties
<1>2. I \in SUBSET DOMAIN s /\ \A i \in 1 .. Len(s) : s[i].role = "user" => i \in I
  BY <1>1 DEF Conversation
<1>3. \A k \in I : k \in 1 .. Len(s) /\ ~s[k].error
  BY <1>1
<1>4. Store(s) = Pick(s, I)
  BY DEF Store
<1> HIDE DEF I
<1> QED BY <1>2, <1>3, <1>4, PickConversation, SMTT(30)

LEMMA RecentConversation ==
  ASSUME NEW s \in Seq(Message), Conversation(s)
  PROVE  /\ Recent(s) \in Seq(Message) /\ Conversation(Recent(s))
         /\ \A n \in 1 .. Len(Recent(s)) : \E k \in 1 .. Len(s) : Recent(s)[n] = s[k] /\ ~s[k].error
<1> DEFINE I == {i \in DOMAIN s : ~s[i].error /\ s[i].text # <<>>}
           q == Pick(s, I)
<1>1. DOMAIN s = 1 .. Len(s)
  BY LenProperties
<1>2. I \in SUBSET DOMAIN s /\ \A i \in 1 .. Len(s) : s[i].role = "user" => i \in I
  BY <1>1 DEF Conversation
<1>3. \A k \in I : k \in 1 .. Len(s) /\ ~s[k].error
  BY <1>1
<1>4. Recent(s) = Latest(q, RecentMessages)
  BY DEF Recent
<1> HIDE DEF I
<1>5. q \in Seq(Message) /\ Conversation(q) /\ \A n \in 1 .. Len(q) : \E k \in I : q[n] = s[k]
  BY <1>2, PickConversation
<1> HIDE DEF q
<1>6. RecentMessages \in Nat
  BY ChatAssumption
<1>7. /\ Recent(s) \in Seq(Message) /\ Conversation(Recent(s))
      /\ \A i \in 1 .. Len(Recent(s)) : \E k \in 1 .. Len(q) : Recent(s)[i] = q[k]
  BY <1>4, <1>5, <1>6, LatestConversation
<1>8. ASSUME NEW n \in 1 .. Len(Recent(s))
      PROVE  \E k \in 1 .. Len(s) : Recent(s)[n] = s[k] /\ ~s[k].error
  <2>1. PICK m \in 1 .. Len(q) : Recent(s)[n] = q[m]
    BY <1>7
  <2>2. PICK k \in I : q[m] = s[k]
    BY <1>5
  <2> QED BY <1>3, <2>1, <2>2
<1> QED BY <1>7, <1>8

-----------------------------------------------------------------------------
(* The history in a prompt                                                   *)

\* Pairs are questions with their own answers, in the order of their turns.
TurnPairs(p) ==
  /\ p \in Seq(Message \X Message)
  /\ \A i \in 1 .. Len(p) : /\ p[i][1].role = "user" /\ p[i][2].role = "assistant"
                            /\ p[i][1].turn = p[i][2].turn
  /\ \A i, j \in 1 .. Len(p) : i < j => p[i][2].turn < p[j][2].turn

LEMMA PairsOfTurns ==
  ASSUME NEW s \in Seq(Message), Conversation(s)
  PROVE  /\ TurnPairs(Pairs(s))
         /\ \A n \in 1 .. Len(Pairs(s)) : \E k \in 1 .. Len(s) : Pairs(s)[n][2] = s[k]
<1> DEFINE starts == {i \in 1 .. Len(s) - 1 : s[i].role = "user" /\ s[i + 1].role = "assistant"}
           at == Ascending(starts)
           N == Cardinality(starts)
           p == Pairs(s)
<1>1. Len(s) \in Nat /\ s \in [1 .. Len(s) -> Message]
  BY LenProperties
<1>2. IsFiniteSet(starts) /\ starts \in SUBSET Nat
  <2>1. IsFiniteSet(1 .. Len(s) - 1)
    <3>1. Len(s) - 1 \in Int /\ 1 \in Int
      BY <1>1
    <3> QED BY <3>1, FS_Interval
  <2>2. starts \in SUBSET (1 .. Len(s) - 1)
    OBVIOUS
  <2> QED BY <2>1, <2>2, FS_Subset
<1>3. \A i \in starts : i \in 1 .. Len(s) /\ i + 1 \in 2 .. Len(s) /\ i + 1 \in 1 .. Len(s)
                        /\ s[i].role = "user" /\ s[i + 1].role = "assistant"
  BY <1>1
<1>4. p = [n \in DOMAIN at |-> <<s[at[n]], s[at[n] + 1]>>]
  BY DEF Pairs
<1> HIDE DEF starts
<1>5. at \in [1 .. N -> starts] /\ \A i, j \in 1 .. N : i < j <=> at[i] < at[j]
  BY <1>2, AscendingSorts
<1>6. N \in Nat
  BY <1>2, FS_CardinalityType
<1> HIDE DEF p, at, N
<1>7. p = [n \in 1 .. N |-> <<s[at[n]], s[at[n] + 1]>>]
  BY <1>4, <1>5
<1>8. \A n \in 1 .. N : /\ at[n] \in 1 .. Len(s) /\ at[n] + 1 \in 1 .. Len(s) /\ at[n] + 1 \in 2 .. Len(s)
                        /\ s[at[n]].role = "user" /\ s[at[n] + 1].role = "assistant"
                        /\ s[at[n]] \in Message /\ s[at[n] + 1] \in Message
  BY <1>1, <1>3, <1>5
<1>9. \A n \in 1 .. N : <<s[at[n]], s[at[n] + 1]>> \in Message \X Message
  BY <1>8
<1>10. p \in Seq(Message \X Message)
  BY <1>6, <1>7, <1>9, IsASeq
<1>11. Len(p) = N
  BY <1>6, <1>7, <1>10, LenProperties
<1>12. \A n \in 1 .. N : p[n][1] = s[at[n]] /\ p[n][2] = s[at[n] + 1]
  BY <1>7
<1>13. \A n \in 1 .. N : p[n][1].turn = p[n][2].turn
  <2> SUFFICES ASSUME NEW n \in 1 .. N PROVE p[n][1].turn = p[n][2].turn
    OBVIOUS
  <2>1. s[(at[n] + 1) - 1].turn = s[at[n] + 1].turn /\ (at[n] + 1) - 1 = at[n]
    BY <1>8 DEF Conversation
  <2> QED BY <1>12, <2>1
<1>14. ASSUME NEW i \in 1 .. N, NEW j \in 1 .. N, i < j PROVE p[i][2].turn < p[j][2].turn
  <2>1. at[i] + 1 \in 1 .. Len(s) /\ at[j] + 1 \in 1 .. Len(s) /\ at[i] + 1 < at[j] + 1
    <3>1. at[i] < at[j]
      BY <1>5, <1>14
    <3> QED BY <1>8, <3>1
  <2>2. Key(s[at[i] + 1]) < Key(s[at[j] + 1])
    BY <2>1 DEF Conversation
  <2>3. s[at[i] + 1].turn \in Int /\ s[at[j] + 1].turn \in Int
    <3>1. \A m \in Message : m.turn \in Int
      BY ChatAssumption DEF Message, Turns
    <3> QED BY <1>8, <3>1
  <2>4. Key(s[at[i] + 1]) = 2 * s[at[i] + 1].turn + 1 /\ Key(s[at[j] + 1]) = 2 * s[at[j] + 1].turn + 1
    BY <1>8 DEF Key
  <2>5. s[at[i] + 1].turn < s[at[j] + 1].turn
    BY <2>2, <2>3, <2>4, SMTT(30)
  <2> QED BY <1>12, <2>5
<1>15. TurnPairs(p)
  BY <1>8, <1>10, <1>11, <1>12, <1>13, <1>14 DEF TurnPairs
<1> QED BY <1>8, <1>11, <1>12, <1>15 DEF p

LEMMA BoundedTurns ==
  ASSUME NEW s \in Seq(Message), Conversation(s)
  PROVE  /\ TurnPairs(BoundedHistory(s))
         /\ \A n \in 1 .. Len(BoundedHistory(s)) :
              \E k \in 1 .. Len(s) : BoundedHistory(s)[n][2] = s[k]
<1> DEFINE p == Pairs(s)
           Fits(n) == 2 * n <= HistoryMessages /\ PairChars(Latest(p, n)) <= HistoryChars
           S == {n \in 0 .. Len(p) : \A k \in 0 .. n : Fits(k)}
           q == BoundedHistory(s)
<1>1. TurnPairs(p) /\ \A n \in 1 .. Len(p) : \E k \in 1 .. Len(s) : p[n][2] = s[k]
  BY PairsOfTurns
<1>2. p \in Seq(Message \X Message) /\ Len(p) \in Nat
  BY <1>1, LenProperties DEF TurnPairs
<1>3. q = Latest(p, Max(S))
  BY DEF BoundedHistory
<1>4. Max(S) \in Nat
  <2>1. Fits(0)
    <3>1. Latest(p, 0) = <<>>
      <4>1. PICK m \in 0 .. Len(p) : Latest(p, 0) \in Seq(Message \X Message) /\ Len(Latest(p, 0)) = Len(p) - m
        BY <1>2, LatestElements
      <4>2. Latest(p, 0) = SubSeq(p, IF Len(p) > 0 THEN Len(p) - 0 + 1 ELSE 1, Len(p))
        BY DEF Latest
      <4>3. (IF Len(p) > 0 THEN Len(p) - 0 + 1 ELSE 1) = Len(p) + 1
        BY <1>2
      <4>4. SubSeq(p, Len(p) + 1, Len(p)) = <<>>
        BY <1>2
      <4> QED BY <4>2, <4>3, <4>4
    <3>2. PairChars(<<>>) = 0
      <4>1. DOMAIN <<>> = {}
        OBVIOUS
      <4> QED BY <4>1, SumEmpty DEF PairChars
    <3> QED BY <3>1, <3>2, ChatAssumption
  <2>2. \A k \in 0 .. 0 : Fits(k)
    BY <2>1
  <2> HIDE DEF Fits, p
  <2>3. 0 \in S
    BY <1>2, <2>2
  <2>4. S \in SUBSET (0 .. Len(p)) /\ S # {}
    BY <2>3
  <2> HIDE DEF S
  <2>5. Max(S) \in S
    BY <1>2, <2>4, Largest
  <2>6. Max(S) \in 0 .. Len(p)
    BY <2>4, <2>5
  <2> QED BY <1>2, <2>6
<1> HIDE DEF S, p, q
<1>5. PICK m \in 0 .. Len(p) :
        /\ q \in Seq(Message \X Message) /\ Len(q) = Len(p) - m
        /\ \A i \in 1 .. Len(p) - m : i + m \in 1 .. Len(p) /\ q[i] = p[i + m]
  BY <1>2, <1>3, <1>4, LatestElements
<1>6. \A i \in 1 .. Len(q) : i + m \in 1 .. Len(p) /\ q[i] = p[i + m]
  BY <1>5
<1>7. \A i \in 1 .. Len(q) : /\ q[i][1].role = "user" /\ q[i][2].role = "assistant"
                             /\ q[i][1].turn = q[i][2].turn
  BY <1>1, <1>6 DEF TurnPairs
<1>8. ASSUME NEW i \in 1 .. Len(q), NEW j \in 1 .. Len(q), i < j PROVE q[i][2].turn < q[j][2].turn
  <2>1. i + m \in 1 .. Len(p) /\ j + m \in 1 .. Len(p) /\ i + m < j + m
    BY <1>2, <1>5, <1>6, <1>8
  <2>2. p[i + m][2].turn < p[j + m][2].turn
    BY <1>1, <2>1 DEF TurnPairs
  <2> QED BY <1>6, <2>2
<1>9. TurnPairs(q)
  BY <1>5, <1>7, <1>8 DEF TurnPairs
<1>10. \A n \in 1 .. Len(q) : \E k \in 1 .. Len(s) : q[n][2] = s[k]
  <2> SUFFICES ASSUME NEW n \in 1 .. Len(q) PROVE \E k \in 1 .. Len(s) : q[n][2] = s[k]
    OBVIOUS
  <2>1. n + m \in 1 .. Len(p) /\ q[n] = p[n + m]
    BY <1>6
  <2> QED BY <1>1, <2>1
<1> QED BY <1>9, <1>10 DEF q

-----------------------------------------------------------------------------
(* The steps                                                                 *)

LEMMA MessageParts ==
  ASSUME NEW s \in Seq(Message)
  PROVE  /\ Len(s) \in Nat /\ DOMAIN s = 1 .. Len(s)
         /\ \A i \in 1 .. Len(s) : /\ s[i] \in Message /\ s[i].turn \in Turns /\ s[i].turn \in Nat \ {0}
                                   /\ s[i].text \in Seq(Turns) /\ s[i].role \in {"user", "assistant"}
<1>1. Len(s) \in Nat /\ DOMAIN s = 1 .. Len(s) /\ \A i \in 1 .. Len(s) : s[i] \in Message
  BY LenProperties
<1>2. \A m \in Message : m.turn \in Turns /\ m.turn \in Nat \ {0} /\ m.text \in Seq(Turns)
                         /\ m.role \in {"user", "assistant"}
  BY ChatAssumption DEF Message, Turns
<1> QED BY <1>1, <1>2

\* What is shown stays so when turns go on, and the store keeps the part of it that
\* has not failed.
LEMMA ShownStays ==
  ASSUME NEW s \in Seq(Message), NEW n \in Nat, NEW t, NEW left, NEW r,
         NEW n2 \in Nat, NEW t2, NEW left2, NEW r2,
         ShownIn(s, n, t, left, r), n <= n2, left \subseteq left2,
         \A u \in Turns : r[u] = "done" => r2[u] = "done",
         \A i \in 1 .. Len(s) : s[i].role = "assistant" /\ s[i].turn = t /\ t # t2 /\ t \notin left2 =>
                                r2[t] = "done" \/ s[i].error
  PROVE  ShownIn(s, n2, t2, left2, r2)
<1>1. \A i \in 1 .. Len(s) : s[i].turn \in Turns /\ s[i].turn \in Nat
  BY MessageParts
<1>2. ASSUME NEW i \in 1 .. Len(s)
      PROVE  /\ s[i].turn <= n2
             /\ \A k \in 1 .. Len(s[i].text) : s[i].text[k] = s[i].turn
             /\ s[i].role = "assistant" /\ s[i].turn # t2 /\ s[i].turn \notin left2 =>
                  r2[s[i].turn] = "done" \/ s[i].error
  <2>1. /\ s[i].turn <= n
        /\ \A k \in 1 .. Len(s[i].text) : s[i].text[k] = s[i].turn
        /\ s[i].role = "assistant" /\ s[i].turn # t /\ s[i].turn \notin left =>
             r[s[i].turn] = "done" \/ s[i].error
    BY DEF ShownIn
  <2>2. s[i].turn <= n2
    BY <1>1, <2>1
  <2>3. s[i].role = "assistant" /\ s[i].turn # t2 /\ s[i].turn \notin left2 =>
          r2[s[i].turn] = "done" \/ s[i].error
    BY <1>1, <2>1
  <2> QED BY <2>1, <2>2, <2>3
<1> QED BY <1>2 DEF ShownIn

LEMMA StoreShown ==
  ASSUME NEW s \in Seq(Message), NEW n, NEW t, NEW left, NEW r, ShownIn(s, n, t, left, r)
  PROVE  Store(s) \in Seq(Message) /\ ShownIn(Store(s), n, t, left, r)
<1>1. /\ Store(s) \in Seq(Message) /\ Conversation(Store(s))
      /\ \A m \in 1 .. Len(Store(s)) : \E k \in 1 .. Len(s) : Store(s)[m] = s[k] /\ ~s[k].error
  BY StoreConversation DEF ShownIn
<1> DEFINE q == Store(s)
<1> HIDE DEF q
<1>2. ASSUME NEW i \in 1 .. Len(q)
      PROVE  /\ q[i].turn <= n
             /\ \A k \in 1 .. Len(q[i].text) : q[i].text[k] = q[i].turn
             /\ q[i].role = "assistant" /\ q[i].turn # t /\ q[i].turn \notin left =>
                  r[q[i].turn] = "done" \/ q[i].error
  <2>1. PICK k \in 1 .. Len(s) : q[i] = s[k]
    BY <1>1 DEF q
  <2> QED BY <2>1 DEF ShownIn
<1>3. Conversation(q)
  BY <1>1 DEF q
<1>4. ShownIn(q, n, t, left, r)
  BY <1>2, <1>3 DEF ShownIn
<1> QED BY <1>1, <1>4 DEF q

\* An answer that can be used stays so.
LEMMA UsableStays ==
  ASSUME \A u \in Turns : reply[u] = "done" => reply'[u] = "done", abandoned \subseteq abandoned',
         NEW t \in Turns, NEW u \in Turns, Usable(u, t)
  PROVE  Usable(u, t)'
BY DEF Usable

LEMMA ReceivedStays ==
  ASSUME ChatInv, \A u \in Turns : reply[u] = "done" => reply'[u] = "done", abandoned \subseteq abandoned',
         NEW t \in Turns, received'[t] = received[t]
  PROVE  ReceivedOK(t)'
<1>1. received[t] \in Seq(Message) /\ ReceivedOK(t)
  BY DEF ChatInv, ChatTypeOK, TurnOK
<1>2. ASSUME NEW i \in 1 .. Len(received[t]), received[t][i].role = "assistant"
      PROVE  Usable(received[t][i].turn, t)'
  <2>1. received[t][i].turn \in Turns
    BY <1>1, MessageParts
  <2>2. Usable(received[t][i].turn, t)
    BY <1>1, <1>2 DEF ReceivedOK
  <2>3. PICK u \in Turns : u = received[t][i].turn
    BY <2>1
  <2>4. Usable(u, t)'
    BY <2>2, <2>3 DEF Usable
  <2> QED BY <2>3, <2>4
<1> QED BY <1>1, <1>2 DEF ReceivedOK, Conversation, Key

LEMMA KeptStays ==
  ASSUME ChatInv, \A u \in Turns : reply[u] = "done" => reply'[u] = "done", abandoned \subseteq abandoned',
         NEW t \in Turns, kept'[t] = kept[t]
  PROVE  KeptOK(t)'
<1>1. kept[t] \in Seq(Message \X Message) /\ KeptOK(t)
  BY DEF ChatInv, ChatTypeOK, TurnOK
<1>2. ASSUME NEW i \in 1 .. Len(kept[t])
      PROVE  Usable(kept[t][i][2].turn, t)'
  <2>1. kept[t][i] \in Message \X Message
    BY <1>1, LenProperties
  <2>2. kept[t][i][2] \in Message
    BY <2>1
  <2>3. PICK u \in Turns : u = kept[t][i][2].turn
    BY <2>2 DEF Message
  <2>4. Usable(u, t)
    BY <1>1, <2>3 DEF KeptOK
  <2>5. Usable(u, t)'
    BY <2>4 DEF Usable
  <2> QED BY <2>3, <2>5
<1> QED BY <1>1, <1>2 DEF KeptOK

\* A turn goes on at the endpoint, which changes nothing that the page has.
LEMMA EndpointKeeps ==
  ASSUME ChatInv, NEW t \in Turns, ChatTypeOK',
         UNCHANGED <<page, messages, session, asked, streaming, listening, abandoned>>,
         reply[t] \in {"asked", "grounded", "empty"},
         \A u \in Turns \ {t} : reply'[u] = reply[u] /\ wire'[u] = wire[u]
                                /\ received'[u] = received[u] /\ kept'[u] = kept[u],
         ReceivedOK(t)', KeptOK(t)', t = streaming => WireOK(t)'
  PROVE  ChatInv'
<1>1. \A u \in Turns : reply[u] = "done" => reply'[u] = "done"
  OBVIOUS
<1>2. messages \in Seq(Message) /\ session \in Seq(Message) /\ asked \in Nat
  BY ChatAssumption DEF ChatInv, ChatTypeOK
<1>3. Shown(messages)' /\ Shown(session)'
  <2>1. ASSUME NEW s \in Seq(Message), ShownIn(s, asked, streaming, abandoned, reply)
        PROVE  ShownIn(s, asked, streaming, abandoned, reply')
    BY <1>1, <1>2, <2>1, ShownStays
  <2> QED BY <1>2, <2>1 DEF ChatInv, Shown
<1>4. ASSUME NEW u \in Turns PROVE TurnOK(u)'
  <2>1. ReceivedOK(u)' /\ KeptOK(u)'
    BY <1>1, ReceivedStays, KeptStays
  <2>2. CASE u = t
    <3>1. t <= asked /\ ~(t # streaming /\ t \notin abandoned) /\ ~(t > asked)
      BY <1>2, ChatAssumption DEF ChatInv, TurnOK, Settled, Turns
    <3> QED BY <2>1, <2>2, <3>1 DEF TurnOK
  <2>3. CASE u # t
    <3>1. TurnOK(u) /\ reply'[u] = reply[u] /\ wire'[u] = wire[u]
      BY <2>3 DEF ChatInv
    <3> QED BY <2>1, <3>1 DEF TurnOK, Settled
  <2> QED BY <2>2, <2>3
<1>5. Composer'
  <2>1. streaming # 0 => WireOK(streaming)'
    <3>1. CASE streaming = t
      BY <3>1
    <3>2. CASE streaming # 0 /\ streaming # t
      <4>1. streaming \in Turns \ {t}
        BY <3>2, ChatAssumption DEF ChatInv, ChatTypeOK, Turns
      <4> QED BY <3>2, <4>1 DEF ChatInv, Composer, WireOK
    <3> QED BY <3>1, <3>2
  <2> QED BY <2>1 DEF ChatInv, Composer
<1> QED BY <1>3, <1>4, <1>5 DEF ChatInv

\* What a stream says is added at its end.
LEMMA SendTypes ==
  ASSUME ChatInv, NEW t \in Turns, NEW events \in Seq({"sources", "delta", "end", "error"}), Send(t, events)
  PROVE  /\ wire' \in [Turns -> Seq({"sources", "delta", "end", "error"})]
         /\ wire'[t] = wire[t] \o events /\ \A u \in Turns \ {t} : wire'[u] = wire[u]
<1>1. wire \in [Turns -> Seq({"sources", "delta", "end", "error"})] /\ wire' = [wire EXCEPT ![t] = wire[t] \o events]
  BY DEF ChatInv, ChatTypeOK, Send
<1>2. wire[t] \o events \in Seq({"sources", "delta", "end", "error"})
  BY <1>1, ConcatProperties
<1> QED BY <1>1, <1>2

\* Only the last thing that is said ends a stream.
LEMMA SendKeepsWire ==
  ASSUME ChatInv, NEW t \in Turns, t = streaming, reply[t] \in {"asked", "grounded", "empty"},
         NEW e \in {"sources", "delta", "end", "error"},
         wire'[t] = wire[t] \o <<e>>,
         \/ e \in {"sources", "delta"} /\ reply'[t] \in {"asked", "grounded", "empty"}
         \/ e = "end" /\ reply'[t] = "done"
         \/ e = "error" /\ reply'[t] = "failed"
  PROVE  WireOK(t)'
<1> DEFINE w == wire[t]
           v == w \o <<e>>
           n == Len(w)
<1>1. w \in Seq({"sources", "delta", "end", "error"}) /\ n \in Nat
  BY LenProperties DEF ChatInv, ChatTypeOK
<1>2. \A i \in 1 .. n : w[i] \notin {"end", "error"}
  BY ChatAssumption DEF ChatInv, Composer, WireOK, Turns
<1>3. Len(v) = n + 1 /\ v[n + 1] = e /\ \A i \in 1 .. n : v[i] = w[i]
  BY <1>1
<1>4. wire'[t] = v
  OBVIOUS
<1> HIDE DEF v, w, n
<1>5. \A i \in 1 .. Len(v) : v[i] \in {"end", "error"} => i = Len(v)
  BY <1>1, <1>2, <1>3
<1>6. Len(v) > 0 /\ v[Len(v)] = e
  BY <1>1, <1>3
<1> QED BY <1>4, <1>5, <1>6 DEF WireOK

LEMMA PrepareKeeps ==
  ASSUME ChatInv, NEW t \in Turns, Prepare(t)
  PROVE  ChatInv'
<1>1. /\ UNCHANGED <<page, messages, session, asked, streaming, listening, said, abandoned>>
      /\ reply[t] = "asked" /\ received' = [received EXCEPT ![t] = <<>>]
  BY DEF Prepare
<1>2. PICK r \in {"failed", "grounded", "empty"}, e \in {"error", "sources"} :
        /\ reply' = [reply EXCEPT ![t] = r] /\ Send(t, <<e>>)
        /\ \/ r = "failed" /\ e = "error" /\ UNCHANGED kept
           \/ r # "failed" /\ e = "sources" /\ kept' = [kept EXCEPT ![t] = BoundedHistory(received[t])]
  BY DEF Prepare
<1>3. <<e>> \in Seq({"sources", "delta", "end", "error"})
  BY <1>2
<1>4. /\ wire' \in [Turns -> Seq({"sources", "delta", "end", "error"})]
      /\ wire'[t] = wire[t] \o <<e>> /\ \A u \in Turns \ {t} : wire'[u] = wire[u]
  BY <1>2, <1>3, SendTypes
<1>5. received[t] \in Seq(Message) /\ ReceivedOK(t)
  BY DEF ChatInv, ChatTypeOK, TurnOK
<1>6. TurnPairs(BoundedHistory(received[t])) /\ BoundedHistory(received[t]) \in Seq(Message \X Message)
  BY <1>5, BoundedTurns DEF ReceivedOK, TurnPairs
<1>7. reply' \in [Turns -> {"none", "asked", "grounded", "empty", "done", "failed"}]
      /\ reply'[t] = r /\ \A u \in Turns \ {t} : reply'[u] = reply[u]
  BY <1>2 DEF ChatInv, ChatTypeOK
<1>8. received' \in [Turns -> Seq(Message)] /\ received'[t] = <<>>
      /\ \A u \in Turns \ {t} : received'[u] = received[u]
  BY <1>1 DEF ChatInv, ChatTypeOK
<1>9. kept' \in [Turns -> Seq(Message \X Message)] /\ \A u \in Turns \ {t} : kept'[u] = kept[u]
  BY <1>2, <1>6 DEF ChatInv, ChatTypeOK
<1>10. ChatTypeOK'
  BY <1>1, <1>4, <1>7, <1>8, <1>9 DEF ChatInv, ChatTypeOK
<1>11. \A u \in Turns : reply[u] = "done" => reply'[u] = "done"
  BY <1>1, <1>7
<1>12. ReceivedOK(t)'
  <2>1. Len(<<>>) = 0 /\ (\A i \in 1 .. 0 : FALSE) /\ (\A i \in 2 .. 0 : FALSE)
    OBVIOUS
  <2> QED BY <1>8, <2>1 DEF ReceivedOK, Conversation
<1>13. KeptOK(t)'
  <2>1. CASE kept' = kept
    BY <1>1, <1>11, <2>1, KeptStays
  <2>2. CASE kept' = [kept EXCEPT ![t] = BoundedHistory(received[t])]
    <3>0. PICK p : p = BoundedHistory(received[t])
      OBVIOUS
    <3>1. kept'[t] = p
      BY <2>2, <3>0 DEF ChatInv, ChatTypeOK
    <3>2. TurnPairs(p) /\ Len(p) \in Nat
      BY <1>6, <3>0, LenProperties
    <3>3. \A n \in 1 .. Len(p) : \E k \in 1 .. Len(received[t]) : p[n][2] = received[t][k]
      BY <1>5, <3>0, BoundedTurns DEF ReceivedOK
    <3>4. ASSUME NEW i \in 1 .. Len(p)
          PROVE  p[i][2].turn < t /\ (reply'[p[i][2].turn] = "done" \/ p[i][2].turn \in abandoned')
      <4>1. PICK k \in 1 .. Len(received[t]) : p[i][2] = received[t][k]
        BY <3>3
      <4>2. received[t][k].role = "assistant"
        BY <3>2, <4>1 DEF TurnPairs
      <4>3. Usable(received[t][k].turn, t) /\ received[t][k].turn \in Turns
        BY <1>5, <4>2, MessageParts DEF ReceivedOK
      <4> QED BY <1>1, <1>11, <4>1, <4>3 DEF Usable
    <3>5. \A i \in 1 .. Len(p) : i > 1 => p[i - 1][2].turn < p[i][2].turn
      <4> SUFFICES ASSUME NEW i \in 1 .. Len(p), i > 1 PROVE p[i - 1][2].turn < p[i][2].turn
        OBVIOUS
      <4>1. i - 1 \in 1 .. Len(p) /\ i - 1 < i
        BY <3>2
      <4> QED BY <3>2, <4>1 DEF TurnPairs
    <3> QED BY <3>1, <3>2, <3>4, <3>5 DEF KeptOK, TurnPairs, Usable
  <2> QED BY <1>2, <2>1, <2>2
<1>14. t = streaming => WireOK(t)'
  BY <1>1, <1>2, <1>4, <1>7, SendKeepsWire
<1> QED BY <1>1, <1>4, <1>7, <1>8, <1>9, <1>10, <1>12, <1>13, <1>14, EndpointKeeps

\* A turn that is over keeps nothing of its prompt.
LEMMA NothingKept ==
  ASSUME NEW t \in Turns, kept'[t] = <<>>
  PROVE  KeptOK(t)'
<1>1. Len(<<>>) = 0 /\ (\A i \in 1 .. 0 : FALSE)
  OBVIOUS
<1> QED BY <1>1 DEF KeptOK

LEMMA AbstainKeeps ==
  ASSUME ChatInv, NEW t \in Turns, Abstain(t)
  PROVE  ChatInv'
<1>1. /\ UNCHANGED <<page, messages, session, asked, streaming, listening, said, received, abandoned>>
      /\ reply[t] = "empty" /\ reply' = [reply EXCEPT ![t] = "done"]
      /\ kept' = [kept EXCEPT ![t] = <<>>] /\ Send(t, <<"delta", "end">>)
  BY DEF Abstain
<1>2. /\ wire' \in [Turns -> Seq({"sources", "delta", "end", "error"})]
      /\ wire'[t] = wire[t] \o <<"delta", "end">> /\ \A u \in Turns \ {t} : wire'[u] = wire[u]
  <2>1. <<"delta", "end">> \in Seq({"sources", "delta", "end", "error"})
    OBVIOUS
  <2> QED BY <1>1, <2>1, SendTypes
<1>3. reply' \in [Turns -> {"none", "asked", "grounded", "empty", "done", "failed"}]
      /\ reply'[t] = "done" /\ \A u \in Turns \ {t} : reply'[u] = reply[u]
  BY <1>1 DEF ChatInv, ChatTypeOK
<1>4. kept' \in [Turns -> Seq(Message \X Message)] /\ kept'[t] = <<>> /\ \A u \in Turns \ {t} : kept'[u] = kept[u]
  BY <1>1 DEF ChatInv, ChatTypeOK
<1>5. ChatTypeOK'
  BY <1>1, <1>2, <1>3, <1>4 DEF ChatInv, ChatTypeOK
<1>6. ReceivedOK(t)' /\ KeptOK(t)'
  BY <1>1, <1>3, <1>4, ReceivedStays, NothingKept
<1>7. t = streaming => WireOK(t)'
  <2> SUFFICES ASSUME t = streaming PROVE WireOK(t)'
    OBVIOUS
  <2> DEFINE w == wire[t]
             n == Len(w)
             v == wire[t] \o <<"delta", "end">>
  <2>1. w \in Seq({"sources", "delta", "end", "error"}) /\ n \in Nat
    BY LenProperties DEF ChatInv, ChatTypeOK
  <2>2. \A i \in 1 .. n : w[i] \notin {"end", "error"}
    BY <1>1, ChatAssumption DEF ChatInv, Composer, WireOK, Turns
  <2>3. Len(v) = n + 2 /\ v[n + 1] = "delta" /\ v[n + 2] = "end" /\ \A i \in 1 .. n : v[i] = w[i]
    BY <2>1
  <2> HIDE DEF v, w, n
  <2>4. \A i \in 1 .. Len(v) : v[i] \in {"end", "error"} => i = Len(v)
    <3> SUFFICES ASSUME NEW i \in 1 .. Len(v), v[i] \in {"end", "error"} PROVE i = Len(v)
      OBVIOUS
    <3>1. i \in 1 .. n \/ i = n + 1 \/ i = n + 2
      BY <2>1, <2>3
    <3> QED BY <2>2, <2>3, <3>1
  <2>5. Len(v) > 0 /\ v[Len(v)] = "end"
    BY <2>1, <2>3
  <2> QED BY <1>2, <1>3, <2>4, <2>5 DEF WireOK, v
<1> QED BY <1>1, <1>2, <1>3, <1>4, <1>5, <1>6, <1>7, EndpointKeeps

LEMMA GenerateKeeps ==
  ASSUME ChatInv, NEW t \in Turns, Generate(t)
  PROVE  ChatInv'
<1>1. /\ UNCHANGED <<page, messages, session, asked, streaming, listening, received, abandoned>>
      /\ reply[t] = "grounded"
  BY DEF Generate
<1>2. PICK r \in {"grounded", "done", "failed"}, e \in {"delta", "end", "error"} :
        /\ reply' = [reply EXCEPT ![t] = r] /\ Send(t, <<e>>)
        /\ \/ r = "grounded" /\ e = "delta" /\ UNCHANGED kept
           \/ r = "done" /\ e = "end" /\ kept' = [kept EXCEPT ![t] = <<>>]
           \/ r = "failed" /\ e = "error" /\ kept' = [kept EXCEPT ![t] = <<>>]
  <2>1. CASE UNCHANGED <<reply, kept>> /\ Send(t, <<"delta">>)
    <3>1. reply' = [reply EXCEPT ![t] = "grounded"]
      BY <1>1, <2>1 DEF ChatInv, ChatTypeOK
    <3> QED BY <2>1, <3>1
  <2>2. CASE /\ kept' = [kept EXCEPT ![t] = <<>>]
             /\ \/ reply' = [reply EXCEPT ![t] = "done"] /\ Send(t, <<"end">>)
                \/ reply' = [reply EXCEPT ![t] = "failed"] /\ Send(t, <<"error">>)
    BY <2>2
  <2> QED BY <2>1, <2>2 DEF Generate
<1>3. said' \in [Turns -> 0 .. MaxPieces]
  <2>1. said \in [Turns -> 0 .. MaxPieces]
    BY DEF ChatInv, ChatTypeOK
  <2>2. CASE said[t] < MaxPieces /\ said' = [said EXCEPT ![t] = said[t] + 1]
    <3>1. said[t] + 1 \in 0 .. MaxPieces
      BY <2>1, <2>2, ChatAssumption
    <3> QED BY <2>1, <2>2, <3>1
  <2>3. CASE said' = [said EXCEPT ![t] = 0]
    BY <2>1, <2>3, ChatAssumption
  <2> QED BY <2>2, <2>3 DEF Generate
<1>4. <<e>> \in Seq({"sources", "delta", "end", "error"})
  BY <1>2
<1>5. /\ wire' \in [Turns -> Seq({"sources", "delta", "end", "error"})]
      /\ wire'[t] = wire[t] \o <<e>> /\ \A u \in Turns \ {t} : wire'[u] = wire[u]
  BY <1>2, <1>4, SendTypes
<1>6. reply' \in [Turns -> {"none", "asked", "grounded", "empty", "done", "failed"}]
      /\ reply'[t] = r /\ \A u \in Turns \ {t} : reply'[u] = reply[u]
  BY <1>2 DEF ChatInv, ChatTypeOK
<1>7. kept' \in [Turns -> Seq(Message \X Message)] /\ \A u \in Turns \ {t} : kept'[u] = kept[u]
  <2>1. kept \in [Turns -> Seq(Message \X Message)] /\ <<>> \in Seq(Message \X Message)
    BY DEF ChatInv, ChatTypeOK
  <2>2. kept' = kept \/ kept' = [kept EXCEPT ![t] = <<>>]
    BY <1>2
  <2> QED BY <2>1, <2>2
<1>8. ChatTypeOK'
  BY <1>1, <1>3, <1>5, <1>6, <1>7 DEF ChatInv, ChatTypeOK
<1>9. \A u \in Turns : reply[u] = "done" => reply'[u] = "done"
  BY <1>1, <1>6
<1>10. ReceivedOK(t)'
  BY <1>1, <1>9, ReceivedStays
<1>11. KeptOK(t)'
  <2>1. CASE kept' = kept
    BY <1>1, <1>9, <2>1, KeptStays
  <2>2. CASE kept' = [kept EXCEPT ![t] = <<>>]
    BY <2>2, NothingKept DEF ChatInv, ChatTypeOK
  <2> QED BY <1>2, <2>1, <2>2
<1>12. t = streaming => WireOK(t)'
  BY <1>1, <1>2, <1>5, <1>6, SendKeepsWire
<1> QED BY <1>1, <1>5, <1>6, <1>7, <1>8, <1>10, <1>11, <1>12, EndpointKeeps

\* Asking adds a question and an empty answer behind all that is shown.
LEMMA AskShows ==
  ASSUME NEW s \in Seq(Message), NEW n \in Nat, NEW left, NEW r, NEW r2,
         ShownIn(s, n, 0, left, r), n + 1 \in Turns, NEW chars \in Nat \ {0},
         \A u \in Turns : r[u] = "done" => r2[u] = "done"
  PROVE  LET q == s \o <<Question(n + 1, chars), NoAnswer(n + 1)>> IN
         /\ q \in Seq(Message) /\ ShownIn(q, n + 1, n + 1, left, r2)
         /\ Len(q) > 0 /\ q[Len(q)].role = "assistant" /\ q[Len(q)].turn = n + 1
<1> DEFINE a == Question(n + 1, chars)
           b == NoAnswer(n + 1)
           c == [i \in 1 .. chars |-> n + 1]
           L == Len(s)
           q == s \o <<Question(n + 1, chars), NoAnswer(n + 1)>>
<1>1. c \in Seq(Turns) /\ Len(c) = chars /\ c # <<>> /\ \A k \in 1 .. Len(c) : c[k] = n + 1
  <2>1. c \in Seq(Turns)
    BY IsASeq
  <2>2. Len(c) = chars
    BY <2>1, LenProperties
  <2>3. c # <<>>
    BY <2>2
  <2> QED BY <2>1, <2>2, <2>3
<1>2. a = [role |-> "user", turn |-> n + 1, text |-> c, error |-> FALSE]
      /\ b = [role |-> "assistant", turn |-> n + 1, text |-> <<>>, error |-> FALSE]
  BY DEF Question, NoAnswer
<1> HIDE DEF a, b, c, L, q
<1>3. /\ a.role = "user" /\ a.turn = n + 1 /\ ~a.error /\ a.text # <<>>
      /\ \A k \in 1 .. Len(a.text) : a.text[k] = n + 1
      /\ b.role = "assistant" /\ b.turn = n + 1 /\ \A k \in 1 .. Len(b.text) : b.text[k] = n + 1
  <2>1. a.text = c /\ b.text = <<>> /\ Len(<<>>) = 0 /\ \A k \in 1 .. 0 : FALSE
    BY <1>2
  <2>2. a.role = "user" /\ a.turn = n + 1 /\ ~a.error /\ b.role = "assistant" /\ b.turn = n + 1
    BY <1>2
  <2> QED BY <1>1, <2>1, <2>2
<1>4. L \in Nat /\ \A i \in 1 .. L : s[i] \in Message /\ s[i].turn \in Nat /\ s[i].turn \in Turns
  BY MessageParts DEF L
<1>5. a \in Message /\ b \in Message
  BY <1>1, <1>2 DEF Message
<1>6. /\ q \in Seq(Message) /\ Len(q) = L + 2 /\ q[L + 1] = a /\ q[L + 2] = b
      /\ \A i \in 1 .. L : q[i] = s[i]
  <2>1. q = s \o <<a, b>>
    BY DEF a, b, q
  <2>2. <<a, b>> \in Seq(Message) /\ Len(<<a, b>>) = 2 /\ <<a, b>>[1] = a /\ <<a, b>>[2] = b
    BY <1>5
  <2>3. /\ q \in Seq(Message) /\ Len(q) = L + 2
        /\ \A i \in 1 .. L + 2 : q[i] = IF i <= L THEN s[i] ELSE <<a, b>>[i - L]
    BY <2>1, <2>2, ConcatProperties DEF L
  <2>4. q[L + 1] = a /\ q[L + 2] = b
    <3>1. /\ L + 1 \in 1 .. L + 2 /\ L + 2 \in 1 .. L + 2 /\ ~(L + 1 <= L) /\ ~(L + 2 <= L)
          /\ (L + 1) - L = 1 /\ (L + 2) - L = 2
      BY <1>4
    <3> QED BY <2>2, <2>3, <3>1
  <2>5. \A i \in 1 .. L : i \in 1 .. L + 2 /\ i <= L
    BY <1>4
  <2> QED BY <2>3, <2>4, <2>5
<1>7. \A i \in 1 .. Len(q) : i \in 1 .. L \/ i = L + 1 \/ i = L + 2
  BY <1>4, <1>6
<1>8. \A i \in 1 .. L : Key(s[i]) < Key(a) /\ Key(s[i]) < Key(b)
  <2> SUFFICES ASSUME NEW i \in 1 .. L PROVE Key(s[i]) < Key(a) /\ Key(s[i]) < Key(b)
    OBVIOUS
  <2>1. s[i].turn <= n /\ s[i].turn \in Nat
    BY <1>4 DEF ShownIn, L
  <2>2. Key(s[i]) <= 2 * s[i].turn + 1
    BY <2>1 DEF Key
  <2>3. Key(a) = 2 * (n + 1) /\ Key(b) = 2 * (n + 1) + 1
    BY <1>3 DEF Key
  <2>4. Key(s[i]) \in Int
    BY <2>1 DEF Key
  <2> QED BY <2>1, <2>2, <2>3, <2>4
<1>9. ASSUME NEW i \in 1 .. Len(q), NEW j \in 1 .. Len(q), i < j PROVE Key(q[i]) < Key(q[j])
  <2>1. CASE j \in 1 .. L
    <3>1. i \in 1 .. L
      BY <1>4, <1>9, <2>1
    <3> QED BY <1>6, <1>9, <2>1, <3>1 DEF ShownIn, Conversation, L
  <2>2. CASE i \in 1 .. L /\ j \notin 1 .. L
    BY <1>6, <1>7, <1>8, <2>2
  <2>3. CASE i \notin 1 .. L /\ j \notin 1 .. L
    <3>1. i = L + 1 /\ j = L + 2
      BY <1>4, <1>7, <1>9, <2>3
    <3>2. Key(a) < Key(b)
      <4>1. Key(a) = 2 * (n + 1) /\ Key(b) = 2 * (n + 1) + 1
        BY <1>3 DEF Key
      <4> QED BY <4>1
    <3> QED BY <1>6, <3>1, <3>2
  <2> QED BY <2>1, <2>2, <2>3
<1>10. \A i \in 1 .. Len(q) : q[i].role = "user" => ~q[i].error /\ q[i].text # <<>>
  BY <1>3, <1>6, <1>7 DEF ShownIn, Conversation, L
<1>11. ASSUME NEW i \in 2 .. Len(q), q[i].role = "assistant"
       PROVE  q[i - 1].role = "user" /\ q[i - 1].turn = q[i].turn
  <2>1. CASE i \in 1 .. L
    <3>1. i \in 2 .. L /\ i - 1 \in 1 .. L
      BY <1>4, <2>1
    <3> QED BY <1>6, <1>11, <2>1, <3>1 DEF ShownIn, Conversation, L
  <2>2. CASE i \notin 1 .. L
    <3>1. i \in 1 .. Len(q)
      BY <1>4, <1>6
    <3>2. i = L + 2 /\ i - 1 = L + 1
      BY <1>3, <1>4, <1>6, <1>7, <1>11, <2>2, <3>1
    <3> QED BY <1>3, <1>6, <3>2
  <2> QED BY <2>1, <2>2
<1>12. ASSUME NEW i \in 1 .. Len(q)
       PROVE  /\ q[i].turn <= n + 1
              /\ \A k \in 1 .. Len(q[i].text) : q[i].text[k] = q[i].turn
              /\ q[i].role = "assistant" /\ q[i].turn # n + 1 /\ q[i].turn \notin left =>
                   r2[q[i].turn] = "done" \/ q[i].error
  <2>1. CASE i \in 1 .. L
    <3>1. /\ s[i].turn <= n /\ s[i].turn \in Nat /\ s[i].turn \in Turns
          /\ \A k \in 1 .. Len(s[i].text) : s[i].text[k] = s[i].turn
          /\ s[i].role = "assistant" /\ s[i].turn # 0 /\ s[i].turn \notin left =>
               r[s[i].turn] = "done" \/ s[i].error
      BY <1>4, <2>1 DEF ShownIn, L
    <3>2. q[i] = s[i] /\ s[i].turn # 0
      BY <1>6, <2>1, <3>1, ChatAssumption DEF Turns
    <3>3. s[i].turn <= n + 1
      BY <3>1
    <3> QED BY <3>1, <3>2, <3>3
  <2>2. CASE i = L + 1
    <3>1. q[i] = a
      BY <1>6, <2>2
    <3> QED BY <1>3, <3>1
  <2>3. CASE i = L + 2
    <3>1. q[i] = b
      BY <1>6, <2>3
    <3> QED BY <1>3, <3>1
  <2> QED BY <1>7, <2>1, <2>2, <2>3
<1>13. ShownIn(q, n + 1, n + 1, left, r2)
  BY <1>9, <1>10, <1>11, <1>12 DEF ShownIn, Conversation
<1>14. L + 2 > 0
  BY <1>4
<1>15. Len(q) > 0 /\ q[Len(q)] = b
  BY <1>6, <1>14
<1>16. q[Len(q)].role = "assistant" /\ q[Len(q)].turn = n + 1
  BY <1>3, <1>15
<1> QED BY <1>6, <1>13, <1>15, <1>16 DEF q

LEMMA AskKeeps ==
  ASSUME ChatInv, NEW chars \in QuestionChars, Ask(chars)
  PROVE  ChatInv'
<1>0. PICK t : t = asked + 1
  OBVIOUS
<1>1. /\ asked \in Nat /\ t \in Turns /\ t \in Nat /\ messages \in Seq(Message) /\ streaming = 0
      /\ page = "open" /\ chars \in Nat \ {0} /\ asked < MaxTurns
  BY <1>0, ChatAssumption DEF ChatInv, ChatTypeOK, Ask, CanAsk, Turns
<1>2. /\ asked' = t /\ streaming' = t /\ listening' = listening \union {t}
      /\ session' = Store(messages')
      /\ messages' = messages \o <<Question(asked + 1, chars), NoAnswer(asked + 1)>>
      /\ received' = [received EXCEPT ![t] = Recent(messages)]
      /\ reply' = [reply EXCEPT ![t] = "asked"]
      /\ UNCHANGED <<page, said, kept, wire, abandoned>>
  BY <1>0 DEF Ask, Show
<1>3. reply[t] = "none" /\ wire[t] = <<>> /\ t > asked
  BY <1>0, <1>1 DEF ChatInv, TurnOK
<1>4. reply' \in [Turns -> {"none", "asked", "grounded", "empty", "done", "failed"}]
      /\ reply'[t] = "asked" /\ \A u \in Turns \ {t} : reply'[u] = reply[u]
  BY <1>1, <1>2 DEF ChatInv, ChatTypeOK
<1>5. \A u \in Turns : reply[u] = "done" => reply'[u] = "done"
  BY <1>3, <1>4
<1>6. /\ messages' \in Seq(Message)
      /\ ShownIn(messages', asked', streaming', abandoned', reply')
      /\ Len(messages') > 0 /\ messages'[Len(messages')].role = "assistant"
      /\ messages'[Len(messages')].turn = streaming'
  <2>1. ShownIn(messages, asked, streaming, abandoned, reply)
    BY DEF ChatInv, Shown
  <2>2. asked + 1 \in Turns
    BY <1>0, <1>1
  <2>3. ShownIn(messages, asked, 0, abandoned, reply)
    BY <1>1, <2>1
  <2> DEFINE q == messages \o <<Question(asked + 1, chars), NoAnswer(asked + 1)>>
  <2>4. /\ q \in Seq(Message) /\ ShownIn(q, asked + 1, asked + 1, abandoned, reply')
        /\ Len(q) > 0 /\ q[Len(q)].role = "assistant" /\ q[Len(q)].turn = asked + 1
    BY <1>1, <1>5, <2>2, <2>3, AskShows
  <2>5. messages' = q
    BY <1>2
  <2> HIDE DEF q
  <2> QED BY <1>0, <1>2, <2>4, <2>5
<1>7. session' \in Seq(Message) /\ ShownIn(session', asked', streaming', abandoned', reply')
  BY <1>2, <1>6, StoreShown
<1>8. /\ Recent(messages) \in Seq(Message) /\ Conversation(Recent(messages))
      /\ \A n \in 1 .. Len(Recent(messages)) :
           \E k \in 1 .. Len(messages) : Recent(messages)[n] = messages[k] /\ ~messages[k].error
  BY <1>1, RecentConversation DEF ChatInv, Shown, ShownIn
<1>9. received' \in [Turns -> Seq(Message)] /\ received'[t] = Recent(messages)
      /\ \A u \in Turns \ {t} : received'[u] = received[u]
  BY <1>1, <1>2, <1>8 DEF ChatInv, ChatTypeOK
<1>10. ChatTypeOK'
  <2>1. asked' \in 0 .. MaxTurns /\ streaming' \in 0 .. MaxTurns /\ listening' \subseteq Turns
    <3>1. t \in 0 .. MaxTurns
      BY <1>0, <1>1, ChatAssumption DEF Turns
    <3>2. listening \subseteq Turns
      BY DEF ChatInv, ChatTypeOK
    <3> QED BY <1>1, <1>2, <3>1, <3>2
  <2> QED BY <1>2, <1>4, <1>6, <1>7, <1>9, <2>1 DEF ChatInv, ChatTypeOK
<1>11. ReceivedOK(t)'
  <2>1. PICK p : p = Recent(messages)
    OBVIOUS
  <2>2. ASSUME NEW i \in 1 .. Len(p), p[i].role = "assistant"
        PROVE  p[i].turn < t /\ (reply'[p[i].turn] = "done" \/ p[i].turn \in abandoned')
    <3>1. PICK k \in 1 .. Len(messages) : p[i] = messages[k] /\ ~messages[k].error
      BY <1>8, <2>1
    <3>2. messages[k].turn \in Turns /\ messages[k].turn \in Nat \ {0}
      BY <1>1, MessageParts
    <3>3. /\ messages[k].turn <= asked
          /\ messages[k].turn \notin abandoned => reply[messages[k].turn] = "done"
      BY <1>1, <2>2, <3>1, <3>2 DEF ChatInv, Shown, ShownIn
    <3>4. messages[k].turn < t
      BY <1>0, <1>1, <3>2, <3>3
    <3> QED BY <1>2, <1>5, <3>1, <3>2, <3>3, <3>4
  <2>3. received'[t] = p /\ Conversation(p)
    BY <1>8, <1>9, <2>1
  <2>4. Conversation(received[t])'
    BY <2>3 DEF Conversation, Key
  <2> QED BY <2>2, <2>3, <2>4 DEF ReceivedOK, Usable
<1>12. ASSUME NEW u \in Turns PROVE TurnOK(u)'
  <2>1. KeptOK(u)'
    BY <1>2, <1>5, KeptStays
  <2>2. CASE u = t
    <3>1. ReceivedOK(u)'
      BY <1>11, <2>2
    <3>2. ~(u # streaming') /\ ~(u > asked')
      BY <1>0, <1>1, <1>2, <2>2
    <3> QED BY <2>1, <3>1, <3>2 DEF TurnOK
  <2>3. CASE u # t
    <3>1. ReceivedOK(u)'
      BY <1>2, <1>5, <1>9, <2>3, ReceivedStays
    <3>2. TurnOK(u) /\ reply'[u] = reply[u] /\ wire'[u] = wire[u]
      BY <1>2, <1>4, <2>3 DEF ChatInv
    <3>3. u \in Nat \ {0} /\ (u <= asked' => u <= asked) /\ (u > asked' => u > asked)
      BY <1>0, <1>1, <1>2, <2>3, ChatAssumption DEF Turns
    <3>4. u # streaming
      BY <1>1, <3>3
    <3> QED BY <1>2, <2>1, <3>1, <3>2, <3>3, <3>4 DEF TurnOK, Settled
  <2> QED BY <2>2, <2>3
<1>13. Composer'
  <2>1. abandoned \subseteq 1 .. asked /\ listening \subseteq (1 .. asked) \ abandoned
    BY DEF ChatInv, Composer
  <2>2. t \notin abandoned /\ t \in 1 .. t /\ \A u \in 1 .. asked : u \in 1 .. t
    BY <1>0, <1>1, <2>1
  <2>3. abandoned' \subseteq 1 .. asked' /\ listening' \subseteq (1 .. asked') \ abandoned'
    BY <1>2, <2>1, <2>2
  <2>4. WireOK(t)'
    <3>1. Len(<<>>) = 0 /\ \A i \in 1 .. 0 : FALSE
      OBVIOUS
    <3> QED BY <1>2, <1>3, <1>4, <3>1 DEF WireOK
  <2>5. WireOK(streaming)'
    BY <1>2, <2>4 DEF WireOK
  <2> QED BY <1>1, <1>2, <1>6, <2>2, <2>3, <2>5 DEF Composer
<1> QED BY <1>6, <1>7, <1>10, <1>12, <1>13 DEF ChatInv, Shown

\* The page changes its last message, the answer that is being streamed.
LEMMA EditShows ==
  ASSUME NEW s \in Seq(Message), NEW n, NEW t, NEW left, NEW r,
         ShownIn(s, n, t, left, r), Len(s) > 0,
         s[Len(s)].role = "assistant", s[Len(s)].turn = t,
         NEW m \in Message, m.role = "assistant", m.turn = t,
         \A k \in 1 .. Len(m.text) : m.text[k] = t
  PROVE  LET q == [s EXCEPT ![Len(s)] = m] IN
         /\ q \in Seq(Message) /\ Len(q) = Len(s) /\ q[Len(q)] = m
         /\ ShownIn(q, n, t, left, r)
         /\ m.error => ShownIn(q, n, 0, left, r)
<1> DEFINE q == [s EXCEPT ![Len(s)] = m]
           L == Len(s)
<1>1. L \in Nat /\ L \in 1 .. L /\ \A i \in 1 .. L : s[i] \in Message /\ s[i].turn \in Nat
  BY MessageParts
<1>2. q \in Seq(Message) /\ Len(q) = L /\ q[L] = m /\ \A i \in 1 .. L : i # L => q[i] = s[i]
  BY <1>1, ExceptSeq
<1>3. s[L].role = "assistant" /\ s[L].turn = t
  OBVIOUS
<1>4. ShownIn(s, n, t, left, r) /\ Conversation(s)
  BY DEF ShownIn
<1>5. /\ \A i, j \in 1 .. L : i < j => Key(s[i]) < Key(s[j])
      /\ \A i \in 1 .. L : s[i].role = "user" => ~s[i].error /\ s[i].text # <<>>
      /\ \A i \in 2 .. L : s[i].role = "assistant" => s[i - 1].role = "user" /\ s[i - 1].turn = s[i].turn
  BY <1>4 DEF Conversation
<1>6. \A i \in 1 .. L :
        /\ s[i].turn <= n
        /\ \A k \in 1 .. Len(s[i].text) : s[i].text[k] = s[i].turn
        /\ s[i].role = "assistant" /\ s[i].turn # t /\ s[i].turn \notin left =>
             r[s[i].turn] = "done" \/ s[i].error
  BY <1>4 DEF ShownIn
<1> HIDE DEF q, L
<1>7. \A i \in 1 .. L : q[i].role = s[i].role /\ q[i].turn = s[i].turn /\ Key(q[i]) = Key(s[i])
  <2> SUFFICES ASSUME NEW i \in 1 .. L
               PROVE  q[i].role = s[i].role /\ q[i].turn = s[i].turn /\ Key(q[i]) = Key(s[i])
    OBVIOUS
  <2>1. q[i].role = s[i].role /\ q[i].turn = s[i].turn
    BY <1>2, <1>3
  <2> QED BY <2>1 DEF Key
<1>8. \A i, j \in 1 .. L : i < j => Key(q[i]) < Key(q[j])
  BY <1>5, <1>7
<1>9. \A i \in 1 .. L : q[i].role = "user" => ~q[i].error /\ q[i].text # <<>>
  BY <1>2, <1>3, <1>5, <1>7
<1>10. \A i \in 2 .. L : q[i].role = "assistant" => q[i - 1].role = "user" /\ q[i - 1].turn = q[i].turn
  <2> SUFFICES ASSUME NEW i \in 2 .. L, q[i].role = "assistant"
               PROVE  q[i - 1].role = "user" /\ q[i - 1].turn = q[i].turn
    OBVIOUS
  <2>1. i \in 1 .. L /\ i - 1 \in 1 .. L
    BY <1>1
  <2> QED BY <1>5, <1>7, <2>1
<1>11. Conversation(q)
  BY <1>2, <1>8, <1>9, <1>10 DEF Conversation
<1>12. ASSUME NEW i \in 1 .. L
       PROVE  /\ q[i].turn <= n
              /\ \A k \in 1 .. Len(q[i].text) : q[i].text[k] = q[i].turn
              /\ q[i].role = "assistant" /\ q[i].turn # t /\ q[i].turn \notin left =>
                   r[q[i].turn] = "done" \/ q[i].error
  <2>1. CASE i # L
    BY <1>2, <1>6, <2>1
  <2>2. CASE i = L
    <3>1. q[i] = m /\ s[i].turn = t /\ s[i].turn <= n
      BY <1>2, <1>3, <1>6, <2>2
    <3> QED BY <3>1
  <2> QED BY <2>1, <2>2
<1>13. ShownIn(q, n, t, left, r)
  BY <1>2, <1>11, <1>12 DEF ShownIn
<1>14. ASSUME m.error PROVE ShownIn(q, n, 0, left, r)
  <2>1. ASSUME NEW i \in 1 .. L, q[i].role = "assistant", q[i].turn = t PROVE q[i].error
    <3>1. CASE i = L
      BY <1>2, <1>14, <3>1
    <3>2. CASE i # L
      <4>1. i < L
        BY <1>1, <3>2
      <4>2. Key(s[i]) < Key(s[L])
        BY <1>1, <1>5, <4>1
      <4>3. Key(s[i]) = 2 * t + 1 /\ Key(s[L]) = 2 * t + 1 /\ t \in Nat
        BY <1>1, <1>3, <1>7, <2>1 DEF Key
      <4> QED BY <4>2, <4>3
    <3> QED BY <3>1, <3>2
  <2>2. ASSUME NEW i \in 1 .. L
        PROVE  q[i].role = "assistant" /\ q[i].turn # 0 /\ q[i].turn \notin left =>
                 r[q[i].turn] = "done" \/ q[i].error
    BY <1>12, <2>1
  <2> QED BY <1>2, <1>11, <1>12, <2>2 DEF ShownIn
<1> QED BY <1>2, <1>13, <1>14 DEF q, L

LEMMA ReadTypes ==
  ASSUME ChatInv, NEW t \in Turns, wire[t] # <<>>, wire' = [wire EXCEPT ![t] = Tail(@)]
  PROVE  /\ wire' \in [Turns -> Seq({"sources", "delta", "end", "error"})]
         /\ \A u \in Turns \ {t} : wire'[u] = wire[u]
         /\ wire'[t] = Tail(wire[t]) /\ Len(wire'[t]) = Len(wire[t]) - 1 /\ Len(wire[t]) \in Nat \ {0}
         /\ \A i \in 1 .. Len(wire'[t]) : wire'[t][i] = wire[t][i + 1]
         /\ Head(wire[t]) = wire[t][1] /\ Head(wire[t]) \in {"sources", "delta", "end", "error"}
<1>1. wire \in [Turns -> Seq({"sources", "delta", "end", "error"})] /\ wire' = [wire EXCEPT ![t] = Tail(wire[t])]
  BY DEF ChatInv, ChatTypeOK
<1>2. wire[t] \in Seq({"sources", "delta", "end", "error"})
  BY <1>1
<1>3. /\ Head(wire[t]) \in {"sources", "delta", "end", "error"}
      /\ Tail(wire[t]) \in Seq({"sources", "delta", "end", "error"})
      /\ Len(Tail(wire[t])) = Len(wire[t]) - 1
      /\ \A i \in 1 .. Len(Tail(wire[t])) : Tail(wire[t])[i] = wire[t][i + 1]
  BY <1>2, HeadTailProperties
<1>4. Len(wire[t]) \in Nat \ {0} /\ Head(wire[t]) = wire[t][1]
  BY <1>2
<1> QED BY <1>1, <1>3, <1>4

\* What is being read is the rest of the stream the page waits for, or of one whose
\* page has been left.
LEMMA WhoReads ==
  ASSUME ChatInv, NEW t \in Turns, wire[t] # <<>>
  PROVE  /\ t \in listening => t = streaming
         /\ t \notin listening => t \in abandoned /\ t # streaming
         /\ t <= asked
<1>1. TurnOK(t) /\ Composer /\ t \in Nat \ {0} /\ asked \in Nat
  BY ChatAssumption DEF ChatInv, ChatTypeOK, Turns
<1>2. t <= asked
  BY <1>1 DEF TurnOK
<1>3. t # streaming => t \in abandoned
  BY <1>1, <1>2 DEF TurnOK, Settled
<1> QED BY <1>1, <1>2, <1>3 DEF Composer

\* Nothing but the composer and a stream change.
LEMMA PageKeeps ==
  ASSUME ChatInv, ChatTypeOK', Shown(messages)', Shown(session)', Composer',
         UNCHANGED <<asked, reply, received, kept>>, abandoned \subseteq abandoned',
         \A u \in Turns : \/ wire'[u] = wire[u] /\ (streaming # u \/ streaming' = u \/ u \in abandoned')
                          \/ u <= asked /\ (u \in abandoned' \/ u = streaming' \/ Settled(u)')
  PROVE  ChatInv'
<1>1. ASSUME NEW u \in Turns PROVE TurnOK(u)'
  <2>1. ReceivedOK(u)' /\ KeptOK(u)' /\ TurnOK(u)
    BY ReceivedStays, KeptStays DEF ChatInv
  <2>2. u \in Nat /\ asked \in Nat
    BY ChatAssumption DEF ChatInv, ChatTypeOK, Turns
  <2>3. CASE wire'[u] = wire[u] /\ (streaming # u \/ streaming' = u \/ u \in abandoned')
    BY <2>1, <2>3 DEF TurnOK, Settled
  <2>4. CASE u <= asked /\ (u \in abandoned' \/ u = streaming' \/ Settled(u)')
    BY <2>1, <2>2, <2>4 DEF TurnOK
  <2> QED BY <2>3, <2>4
<1> QED BY <1>1 DEF ChatInv

LEMMA ReadKeeps ==
  ASSUME ChatInv, NEW t \in Turns, Read(t)
  PROVE  ChatInv'
<1>1. /\ wire[t] # <<>> /\ wire' = [wire EXCEPT ![t] = Tail(@)]
      /\ UNCHANGED <<page, asked, listening, reply, said, received, kept, abandoned>>
  BY DEF Read
<1>2. /\ wire' \in [Turns -> Seq({"sources", "delta", "end", "error"})]
      /\ \A u \in Turns \ {t} : wire'[u] = wire[u]
      /\ Len(wire'[t]) = Len(wire[t]) - 1 /\ Len(wire[t]) \in Nat \ {0}
      /\ \A i \in 1 .. Len(wire'[t]) : wire'[t][i] = wire[t][i + 1]
      /\ Head(wire[t]) = wire[t][1] /\ wire'[t] = Tail(wire[t])
  BY <1>1, ReadTypes
<1>3. messages \in Seq(Message) /\ session \in Seq(Message) /\ asked \in Nat /\ t \in Nat \ {0}
  BY ChatAssumption DEF ChatInv, ChatTypeOK, Turns
<1>4. CASE t \notin listening
  <2>1. UNCHANGED <<messages, session, streaming>> /\ t \in abandoned /\ t # streaming /\ t <= asked
    BY <1>1, <1>4, WhoReads DEF Read
  <2>2. ChatTypeOK'
    BY <1>1, <1>2, <2>1 DEF ChatInv, ChatTypeOK
  <2>3. Shown(messages)' /\ Shown(session)'
    BY <1>1, <2>1 DEF ChatInv, Shown
  <2>4. Composer'
    <3>1. streaming # 0 => WireOK(streaming)'
      <4> SUFFICES ASSUME streaming # 0 PROVE WireOK(streaming)'
        OBVIOUS
      <4>1. streaming \in Turns \ {t}
        BY <2>1, ChatAssumption DEF ChatInv, ChatTypeOK, Turns
      <4> QED BY <1>1, <1>2, <2>1, <4>1 DEF ChatInv, Composer, WireOK
    <3> QED BY <1>1, <2>1, <3>1 DEF ChatInv, Composer
  <2>5. \A u \in Turns : u # t => wire'[u] = wire[u] /\ (streaming # u \/ streaming' = u)
    BY <1>2, <2>1
  <2> QED BY <1>1, <2>1, <2>2, <2>3, <2>4, <2>5, PageKeeps
<1>5. CASE t \in listening
  <2>1. t = streaming /\ t <= asked /\ t \notin abandoned
    BY <1>1, <1>5, WhoReads DEF ChatInv, Composer
  <2>2. /\ streaming = asked /\ streaming \in listening /\ Len(messages) > 0
        /\ messages[Len(messages)].role = "assistant" /\ messages[Len(messages)].turn = t /\ WireOK(t)
    BY <1>3, <2>1 DEF ChatInv, Composer
  <2>3. ShownIn(messages, asked, t, abandoned, reply) /\ ShownIn(session, asked, t, abandoned, reply)
    BY <2>1 DEF ChatInv, Shown
  <2>4. ASSUME ShownIn(messages', asked, streaming', abandoned, reply), messages' \in Seq(Message),
               ShownIn(session', asked, streaming', abandoned, reply), session' \in Seq(Message),
               \/ streaming' = 0 /\ Settled(t)'
               \/ /\ streaming' = streaming /\ WireOK(t)' /\ Len(messages') > 0
                  /\ messages'[Len(messages')].role = "assistant" /\ messages'[Len(messages')].turn = t
        PROVE  ChatInv'
    <3>1. ChatTypeOK'
      <4>1. streaming' \in 0 .. MaxTurns
        BY <2>4, ChatAssumption DEF ChatInv, ChatTypeOK
      <4> QED BY <1>1, <1>2, <2>4, <4>1 DEF ChatInv, ChatTypeOK
    <3>2. Shown(messages)' /\ Shown(session)'
      BY <1>1, <2>4 DEF Shown
    <3>3. Composer'
      BY <1>1, <2>1, <2>2, <2>4 DEF ChatInv, Composer, WireOK
    <3>4. \A u \in Turns : u # t => wire'[u] = wire[u] /\ streaming # u
      BY <1>2, <2>1
    <3>5. t \in abandoned' \/ t = streaming' \/ Settled(t)'
      BY <2>1, <2>4
    <3> QED BY <1>1, <2>1, <3>1, <3>2, <3>3, <3>4, <3>5, PageKeeps
  <2>5. CASE Head(wire[t]) \in {"sources", "delta"}
    <3>1. WireOK(t)'
      <4> DEFINE n == Len(wire[t])
      <4>1. /\ reply[t] # "none"
            /\ reply[t] \in {"done", "failed"} => n > 0 /\ wire[t][n] = IF reply[t] = "done" THEN "end" ELSE "error"
            /\ \A i \in 1 .. n : wire[t][i] \in {"end", "error"} => i = n /\ reply[t] \in {"done", "failed"}
        BY <2>2 DEF WireOK
      <4> HIDE DEF n
      <4>2. n \in Nat \ {0} /\ Len(wire'[t]) = n - 1
        BY <1>2 DEF n
      <4>3. reply[t] \in {"done", "failed"} =>
              n - 1 > 0 /\ wire'[t][n - 1] = IF reply[t] = "done" THEN "end" ELSE "error"
        <5> SUFFICES ASSUME reply[t] \in {"done", "failed"}
                     PROVE  n - 1 > 0 /\ wire'[t][n - 1] = IF reply[t] = "done" THEN "end" ELSE "error"
          OBVIOUS
        <5>1. n # 1
          BY <1>2, <2>5, <4>1
        <5>2. n - 1 \in 1 .. n - 1 /\ (n - 1) + 1 = n
          BY <4>2, <5>1
        <5>3. wire'[t][n - 1] = wire[t][n]
          BY <1>2, <4>2, <5>2
        <5> QED BY <4>1, <4>2, <5>1, <5>3
      <4>4. \A i \in 1 .. n - 1 : wire'[t][i] \in {"end", "error"} => i = n - 1 /\ reply[t] \in {"done", "failed"}
        <5> SUFFICES ASSUME NEW i \in 1 .. n - 1, wire'[t][i] \in {"end", "error"}
                     PROVE  i = n - 1 /\ reply[t] \in {"done", "failed"}
          OBVIOUS
        <5>1. i + 1 \in 1 .. n /\ wire'[t][i] = wire[t][i + 1]
          BY <1>2, <4>2
        <5>2. i + 1 = n /\ reply[t] \in {"done", "failed"}
          BY <4>1, <5>1
        <5> QED BY <4>2, <5>2
      <4> QED BY <1>1, <4>1, <4>2, <4>3, <4>4 DEF WireOK
    <3>2. CASE UNCHANGED <<messages, session, streaming>>
      BY <1>3, <2>1, <2>2, <2>3, <2>4, <3>1, <3>2
    <3>3. CASE /\ Show([messages EXCEPT ![Len(messages)].text = Append(@, t)])
               /\ UNCHANGED streaming
      <4> DEFINE a == messages[Len(messages)]
                 m == [a EXCEPT !.text = Append(a.text, t)]
      <4>1. Len(messages) \in 1 .. Len(messages) /\ a \in Message /\ a.text \in Seq(Turns)
        BY <1>3, <2>2, MessageParts
      <4>2. \A k \in 1 .. Len(a.text) : a.text[k] = t
        BY <2>2, <2>3, <4>1 DEF ShownIn
      <4>3. Append(a.text, t) \in Seq(Turns) /\ \A k \in 1 .. Len(Append(a.text, t)) : Append(a.text, t)[k] = t
        <5>1. Append(a.text, t) \in Seq(Turns) /\ Len(Append(a.text, t)) = Len(a.text) + 1 /\ Len(a.text) \in Nat
          BY <4>1, AppendProperties, LenProperties
        <5>2. \A k \in 1 .. Len(a.text) + 1 : k \in 1 .. Len(a.text) \/ k = Len(a.text) + 1
          BY <5>1
        <5> QED BY <4>1, <4>2, <5>1, <5>2, AppendProperties
      <4>4. m \in Message /\ m.role = "assistant" /\ m.turn = t /\ m.text = Append(a.text, t)
        BY <2>2, <4>1, <4>3 DEF Message
      <4>5. messages' = [messages EXCEPT ![Len(messages)] = m]
        BY <3>3 DEF Show
      <4>6. \A k \in 1 .. Len(m.text) : m.text[k] = t
        BY <4>3, <4>4
      <4> HIDE DEF m, a
      <4>7. /\ messages' \in Seq(Message) /\ Len(messages') = Len(messages) /\ messages'[Len(messages')] = m
            /\ ShownIn(messages', asked, t, abandoned, reply)
        <5>1. messages' \in Seq(Message) /\ ShownIn(messages', asked, t, abandoned, reply)
          BY <1>3, <2>2, <2>3, <4>4, <4>5, <4>6, EditShows
        <5>2. Len(messages') = Len(messages) /\ messages'[Len(messages)] = m
          BY <1>3, <4>1, <4>4, <4>5, ExceptSeq
        <5> QED BY <5>1, <5>2
      <4>8. session' \in Seq(Message) /\ ShownIn(session', asked, t, abandoned, reply)
        BY <3>3, <4>7, StoreShown DEF Show
      <4> QED BY <2>1, <2>2, <2>4, <3>1, <3>3, <4>4, <4>7, <4>8
    <3> QED BY <1>5, <2>5, <3>2, <3>3 DEF Read
  <2>6. CASE Head(wire[t]) \in {"end", "error"}
    <3>1. wire'[t] = <<>> /\ reply[t] = IF Head(wire[t]) = "end" THEN "done" ELSE "failed"
      <4>1. 1 \in 1 .. Len(wire[t]) /\ wire[t][1] \in {"end", "error"}
        BY <1>2, <2>6
      <4>2. Len(wire[t]) = 1 /\ reply[t] \in {"done", "failed"} /\ wire[t][1] = IF reply[t] = "done" THEN "end" ELSE "error"
        BY <2>2, <4>1 DEF WireOK
      <4>3. Len(wire'[t]) = 0 /\ wire'[t] \in Seq({"sources", "delta", "end", "error"})
        <5>1. Len(wire'[t]) = 0
          BY <1>2, <4>2
        <5> QED BY <1>2, <5>1
      <4> QED BY <1>2, <2>6, <4>2, <4>3, EmptySeq
    <3>2. Settled(t)'
      BY <1>1, <2>6, <3>1 DEF Settled
    <3>3. CASE Head(wire[t]) = "end" /\ streaming' = 0 /\ UNCHANGED <<messages, session>>
      <4>1. ASSUME NEW s \in Seq(Message), ShownIn(s, asked, t, abandoned, reply)
            PROVE  ShownIn(s, asked, 0, abandoned, reply)
        <5>1. reply[t] = "done"
          BY <3>1, <3>3
        <5>2. \A i \in 1 .. Len(s) : s[i].role = "assistant" /\ s[i].turn = t /\ t # 0 /\ t \notin abandoned =>
                                      reply[t] = "done" \/ s[i].error
          BY <5>1
        <5>3. asked <= asked /\ 0 \in Nat
          BY <1>3
        <5> QED BY <1>3, <4>1, <5>2, <5>3, ShownStays
      <4>2. ShownIn(messages', asked, streaming', abandoned, reply) /\ messages' \in Seq(Message)
            /\ ShownIn(session', asked, streaming', abandoned, reply) /\ session' \in Seq(Message)
        BY <1>3, <2>3, <3>3, <4>1
      <4> QED BY <2>4, <3>2, <3>3, <4>2
    <3>4. CASE /\ Head(wire[t]) = "error" /\ Show([messages EXCEPT ![Len(messages)].error = TRUE])
               /\ streaming' = 0
      <4> DEFINE a == messages[Len(messages)]
                 m == [a EXCEPT !.error = TRUE]
      <4>1. Len(messages) \in 1 .. Len(messages) /\ a \in Message
        BY <1>3, <2>2, MessageParts
      <4>2. \A k \in 1 .. Len(a.text) : a.text[k] = t
        BY <2>2, <2>3, <4>1 DEF ShownIn
      <4>3. m \in Message /\ m.role = "assistant" /\ m.turn = t /\ m.text = a.text /\ m.error
        BY <2>2, <4>1 DEF Message
      <4>4. messages' = [messages EXCEPT ![Len(messages)] = m]
        BY <3>4 DEF Show
      <4>5. \A k \in 1 .. Len(m.text) : m.text[k] = t
        BY <4>2, <4>3
      <4> HIDE DEF m, a
      <4>6. messages' \in Seq(Message) /\ ShownIn(messages', asked, 0, abandoned, reply)
        <5>1. PICK s : s = messages
          OBVIOUS
        <5>2. /\ s \in Seq(Message) /\ ShownIn(s, asked, t, abandoned, reply) /\ Len(s) > 0
              /\ s[Len(s)].role = "assistant" /\ s[Len(s)].turn = t
          BY <1>3, <2>2, <2>3, <5>1
        <5>3. LET q == [s EXCEPT ![Len(s)] = m] IN
              /\ q \in Seq(Message)
              /\ m.error => ShownIn(q, asked, 0, abandoned, reply)
          BY <4>3, <4>5, <5>2, EditShows
        <5> QED BY <4>3, <4>4, <5>1, <5>3
      <4>7. session' \in Seq(Message) /\ ShownIn(session', asked, 0, abandoned, reply)
        BY <3>4, <4>6, StoreShown DEF Show
      <4>8. ShownIn(messages', asked, streaming', abandoned, reply) /\ messages' \in Seq(Message)
            /\ ShownIn(session', asked, streaming', abandoned, reply) /\ session' \in Seq(Message)
        BY <3>4, <4>6, <4>7
      <4> QED BY <2>4, <3>2, <3>4, <4>8
    <3> QED BY <1>5, <2>6, <3>3, <3>4 DEF Read
  <2>7. Head(wire[t]) \in {"sources", "delta", "end", "error"}
    BY <1>1, ReadTypes
  <2> QED BY <2>5, <2>6, <2>7
<1> QED BY <1>4, <1>5

LEMMA LeaveKeeps ==
  ASSUME ChatInv, Leave
  PROVE  ChatInv'
<1>1. /\ page' = "away" /\ messages' = <<>> /\ streaming' = 0 /\ listening' = {}
      /\ abandoned' = abandoned \union ({streaming} \ {0})
      /\ UNCHANGED <<session, asked, reply, said, received, kept, wire>>
  BY DEF Leave
<1>2. /\ messages \in Seq(Message) /\ session \in Seq(Message) /\ asked \in Nat
      /\ streaming \in 0 .. MaxTurns /\ asked \in 0 .. MaxTurns /\ Composer
  BY ChatAssumption DEF ChatInv, ChatTypeOK
<1>3. abandoned' \subseteq 1 .. asked
  <2>1. abandoned \subseteq 1 .. asked /\ (streaming # 0 => streaming = asked)
    BY <1>2 DEF Composer
  <2>2. streaming # 0 => streaming \in 1 .. asked
    BY <1>2, <2>1, ChatAssumption
  <2> QED BY <1>1, <2>1, <2>2
<1>4. ChatTypeOK'
  <2>1. abandoned' \subseteq Turns
    BY <1>2, <1>3, ChatAssumption DEF Turns
  <2>2. messages' \in Seq(Message) /\ streaming' \in 0 .. MaxTurns /\ listening' \subseteq Turns
    BY <1>1, ChatAssumption
  <2> QED BY <1>1, <2>1, <2>2 DEF ChatInv, ChatTypeOK
<1>5. Shown(messages)'
  <2>1. Len(<<>>) = 0 /\ (\A i \in 1 .. 0 : FALSE) /\ (\A i \in 2 .. 0 : FALSE)
    OBVIOUS
  <2> QED BY <1>1, <2>1 DEF Shown, ShownIn, Conversation
<1>6. Shown(session)'
  <2>1. ShownIn(session, asked, streaming, abandoned, reply)
    BY DEF ChatInv, Shown
  <2>2. ShownIn(session, asked, 0, abandoned \union ({streaming} \ {0}), reply)
    BY <1>2, <2>1, ShownStays
  <2> QED BY <1>1, <2>2 DEF Shown
<1>7. Composer'
  BY <1>1, <1>3 DEF Composer
<1>8. \A u \in Turns : streaming # u \/ u \in abandoned'
  BY <1>1, ChatAssumption DEF Turns
<1> QED BY <1>1, <1>4, <1>5, <1>6, <1>7, <1>8, PageKeeps

\* The page that is opened again shows what the store has; a cleaned one shows nothing.
LEMMA ShowKeeps ==
  ASSUME ChatInv, NEW s \in Seq(Message), ShownIn(s, asked, 0, abandoned, reply), Show(s), streaming = 0,
         page' = "open", UNCHANGED <<asked, streaming, listening, reply, said, received, kept, wire, abandoned>>
  PROVE  ChatInv'
<1>1. messages' = s /\ session' = Store(s)
  BY DEF Show
<1>2. Store(s) \in Seq(Message) /\ ShownIn(Store(s), asked, 0, abandoned, reply)
  BY StoreShown
<1>3. ChatTypeOK'
  BY <1>1, <1>2 DEF ChatInv, ChatTypeOK
<1>4. Shown(messages)' /\ Shown(session)'
  BY <1>1, <1>2 DEF Shown
<1>5. Composer'
  BY DEF ChatInv, Composer
<1>6. \A u \in Turns : streaming # u
  BY ChatAssumption DEF Turns
<1> QED BY <1>3, <1>4, <1>5, <1>6, PageKeeps

LEMMA ReturnKeeps ==
  ASSUME ChatInv, Return
  PROVE  ChatInv'
<1>1. page = "away" /\ page' = "open" /\ Show(session) /\ streaming = 0 /\ session \in Seq(Message)
      /\ UNCHANGED <<asked, streaming, listening, reply, said, received, kept, wire, abandoned>>
  BY DEF Return, ChatInv, ChatTypeOK, Composer
<1>2. ShownIn(session, asked, 0, abandoned, reply)
  BY <1>1 DEF ChatInv, Shown
<1> QED BY <1>1, <1>2, ShowKeeps

LEMMA CleanChatKeeps ==
  ASSUME ChatInv, CleanChat
  PROVE  ChatInv'
<1>1. page' = "open" /\ Show(<<>>) /\ streaming = 0
      /\ UNCHANGED <<asked, streaming, listening, reply, said, received, kept, wire, abandoned>>
  BY DEF CleanChat
<1>2. <<>> \in Seq(Message) /\ ShownIn(<<>>, asked, 0, abandoned, reply)
  <2>1. Len(<<>>) = 0 /\ (\A i \in 1 .. 0 : FALSE) /\ (\A i \in 2 .. 0 : FALSE)
    OBVIOUS
  <2> QED BY <2>1 DEF ShownIn, Conversation
<1> QED BY <1>1, <1>2, ShowKeeps

LEMMA ChatStarts == ChatInit => ChatInv
<1> SUFFICES ASSUME ChatInit PROVE ChatInv
  OBVIOUS
<1>1. Len(<<>>) = 0 /\ (\A i \in 1 .. 0 : FALSE) /\ (\A i \in 2 .. 0 : FALSE)
  OBVIOUS
<1>2. ChatTypeOK
  BY ChatAssumption DEF ChatInit, ChatTypeOK, Turns
<1>3. Shown(messages) /\ Shown(session)
  BY <1>1 DEF ChatInit, Shown, ShownIn, Conversation
<1>4. Composer
  BY DEF ChatInit, Composer
<1>5. ASSUME NEW t \in Turns PROVE TurnOK(t)
  <2>1. t > 0 /\ ~(t <= 0)
    BY ChatAssumption DEF Turns
  <2>2. ReceivedOK(t) /\ KeptOK(t)
    BY <1>1 DEF ChatInit, ReceivedOK, KeptOK, Conversation
  <2> QED BY <2>1, <2>2 DEF ChatInit, TurnOK
<1> QED BY <1>2, <1>3, <1>4, <1>5 DEF ChatInv

LEMMA ChatStep == ChatInv /\ [ChatNext]_chatVars => ChatInv'
<1> SUFFICES ASSUME ChatInv, [ChatNext]_chatVars PROVE ChatInv'
  OBVIOUS
<1>1. CASE UNCHANGED chatVars
  <2>1. UNCHANGED <<page, messages, session, asked, streaming, listening, reply, said, received, kept,
                    wire, abandoned>>
    BY <1>1 DEF chatVars
  <2>2. ChatTypeOK' /\ Shown(messages)' /\ Shown(session)'
    BY <2>1 DEF ChatInv, ChatTypeOK, Shown
  <2>3. Composer'
    BY <2>1 DEF ChatInv, Composer, WireOK
  <2> QED BY <2>1, <2>2, <2>3, PageKeeps
<1>2. CASE \E chars \in QuestionChars : Ask(chars)
  BY <1>2, AskKeeps
<1>3. CASE \E t \in Turns : Read(t) \/ Prepare(t) \/ Abstain(t) \/ Generate(t)
  BY <1>3, ReadKeeps, PrepareKeeps, AbstainKeeps, GenerateKeeps
<1> QED BY <1>1, <1>2, <1>3, LeaveKeeps, ReturnKeeps, CleanChatKeeps DEF ChatNext

LEMMA ChatSafe == ChatSpec => []ChatInv
BY ChatStarts, ChatStep, PTL DEF ChatSpec

\* Every value of a conversation is of its type: the messages, the requests, the
\* prompts and the streams.
THEOREM ChatTyped == ChatSpec => []ChatTypeOK
<1>1. ChatInv => ChatTypeOK
  BY DEF ChatInv
<1> QED BY <1>1, ChatSafe, PTL

\* What a stream says is only ever put into the answer to its own question.
THEOREM Unmixed == ChatSpec => []AnswersUnmixed
<1>1. ChatInv => AnswersUnmixed
  <2> SUFFICES ASSUME ChatInv, NEW s \in {messages, session}, NEW i \in DOMAIN s, NEW n \in DOMAIN s[i].text
               PROVE  s[i].text[n] = s[i].turn
    BY DEF AnswersUnmixed
  <2>1. s \in Seq(Message) /\ ShownIn(s, asked, streaming, abandoned, reply)
    BY DEF ChatInv, ChatTypeOK, Shown
  <2>2. i \in 1 .. Len(s) /\ s[i].text \in Seq(Turns)
    BY <2>1, MessageParts
  <2>3. n \in 1 .. Len(s[i].text)
    BY <2>2, LenProperties
  <2> QED BY <2>1, <2>2, <2>3 DEF ShownIn
<1> QED BY <1>1, ChatSafe, PTL

\* The history in a prompt is questions with their own answers, in their order; an
\* answer that failed is in it only when its page had been left.
THEOREM Turnwise == ChatSpec => []HistoryTurns
<1>1. ChatInv => HistoryTurns
  <2> SUFFICES ASSUME ChatInv, NEW t \in Turns, NEW i \in DOMAIN kept[t]
               PROVE  /\ kept[t][i][1].role = "user" /\ kept[t][i][2].role = "assistant"
                      /\ kept[t][i][1].turn = kept[t][i][2].turn /\ kept[t][i][2].turn < t
                      /\ i > 1 => kept[t][i - 1][2].turn < kept[t][i][2].turn
                      /\ reply[kept[t][i][2].turn] = "failed" => kept[t][i][2].turn \in abandoned
    BY DEF HistoryTurns
  <2>1. kept[t] \in Seq(Message \X Message) /\ KeptOK(t)
    BY DEF ChatInv, ChatTypeOK, TurnOK
  <2>2. i \in 1 .. Len(kept[t])
    BY <2>1, LenProperties
  <2> QED BY <2>1, <2>2 DEF KeptOK, Usable
<1> QED BY <1>1, ChatSafe, PTL

-----------------------------------------------------------------------------
(* The scale of the fused scores                                             *)

\* The recursion that defines Product has a solution.
LEMMA ProductSolves ==
  \A m \in 0 .. CandidateLimit :
    \E f \in [0 .. m -> Nat \ {0}] : \A n \in 0 .. m : f[n] = IF n = 0 THEN 1 ELSE f[n - 1] * (K + n)
<1> DEFINE Solved(m) ==
      \E f \in [0 .. m -> Nat \ {0}] : \A n \in 0 .. m : f[n] = IF n = 0 THEN 1 ELSE f[n - 1] * (K + n)
           Open == {m \in 0 .. CandidateLimit : ~Solved(m)}
<1>1. K \in Nat \ {0} /\ CandidateLimit \in Nat
  BY RetrievalAssumption
<1>2. SUFFICES ASSUME Open # {} PROVE FALSE
  OBVIOUS
<1>3. Open \in SUBSET Nat
  BY <1>1
<1> HIDE DEF Open
<1>4. PICK m \in Open : \A k \in Open : m <= k
  BY <1>2, <1>3, LeastNatural
<1>5. m \in 0 .. CandidateLimit /\ ~Solved(m) /\ m \in Nat
  BY <1>1, <1>3, <1>4 DEF Open
<1>6. CASE m = 0
  <2> DEFINE f == [n \in 0 .. 0 |-> 1]
  <2>1. f \in [0 .. 0 -> Nat \ {0}] /\ \A n \in 0 .. 0 : f[n] = IF n = 0 THEN 1 ELSE f[n - 1] * (K + n)
    OBVIOUS
  <2>2. Solved(0)
    BY <2>1
  <2> HIDE DEF Solved
  <2> QED BY <1>5, <1>6, <2>2
<1>7. CASE m # 0
  <2>1. m - 1 \in 0 .. CandidateLimit /\ m - 1 \notin Open
    BY <1>1, <1>3, <1>4, <1>5, <1>7
  <2>2. Solved(m - 1)
    BY <2>1 DEF Open
  <2>3. PICK g \in [0 .. m - 1 -> Nat \ {0}] :
          \A n \in 0 .. m - 1 : g[n] = IF n = 0 THEN 1 ELSE g[n - 1] * (K + n)
    BY <2>2
  <2>4. m - 1 \in 0 .. m - 1 /\ g[m - 1] \in Nat \ {0}
    BY <1>5, <1>7, <2>3
  <2>5. g[m - 1] * (K + m) \in Nat \ {0}
    <3>1. \A a, b \in Nat \ {0} : a * b \in Nat \ {0}
      OBVIOUS
    <3>2. K + m \in Nat \ {0}
      BY <1>1, <1>5
    <3> QED BY <2>4, <3>1, <3>2
  <2> DEFINE f == [n \in 0 .. m |-> IF n = m THEN g[m - 1] * (K + m) ELSE g[n]]
  <2>6. \A n \in 0 .. m : n = m \/ n \in 0 .. m - 1
    BY <1>5
  <2>7. f \in [0 .. m -> Nat \ {0}]
    BY <2>3, <2>5, <2>6
  <2>8. ASSUME NEW n \in 0 .. m PROVE f[n] = IF n = 0 THEN 1 ELSE f[n - 1] * (K + n)
    <3>1. CASE n = m
      <4>1. n - 1 \in 0 .. m /\ n - 1 # m /\ n # 0
        BY <1>5, <1>7, <3>1
      <4>2. f[n - 1] = g[m - 1] /\ f[n] = g[m - 1] * (K + m)
        BY <3>1, <4>1
      <4> QED BY <3>1, <4>1, <4>2
    <3>2. CASE n # m
      <4>1. n \in 0 .. m - 1 /\ f[n] = g[n]
        BY <2>6, <3>2
      <4>2. n # 0 => n - 1 \in 0 .. m /\ n - 1 # m
        BY <1>5, <4>1
      <4>3. n # 0 => f[n - 1] = g[n - 1]
        BY <4>2
      <4> HIDE DEF f
      <4> QED BY <2>3, <4>1, <4>3
    <3> QED BY <3>1, <3>2
  <2> HIDE DEF f
  <2>9. Solved(m)
    BY <2>7, <2>8
  <2> HIDE DEF Solved
  <2> QED BY <1>5, <2>9
<1> QED BY <1>6, <1>7

LEMMA ProductStep ==
  /\ Product \in [0 .. CandidateLimit -> Nat \ {0}]
  /\ Product[0] = 1
  /\ \A n \in 1 .. CandidateLimit : Product[n] = Product[n - 1] * (K + n)
<1> DEFINE L == CandidateLimit
           Is(f) == f = [n \in 0 .. L |-> IF n = 0 THEN 1 ELSE f[n - 1] * (K + n)]
<1>1. L \in Nat
  BY RetrievalAssumption
<1>2. PICK f \in [0 .. L -> Nat \ {0}] : \A n \in 0 .. L : f[n] = IF n = 0 THEN 1 ELSE f[n - 1] * (K + n)
  <2>1. L \in 0 .. CandidateLimit
    BY <1>1
  <2> QED BY <2>1, ProductSolves
<1>3. Is(f)
  BY <1>2
<1>4. Is(Product)
  <2>1. Product = CHOOSE g : Is(g)
    BY DEF Product
  <2> HIDE DEF Is
  <2> QED BY <1>3, <2>1
<1>5. ASSUME NEW g, Is(g), NEW m \in 0 .. L PROVE g[m] = f[m]
  <2> DEFINE Bad == {n \in 0 .. L : g[n] # f[n]}
  <2>1. SUFFICES ASSUME Bad # {} PROVE FALSE
    OBVIOUS
  <2>2. Bad \in SUBSET Nat
    BY <1>1
  <2> HIDE DEF Bad
  <2>3. PICK n \in Bad : \A k \in Bad : n <= k
    BY <2>1, <2>2, LeastNatural
  <2>4. n \in 0 .. L /\ g[n] # f[n] /\ n \in Nat
    BY <2>2, <2>3 DEF Bad
  <2>5. g[n] = (IF n = 0 THEN 1 ELSE g[n - 1] * (K + n)) /\ f[n] = IF n = 0 THEN 1 ELSE f[n - 1] * (K + n)
    BY <1>2, <1>5, <2>4
  <2>6. n # 0 => n - 1 \in 0 .. L /\ n - 1 \notin Bad
    BY <1>1, <2>2, <2>3, <2>4
  <2>7. n # 0 => g[n - 1] = f[n - 1]
    BY <2>6 DEF Bad
  <2> QED BY <2>4, <2>5, <2>7
<1>6. Product \in [0 .. L -> Nat \ {0}]
  <2>1. DOMAIN Product = 0 .. L /\ Product = [n \in 0 .. L |-> Product[n]]
    <3>1. Product = [n \in 0 .. L |-> IF n = 0 THEN 1 ELSE Product[n - 1] * (K + n)]
      BY <1>4
    <3> QED BY <3>1
  <2>2. \A n \in 0 .. L : Product[n] \in Nat \ {0}
    BY <1>2, <1>4, <1>5
  <2> QED BY <2>1, <2>2
<1>7. \A n \in 0 .. L : Product[n] = IF n = 0 THEN 1 ELSE Product[n - 1] * (K + n)
  BY <1>4
<1>8. 0 \in 0 .. L /\ \A n \in 1 .. L : n \in 0 .. L /\ n # 0
  BY <1>1
<1> QED BY <1>6, <1>7, <1>8

\* Every denominator divides the scale.
LEMMA ScaleDivides ==
  /\ Scale \in Nat \ {0}
  /\ \A r \in 1 .. CandidateLimit : \E q \in Nat \ {0} : Scale = q * (K + r)
<1> DEFINE L == CandidateLimit
           Good(n) == \A r \in 1 .. n : \E q \in Nat \ {0} : Product[n] = q * (K + r)
           Bad == {n \in 0 .. L : ~Good(n)}
<1>1. L \in Nat /\ K \in Nat \ {0}
  BY RetrievalAssumption
<1>2. Bad = {}
  <2> SUFFICES ASSUME Bad # {} PROVE FALSE
    OBVIOUS
  <2>1. Bad \in SUBSET Nat
    BY <1>1
  <2> HIDE DEF Bad
  <2>2. PICK n \in Bad : \A k \in Bad : n <= k
    BY <2>1, LeastNatural
  <2>3. n \in 0 .. L /\ ~Good(n) /\ n \in Nat
    BY <2>1, <2>2 DEF Bad
  <2>4. n # 0
    BY <2>3
  <2>5. n \in 1 .. L /\ n - 1 \in 0 .. L /\ n - 1 \notin Bad
    BY <1>1, <2>1, <2>2, <2>3, <2>4
  <2>6. Good(n - 1)
    BY <2>5 DEF Bad
  <2>7. Product[n] = Product[n - 1] * (K + n) /\ Product[n - 1] \in Nat \ {0}
    BY <2>5, ProductStep
  <2>8. ASSUME NEW r \in 1 .. n PROVE \E q \in Nat \ {0} : Product[n] = q * (K + r)
    <3>1. CASE r = n
      BY <2>7, <3>1
    <3>2. CASE r # n
      <4>1. r \in 1 .. n - 1 /\ r \in Nat
        BY <2>3, <3>2
      <4>2. PICK q \in Nat \ {0} : Product[n - 1] = q * (K + r)
        BY <2>6, <4>1
      <4>3. \A a, b, c, d \in Nat \ {0} : a = b * c => a * d = (b * d) * c /\ b * d \in Nat \ {0}
        OBVIOUS
      <4>4. K + r \in Nat \ {0} /\ K + n \in Nat \ {0}
        BY <1>1, <2>3, <4>1
      <4>5. Product[n] = (q * (K + n)) * (K + r) /\ q * (K + n) \in Nat \ {0}
        BY <2>7, <4>2, <4>3, <4>4
      <4> QED BY <4>5
    <3> QED BY <3>1, <3>2
  <2> QED BY <2>3, <2>8
<1>3. Good(L)
  <2>1. L \in 0 .. L
    BY <1>1
  <2> HIDE DEF Good, L
  <2> QED BY <1>2, <2>1
<1>4. Scale = Product[L]
  BY DEF Scale
<1> QED BY <1>1, <1>3, <1>4, ProductStep

\* What a rank contributes.
Contribution(r) == Scale \div (K + r)

LEMMA BetterRankMore ==
  /\ \A r \in 1 .. CandidateLimit : Contribution(r) \in Nat \ {0}
  /\ \A r, q \in 1 .. CandidateLimit : r < q => Contribution(q) < Contribution(r)
<1>1. K \in Nat \ {0} /\ CandidateLimit \in Nat
  BY RetrievalAssumption
<1>2. \A q, d \in Nat \ {0} : (q * d) \div d = q
  OBVIOUS
<1>3. ASSUME NEW r \in 1 .. CandidateLimit
      PROVE  Contribution(r) \in Nat \ {0} /\ Scale = Contribution(r) * (K + r) /\ K + r \in Nat \ {0}
  <2>1. PICK q \in Nat \ {0} : Scale = q * (K + r)
    BY ScaleDivides
  <2>2. K + r \in Nat \ {0}
    BY <1>1
  <2>3. Contribution(r) = q
    BY <1>2, <2>1, <2>2 DEF Contribution
  <2> QED BY <2>1, <2>2, <2>3
<1>4. ASSUME NEW r \in 1 .. CandidateLimit, NEW q \in 1 .. CandidateLimit, r < q
      PROVE  Contribution(q) < Contribution(r)
  <2>1. \A a, b, c, d \in Nat \ {0} : a * b = c * d /\ b < d => c < a
    <3> SUFFICES ASSUME NEW a \in Nat \ {0}, NEW b \in Nat \ {0}, NEW c \in Nat \ {0}, NEW d \in Nat \ {0},
                        a * b = c * d, b < d, a <= c
                 PROVE  FALSE
      OBVIOUS
    <3>1. a * b <= c * b
      OBVIOUS
    <3>2. c * b < c * d
      OBVIOUS
    <3> QED BY <3>1, <3>2
  <2>2. K + r < K + q
    BY <1>1, <1>4
  <2>3. Contribution(r) * (K + r) = Contribution(q) * (K + q)
    BY <1>3
  <2> QED BY <1>3, <2>1, <2>2, <2>3
<1> QED BY <1>3, <1>4

-----------------------------------------------------------------------------
(* Ranked lists                                                              *)

Records == Chunks \X SearchScores

LEMMA RetrievalNumbers ==
  /\ \A c \in Chunks : c \in Nat /\ Quality[c] \in Nat
  /\ \A r \in Records : r[1] \in Chunks /\ r[1] \in Nat /\ Quality[r[1]] \in Nat /\ r[2] \in Nat
  /\ CandidateLimit \in Nat /\ RerankLimit \in Nat /\ FinalLimit \in Nat \ {0}
BY RetrievalAssumption DEF Records

LEMMA AnswerParts ==
  ASSUME NEW s \in Answers
  PROVE  /\ s \in Seq(Records) /\ Len(s) \in 0 .. CandidateLimit /\ DOMAIN s = 1 .. Len(s)
         /\ \A i \in 1 .. Len(s) : s[i] \in Records
         /\ \A i, j \in 1 .. Len(s) : s[i][1] = s[j][1] => i = j
<1>1. PICK n \in 0 .. CandidateLimit : s \in [1 .. n -> Records]
  BY DEF Answers, Records
<1>2. n \in Nat
  BY RetrievalNumbers
<1>3. s \in Seq(Records) /\ Len(s) = n
  <2>1. \A i \in 1 .. n : s[i] \in Records
    BY <1>1
  <2>2. s = [i \in 1 .. n |-> s[i]]
    BY <1>1
  <2>3. [i \in 1 .. n |-> s[i]] \in Seq(Records)
    BY <1>2, <2>1, IsASeq
  <2>4. s \in Seq(Records)
    BY <2>2, <2>3
  <2> QED BY <1>1, <1>2, <2>4, LenProperties
<1>4. \A i, j \in DOMAIN s : i < j => s[i][1] # s[j][1]
  BY DEF Answers
<1>5. ASSUME NEW i \in 1 .. n, NEW j \in 1 .. n, s[i][1] = s[j][1] PROVE i = j
  <2>1. i \in DOMAIN s /\ j \in DOMAIN s /\ i \in Int /\ j \in Int
    BY <1>1, <1>2
  <2>2. ~(i < j) /\ ~(j < i)
    BY <1>4, <1>5, <2>1
  <2> QED BY <2>1, <2>2
<1> QED BY <1>1, <1>3, <1>5

LEMMA PrefixElements ==
  ASSUME NEW T, NEW s \in Seq(T), NEW n \in Nat
  PROVE  /\ Prefix(s, n) \in Seq(T)
         /\ Len(Prefix(s, n)) = IF n < Len(s) THEN n ELSE Len(s)
         /\ Len(Prefix(s, n)) \in 0 .. Len(s)
         /\ \A i \in 1 .. Len(Prefix(s, n)) : i \in 1 .. Len(s) /\ Prefix(s, n)[i] = s[i]
         /\ IsPrefix(Prefix(s, n), s)
         /\ Len(s) <= n => Prefix(s, n) = s
<1> DEFINE m == IF n < Len(s) THEN n ELSE Len(s)
           q == Prefix(s, n)
<1>1. Len(s) \in Nat /\ s \in [1 .. Len(s) -> T] /\ DOMAIN s = 1 .. Len(s)
  BY LenProperties
<1>2. m \in 0 .. Len(s) /\ m \in Nat
  BY <1>1
<1>3. q = SubSeq(s, 1, m)
  BY DEF Prefix
<1> HIDE DEF q, m
<1>4. q \in Seq(T) /\ Len(q) = m /\ \A i \in 1 .. m : q[i] = s[i]
  <2>1. 1 \in Int /\ m \in Int /\ \A i \in 1 .. m : i \in 1 .. Len(s) /\ s[i] \in T
    BY <1>1, <1>2
  <2>2. /\ SubSeq(s, 1, m) \in Seq(T)
        /\ Len(SubSeq(s, 1, m)) = IF 1 <= m THEN m - 1 + 1 ELSE 0
        /\ \A i \in 1 .. m - 1 + 1 : SubSeq(s, 1, m)[i] = s[1 + i - 1]
    BY <2>1, SubSeqProperties
  <2>3. (IF 1 <= m THEN m - 1 + 1 ELSE 0) = m /\ m - 1 + 1 = m /\ \A i \in 1 .. m : 1 + i - 1 = i
    BY <1>2
  <2> QED BY <1>3, <2>2, <2>3
<1>5. \A i \in 1 .. m : i \in 1 .. Len(s)
  BY <1>1, <1>2
<1>6. IsPrefix(q, s)
  <2>1. SubSeq(q, 1, Len(q)) = q
    BY <1>2, <1>4
  <2> QED BY <1>2, <1>3, <1>4, <2>1 DEF IsPrefix
<1>7. Len(s) <= n => q = s
  <2>1. SubSeq(s, 1, Len(s)) = s
    BY <1>1
  <2>2. Len(s) <= n => m = Len(s)
    <3>1. \A k \in Nat : k <= n => (IF n < k THEN n ELSE k) = k
      OBVIOUS
    <3>2. Len(s) \in Nat
      BY <1>1
    <3> QED BY <3>1, <3>2 DEF m
  <2> QED BY <1>3, <2>1, <2>2
<1> QED BY <1>2, <1>4, <1>5, <1>6, <1>7 DEF q, m

\* Rank lists every record once, the higher one first.
LEMMA HigherOrders ==
  ASSUME NEW s \in Seq(Chunks \X Nat)
  PROVE  Orders(Higher(s), 1 .. Len(s))
<1>1. DOMAIN s = 1 .. Len(s) /\ Len(s) \in Nat
  BY LenProperties
<1> DEFINE a(i) == s[i][2]
           b(i) == Quality[s[i][1]]
<1>2. \A i \in 1 .. Len(s) : a(i) \in Int /\ b(i) \in Int /\ i \in Int
  <2> SUFFICES ASSUME NEW i \in 1 .. Len(s) PROVE a(i) \in Int /\ b(i) \in Int /\ i \in Int
    OBVIOUS
  <2>1. s[i] \in Chunks \X Nat
    BY <1>1
  <2>2. s[i][1] \in Chunks /\ s[i][2] \in Nat
    BY <2>1
  <2> QED BY <2>2, RetrievalNumbers
<1>3. \A i, j \in 1 .. Len(s) : <<i, j>> \in Higher(s) <=>
        \/ a(i) > a(j)
        \/ a(i) = a(j) /\ b(i) > b(j)
        \/ a(i) = a(j) /\ b(i) = b(j) /\ i < j
  BY <1>1 DEF Higher
<1> HIDE DEF a, b
<1>4. ASSUME NEW x \in 1 .. Len(s), NEW y \in 1 .. Len(s), x # y
      PROVE  <<x, y>> \in Higher(s) \/ <<y, x>> \in Higher(s)
  BY <1>2, <1>3, <1>4
<1>5. ASSUME NEW x \in 1 .. Len(s), NEW y \in 1 .. Len(s), <<x, y>> \in Higher(s)
      PROVE  <<y, x>> \notin Higher(s)
  <2>1. a(x) \in Int /\ b(x) \in Int /\ x \in Int /\ a(y) \in Int /\ b(y) \in Int /\ y \in Int
    BY <1>2
  <2>2. a(x) > a(y) \/ (a(x) = a(y) /\ b(x) > b(y)) \/ (a(x) = a(y) /\ b(x) = b(y) /\ x < y)
    BY <1>3, <1>5
  <2>3. ~(a(y) > a(x) \/ (a(y) = a(x) /\ b(y) > b(x)) \/ (a(y) = a(x) /\ b(y) = b(x) /\ y < x))
    BY <2>1, <2>2
  <2> QED BY <1>3, <2>3
<1>6. ASSUME NEW x \in 1 .. Len(s), NEW y \in 1 .. Len(s), NEW z \in 1 .. Len(s),
             <<x, y>> \in Higher(s), <<y, z>> \in Higher(s)
      PROVE  <<x, z>> \in Higher(s)
  <2>1. a(x) \in Int /\ b(x) \in Int /\ x \in Int /\ a(y) \in Int /\ b(y) \in Int /\ y \in Int
        /\ a(z) \in Int /\ b(z) \in Int /\ z \in Int
    BY <1>2
  <2>2. a(x) > a(y) \/ (a(x) = a(y) /\ b(x) > b(y)) \/ (a(x) = a(y) /\ b(x) = b(y) /\ x < y)
    BY <1>3, <1>6
  <2>3. a(y) > a(z) \/ (a(y) = a(z) /\ b(y) > b(z)) \/ (a(y) = a(z) /\ b(y) = b(z) /\ y < z)
    BY <1>3, <1>6
  <2>4. a(x) > a(z) \/ (a(x) = a(z) /\ b(x) > b(z)) \/ (a(x) = a(z) /\ b(x) = b(z) /\ x < z)
    BY <2>1, <2>2, <2>3, SMTT(30)
  <2> QED BY <1>3, <2>4
<1> QED BY <1>4, <1>5, <1>6 DEF Orders

LEMMA RankSorts ==
  ASSUME NEW s \in Seq(Chunks \X Nat)
  PROVE  /\ Rank(s) \in Seq(Chunks) /\ Len(Rank(s)) = Len(s)
         /\ \E order \in [1 .. Len(s) -> 1 .. Len(s)] :
              /\ \A i \in 1 .. Len(s) : Rank(s)[i] = s[order[i]][1]
              /\ \A i, j \in 1 .. Len(s) : i < j <=> <<order[i], order[j]>> \in Higher(s)
              /\ \A x \in 1 .. Len(s) :
                   /\ Preceding(1 .. Len(s), Higher(s), x) + 1 \in 1 .. Len(s)
                   /\ order[Preceding(1 .. Len(s), Higher(s), x) + 1] = x
<1> DEFINE N == Len(s)
           order == InOrder(1 .. N, Higher(s))
<1>1. N \in Nat /\ DOMAIN s = 1 .. N /\ \A i \in 1 .. N : s[i] \in Chunks \X Nat
  BY LenProperties
<1>2. IsFiniteSet(1 .. N) /\ Cardinality(1 .. N) = N
  <2>1. \A n \in Nat : IsFiniteSet(1 .. n) /\ Cardinality(1 .. n) = n
    <3> SUFFICES ASSUME NEW n \in Nat PROVE IsFiniteSet(1 .. n) /\ Cardinality(1 .. n) = n
      OBVIOUS
    <3>1. (IF 1 > n THEN 0 ELSE n - 1 + 1) = n
      OBVIOUS
    <3> QED BY <3>1, FS_Interval
  <2> QED BY <1>1, <2>1
<1>3. /\ order \in [1 .. N -> 1 .. N]
      /\ \A x \in 1 .. N : /\ Preceding(1 .. N, Higher(s), x) + 1 \in 1 .. N
                           /\ order[Preceding(1 .. N, Higher(s), x) + 1] = x
      /\ \A i, j \in 1 .. N : i < j <=> <<order[i], order[j]>> \in Higher(s)
  BY <1>2, HigherOrders, InOrderSorts
<1>4. Rank(s) = [i \in 1 .. N |-> s[order[i]][1]]
  BY <1>1 DEF Rank
<1> HIDE DEF order, N
<1>5. \A i \in 1 .. N : s[order[i]][1] \in Chunks
  BY <1>1, <1>3
<1>6. Rank(s) \in Seq(Chunks)
  BY <1>1, <1>4, <1>5, IsASeq
<1>7. Len(Rank(s)) = N
  BY <1>1, <1>4, <1>6, LenProperties
<1> QED BY <1>3, <1>4, <1>6, <1>7 DEF order, N

\* The rank of a record is one more than the number of records before it.
LEMMA RankOfRecord ==
  ASSUME NEW s \in Answers, NEW at \in 1 .. Len(s)
  PROVE  LET c == s[at][1]
             p == Preceding(1 .. Len(s), Higher(s), at)
         IN  /\ p + 1 \in 1 .. Len(s) /\ RankIn(Rank(s), c) = p + 1 /\ c \in ToSet(Rank(s))
             /\ Place(s, c) = p
<1> DEFINE N == Len(s)
           c == s[at][1]
           p == Preceding(1 .. N, Higher(s), at)
<1>1. /\ s \in Seq(Records) /\ N \in 0 .. CandidateLimit /\ DOMAIN s = 1 .. N
      /\ \A i, j \in 1 .. N : s[i][1] = s[j][1] => i = j
  BY AnswerParts
<1>2. s \in Seq(Chunks \X Nat) /\ N \in Nat
  <2>1. Records \subseteq Chunks \X Nat
    BY RetrievalAssumption DEF Records
  <2> QED BY <1>1, <2>1, SeqMonotonic, RetrievalNumbers
<1>3. PICK order \in [1 .. N -> 1 .. N] :
        /\ \A i \in 1 .. N : Rank(s)[i] = s[order[i]][1]
        /\ \A i, j \in 1 .. N : i < j <=> <<order[i], order[j]>> \in Higher(s)
        /\ \A x \in 1 .. N : /\ Preceding(1 .. N, Higher(s), x) + 1 \in 1 .. N
                             /\ order[Preceding(1 .. N, Higher(s), x) + 1] = x
  BY <1>2, RankSorts
<1>4. Rank(s) \in Seq(Chunks) /\ Len(Rank(s)) = N
  BY <1>2, RankSorts
<1>5. DOMAIN Rank(s) = 1 .. N
  BY <1>4, LenProperties
<1>6. p + 1 \in 1 .. N /\ order[p + 1] = at
  BY <1>3
<1>7. Rank(s)[p + 1] = c
  BY <1>3, <1>6
<1>8. Orders(Higher(s), 1 .. N)
  BY <1>2, HigherOrders
<1> HIDE DEF N, p
<1>9. ASSUME NEW i \in 1 .. N, Rank(s)[i] = c PROVE i = p + 1
  <2>1. s[order[i]][1] = s[at][1] /\ order[i] \in 1 .. N /\ at \in 1 .. N
    BY <1>3, <1>9 DEF N
  <2>2. order[i] = at
    BY <1>1, <2>1
  <2>3. <<at, at>> \notin Higher(s)
    BY <1>8, <2>1 DEF Orders
  <2>4. ~(i < p + 1) /\ ~(p + 1 < i)
    BY <1>3, <1>6, <2>2, <2>3
  <2>5. i \in Int /\ p + 1 \in Int
    BY <1>2, <1>6
  <2> QED BY <2>4, <2>5
<1>10. RankIn(Rank(s), c) = p + 1
  BY <1>5, <1>6, <1>7, <1>9 DEF RankIn
<1>11. c \in ToSet(Rank(s))
  BY <1>5, <1>6, <1>7 DEF ToSet
<1>12. Place(s, c) = p
  <2>1. (CHOOSE i \in DOMAIN s : s[i][1] = c) = at
    <3>1. at \in DOMAIN s /\ s[at][1] = c
      BY <1>1 DEF N
    <3>2. \A i \in DOMAIN s : s[i][1] = c => i = at
      BY <1>1, <3>1
    <3> QED BY <3>1, <3>2
  <2>2. \E i \in DOMAIN s : s[i][1] = c
    BY <1>1 DEF N
  <2>3. {i \in DOMAIN s : \/ s[i][2] > s[at][2]
                          \/ s[i][2] = s[at][2] /\ Quality[s[i][1]] > Quality[c]
                          \/ s[i][2] = s[at][2] /\ Quality[s[i][1]] = Quality[c] /\ i < at}
          = {i \in 1 .. N : <<i, at>> \in Higher(s)}
    BY <1>1 DEF Higher, N
  <2>4. Place(s, c) = Cardinality({i \in DOMAIN s :
                          \/ s[i][2] > s[at][2]
                          \/ s[i][2] = s[at][2] /\ Quality[s[i][1]] > Quality[c]
                          \/ s[i][2] = s[at][2] /\ Quality[s[i][1]] = Quality[c] /\ i < at})
    BY <2>1, <2>2 DEF Place
  <2> QED BY <2>3, <2>4 DEF p, Preceding
<1> QED BY <1>6, <1>10, <1>11, <1>12 DEF N, p

-----------------------------------------------------------------------------
(* Fusion                                                                    *)

Top(s) == Prefix(Rank(s), CandidateLimit)

LEMMA TopIsRank ==
  ASSUME NEW s \in Answers
  PROVE  /\ Top(s) = Rank(s) /\ Top(s) \in Seq(Chunks) /\ Len(Top(s)) = Len(s)
         /\ Len(Top(s)) \in 0 .. CandidateLimit
<1>1. s \in Seq(Chunks \X Nat) /\ Len(s) \in 0 .. CandidateLimit
  <2>1. Records \subseteq Chunks \X Nat
    BY RetrievalAssumption DEF Records
  <2> QED BY <2>1, AnswerParts, SeqMonotonic
<1>2. Rank(s) \in Seq(Chunks) /\ Len(Rank(s)) = Len(s)
  BY <1>1, RankSorts
<1>3. CandidateLimit \in Nat /\ Len(Rank(s)) <= CandidateLimit
  BY <1>1, <1>2, RetrievalNumbers
<1>4. Top(s) = Rank(s)
  BY <1>2, <1>3, PrefixElements DEF Top
<1> QED BY <1>1, <1>2, <1>4

LEMMA RankInList ==
  ASSUME NEW T, NEW s \in Seq(T), NEW c \in ToSet(s)
  PROVE  RankIn(s, c) \in 1 .. Len(s) /\ s[RankIn(s, c)] = c /\ c \in T
<1>1. DOMAIN s = 1 .. Len(s) /\ \A i \in 1 .. Len(s) : s[i] \in T
  BY LenProperties
<1>2. \E i \in DOMAIN s : s[i] = c
  BY DEF ToSet
<1>3. RankIn(s, c) \in DOMAIN s /\ s[RankIn(s, c)] = c
  BY <1>2 DEF RankIn
<1> QED BY <1>1, <1>3

LEMMA ShareType ==
  ASSUME NEW list \in Seq(Chunks), Len(list) \in 0 .. CandidateLimit, NEW weight \in Nat \ {0}, NEW c
  PROVE  /\ Share(list, weight, c) \in Nat
         /\ c \in ToSet(list) =>
              /\ RankIn(list, c) \in 1 .. CandidateLimit
              /\ Share(list, weight, c) = weight * Contribution(RankIn(list, c))
         /\ c \notin ToSet(list) => Share(list, weight, c) = 0
<1>1. CASE c \in ToSet(list)
  <2>1. RankIn(list, c) \in 1 .. CandidateLimit
    <3>1. RankIn(list, c) \in 1 .. Len(list)
      BY <1>1, RankInList
    <3> QED BY <3>1, RetrievalNumbers
  <2>2. Share(list, weight, c) = weight * Contribution(RankIn(list, c))
    BY <1>1 DEF Share, Contribution
  <2>3. Contribution(RankIn(list, c)) \in Nat
    BY <2>1, BetterRankMore
  <2>4. \A a, b \in Nat : a * b \in Nat
    OBVIOUS
  <2> QED BY <1>1, <2>1, <2>2, <2>3, <2>4
<1>2. CASE c \notin ToSet(list)
  BY <1>2 DEF Share
<1> QED BY <1>1, <1>2

\* A record that is not in a list has the place after the last one.
LEMMA PlaceAbsent ==
  ASSUME NEW s \in Answers, NEW c, c \notin ToSet(Top(s))
  PROVE  Place(s, c) = CandidateLimit
<1>1. DOMAIN s = 1 .. Len(s)
  BY AnswerParts
<1>2. \A i \in 1 .. Len(s) : s[i][1] \in ToSet(Top(s))
  BY RankOfRecord, TopIsRank
<1>3. ~(\E i \in DOMAIN s : s[i][1] = c)
  BY <1>1, <1>2
<1> QED BY <1>3 DEF Place

LEMMA PlacePresent ==
  ASSUME NEW s \in Answers, NEW c \in ToSet(Top(s))
  PROVE  /\ Place(s, c) \in 0 .. CandidateLimit - 1
         /\ RankIn(Top(s), c) = Place(s, c) + 1
<1>1. s \in Seq(Chunks \X Nat) /\ Len(s) \in 0 .. CandidateLimit /\ Len(s) \in Nat
  <2>1. Records \subseteq Chunks \X Nat
    BY RetrievalAssumption DEF Records
  <2>2. s \in Seq(Chunks \X Nat)
    BY <2>1, AnswerParts, SeqMonotonic
  <2>3. Len(s) \in Nat
    BY <2>2, LenProperties
  <2> QED BY <2>2, <2>3, AnswerParts
<1>2. PICK i \in 1 .. Len(s) : Rank(s)[i] = c
  <2>1. Top(s) = Rank(s) /\ Top(s) \in Seq(Chunks) /\ Len(Top(s)) = Len(s)
    BY TopIsRank
  <2> QED BY <2>1, RankInList
<1>3. PICK at \in 1 .. Len(s) : s[at][1] = c
  <2>1. PICK order \in [1 .. Len(s) -> 1 .. Len(s)] : \A j \in 1 .. Len(s) : Rank(s)[j] = s[order[j]][1]
    BY <1>1, RankSorts
  <2>2. order[i] \in 1 .. Len(s) /\ s[order[i]][1] = c
    BY <1>2, <2>1
  <2> QED BY <2>2
<1> DEFINE p == Preceding(1 .. Len(s), Higher(s), at)
<1>4. p + 1 \in 1 .. Len(s) /\ RankIn(Rank(s), c) = p + 1 /\ Place(s, c) = p
  BY <1>3, RankOfRecord
<1>5. p \in Nat
  <2>1. {y \in 1 .. Len(s) : <<y, at>> \in Higher(s)} \subseteq 1 .. Len(s) /\ IsFiniteSet(1 .. Len(s))
    BY <1>1, FS_Interval
  <2> QED BY <2>1, FS_Subset, FS_CardinalityType DEF Preceding
<1> HIDE DEF p
<1>6. p \in 0 .. CandidateLimit - 1
  BY <1>1, <1>4, <1>5, RetrievalNumbers
<1> QED BY <1>4, <1>6, TopIsRank

\* What comes first in a search has the larger share.
LEMMA ShareOfPlace ==
  ASSUME NEW s \in Answers, NEW weight \in Nat \ {0}, NEW c, NEW d
  PROVE  /\ Place(s, c) < Place(s, d) => /\ c \in ToSet(Top(s))
                                         /\ Share(Top(s), weight, d) < Share(Top(s), weight, c)
         /\ Place(s, c) = Place(s, d) => Share(Top(s), weight, c) = Share(Top(s), weight, d)
<1> DEFINE x(e) == Share(Top(s), weight, e)
           r(e) == RankIn(Top(s), e)
           In(e) == e \in ToSet(Top(s))
<1>1. \A e \in {c, d} :
        /\ In(e) => /\ Place(s, e) \in 0 .. CandidateLimit - 1 /\ r(e) = Place(s, e) + 1
                    /\ r(e) \in 1 .. CandidateLimit /\ x(e) = weight * Contribution(r(e))
        /\ ~In(e) => Place(s, e) = CandidateLimit /\ x(e) = 0
  BY PlacePresent, PlaceAbsent, ShareType, TopIsRank
<1>2. CandidateLimit \in Nat
  BY RetrievalNumbers
<1>3. \A a, b \in Nat \ {0} : b < a => weight * b < weight * a
  OBVIOUS
<1>4. \A a \in Nat \ {0} : 0 < weight * a
  OBVIOUS
<1>5. /\ \A q \in 1 .. CandidateLimit : Contribution(q) \in Nat \ {0}
      /\ \A p, q \in 1 .. CandidateLimit : p < q => Contribution(q) < Contribution(p)
  BY BetterRankMore
<1>6. ASSUME Place(s, c) < Place(s, d) PROVE In(c) /\ x(d) < x(c)
  <2>1. In(c)
    <3> HIDE DEF In
    <3>1. CASE In(d)
      BY <1>1, <1>2, <1>6, <3>1
    <3>2. CASE ~In(d)
      BY <1>1, <1>2, <1>6, <3>2
    <3> QED BY <3>1, <3>2
  <2> HIDE DEF In, x, r
  <2>2. r(c) \in 1 .. CandidateLimit /\ x(c) = weight * Contribution(r(c)) /\ r(c) = Place(s, c) + 1
        /\ Place(s, c) \in 0 .. CandidateLimit - 1
    BY <1>1, <2>1
  <2>3. CASE In(d)
    <3>1. r(d) \in 1 .. CandidateLimit /\ x(d) = weight * Contribution(r(d)) /\ r(d) = Place(s, d) + 1
          /\ Place(s, d) \in 0 .. CandidateLimit - 1
      BY <1>1, <2>3
    <3>2. r(c) < r(d)
      BY <1>6, <2>2, <3>1
    <3>3. Contribution(r(d)) < Contribution(r(c))
      BY <1>5, <2>2, <3>1, <3>2
    <3> QED BY <1>3, <1>5, <2>1, <2>2, <3>1, <3>3
  <2>4. CASE ~In(d)
    <3>1. x(d) = 0
      BY <1>1, <2>4
    <3>2. 0 < weight * Contribution(r(c))
      BY <1>4, <1>5, <2>2
    <3> QED BY <2>1, <2>2, <3>1, <3>2
  <2> QED BY <2>3, <2>4
<1>7. ASSUME Place(s, c) = Place(s, d) PROVE x(c) = x(d)
  <2> HIDE DEF In, x, r
  <2>1. CASE In(c) /\ In(d)
    BY <1>1, <1>7, <2>1
  <2>2. CASE ~In(c) /\ ~In(d)
    BY <1>1, <2>2
  <2>3. CASE In(c) /\ ~In(d)
    BY <1>1, <1>2, <1>7, <2>3
  <2>4. CASE ~In(c) /\ In(d)
    BY <1>1, <1>2, <1>7, <2>4
  <2> QED BY <2>1, <2>2, <2>3, <2>4
<1> QED BY <1>6, <1>7

\* The order of the fused list is strict and total.
LEMMA AheadOrders ==
  ASSUME NEW dense \in Seq(Chunks), Len(dense) \in 0 .. CandidateLimit,
         NEW keyword \in Seq(Chunks), Len(keyword) \in 0 .. CandidateLimit
  PROVE  /\ Orders(Ahead(dense, keyword), Fused(dense, keyword))
         /\ IsFiniteSet(Fused(dense, keyword)) /\ Fused(dense, keyword) \subseteq Chunks
<1> DEFINE S == Fused(dense, keyword)
           a(c) == FusedScore(dense, keyword, c)
           e(c) == BestRank(dense, keyword, c)
           R == Ahead(dense, keyword)
<1>1. S \subseteq Chunks
  BY RankInList DEF Fused
<1>2. IsFiniteSet(S)
  BY <1>1, RetrievalAssumption, FS_Subset
<1>3. \A c \in S : a(c) \in Int
  BY ShareType, RetrievalAssumption DEF FusedScore
<1>4. ASSUME NEW c \in S PROVE e(c) \in Int
  <2> DEFINE lists == {l \in {dense, keyword} : c \in ToSet(l)}
             ranks == {RankIn(l, c) : l \in lists}
  <2>1. lists # {}
    BY DEF Fused
  <2>2. \A l \in lists : RankIn(l, c) \in Nat
    <3> SUFFICES ASSUME NEW l \in lists PROVE RankIn(l, c) \in Nat
      OBVIOUS
    <3>1. RankIn(l, c) \in 1 .. Len(l)
      BY RankInList
    <3> QED BY <3>1
  <2>3. ranks # {} /\ ranks \in SUBSET Nat
    BY <2>1, <2>2
  <2>4. e(c) = Min(ranks)
    BY DEF BestRank
  <2> HIDE DEF ranks
  <2>5. PICK n \in ranks : \A k \in ranks : n <= k
    BY <2>3, LeastNatural
  <2>6. Min(ranks) \in ranks
    BY <2>5 DEF Min
  <2>7. Min(ranks) \in Nat
    BY <2>3, <2>6
  <2> HIDE DEF e
  <2> QED BY <2>4, <2>7
<1>5. \A c \in S : a(c) \in Int /\ Quality[c] \in Int /\ e(c) \in Int /\ c \in Int
  BY <1>1, <1>3, <1>4, RetrievalNumbers
<1>6. \A c, d \in S : <<c, d>> \in R <=>
        \/ a(c) > a(d)
        \/ a(c) = a(d) /\ Quality[c] > Quality[d]
        \/ a(c) = a(d) /\ Quality[c] = Quality[d] /\ e(c) < e(d)
        \/ a(c) = a(d) /\ Quality[c] = Quality[d] /\ e(c) = e(d) /\ c < d
  BY DEF Ahead
<1> DEFINE q(c) == Quality[c]
<1> HIDE DEF a, e, R, S, q
<1>7. \A c \in S : a(c) \in Int /\ q(c) \in Int /\ e(c) \in Int /\ c \in Int
  BY <1>5 DEF q
<1>8. \A c, d \in S : <<c, d>> \in R <=>
        \/ a(c) > a(d)
        \/ a(c) = a(d) /\ q(c) > q(d)
        \/ a(c) = a(d) /\ q(c) = q(d) /\ e(c) < e(d)
        \/ a(c) = a(d) /\ q(c) = q(d) /\ e(c) = e(d) /\ c < d
  BY <1>6 DEF q
<1>9. ASSUME NEW x \in S, NEW y \in S, x # y PROVE <<x, y>> \in R \/ <<y, x>> \in R
  <2>1. a(x) \in Int /\ q(x) \in Int /\ e(x) \in Int /\ x \in Int /\ a(y) \in Int /\ q(y) \in Int /\ e(y) \in Int /\ y \in Int
    BY <1>7
  <2> QED BY <1>8, <1>9, <2>1
<1>10. ASSUME NEW x \in S, NEW y \in S, <<x, y>> \in R PROVE <<y, x>> \notin R
  <2>1. a(x) \in Int /\ q(x) \in Int /\ e(x) \in Int /\ x \in Int /\ a(y) \in Int /\ q(y) \in Int /\ e(y) \in Int /\ y \in Int
    BY <1>7
  <2>2. \/ a(x) > a(y)
        \/ a(x) = a(y) /\ q(x) > q(y)
        \/ a(x) = a(y) /\ q(x) = q(y) /\ e(x) < e(y)
        \/ a(x) = a(y) /\ q(x) = q(y) /\ e(x) = e(y) /\ x < y
    BY <1>8, <1>10
  <2>3. ~ \/ a(y) > a(x)
          \/ a(y) = a(x) /\ q(y) > q(x)
          \/ a(y) = a(x) /\ q(y) = q(x) /\ e(y) < e(x)
          \/ a(y) = a(x) /\ q(y) = q(x) /\ e(y) = e(x) /\ y < x
    BY <2>1, <2>2
  <2> QED BY <1>8, <2>3
<1>11. ASSUME NEW x \in S, NEW y \in S, NEW z \in S, <<x, y>> \in R, <<y, z>> \in R PROVE <<x, z>> \in R
  <2>1. a(x) \in Int /\ q(x) \in Int /\ e(x) \in Int /\ x \in Int /\ a(y) \in Int /\ q(y) \in Int /\ e(y) \in Int /\ y \in Int
        /\ a(z) \in Int /\ q(z) \in Int /\ e(z) \in Int /\ z \in Int
    BY <1>7
  <2>2. \/ a(x) > a(y)
        \/ a(x) = a(y) /\ q(x) > q(y)
        \/ a(x) = a(y) /\ q(x) = q(y) /\ e(x) < e(y)
        \/ a(x) = a(y) /\ q(x) = q(y) /\ e(x) = e(y) /\ x < y
    BY <1>8, <1>11
  <2>3. \/ a(y) > a(z)
        \/ a(y) = a(z) /\ q(y) > q(z)
        \/ a(y) = a(z) /\ q(y) = q(z) /\ e(y) < e(z)
        \/ a(y) = a(z) /\ q(y) = q(z) /\ e(y) = e(z) /\ y < z
    BY <1>8, <1>11
  <2>4. \/ a(x) > a(z)
        \/ a(x) = a(z) /\ q(x) > q(z)
        \/ a(x) = a(z) /\ q(x) = q(z) /\ e(x) < e(z)
        \/ a(x) = a(z) /\ q(x) = q(z) /\ e(x) = e(z) /\ x < z
    BY <2>1, <2>2, <2>3
  <2> QED BY <1>8, <2>4
<1> QED BY <1>1, <1>2, <1>9, <1>10, <1>11 DEF Orders, R, S

\* The candidates are each fused chunk once, the best ones in their order.
FusedList(q, dense, keyword) ==
  /\ q \in Seq(Chunks) /\ Len(q) \in 0 .. RerankLimit
  /\ \A i, j \in 1 .. Len(q) : q[i] = q[j] => i = j
  /\ \A j \in 1 .. Len(q) : q[j] \in Fused(dense, keyword)
  /\ \A c \in Fused(dense, keyword), j \in 1 .. Len(q) :
       <<c, q[j]>> \in Ahead(dense, keyword) => \E i \in 1 .. Len(q) : i < j /\ q[i] = c

LEMMA FuseSorts ==
  ASSUME NEW dense \in Seq(Chunks), Len(dense) \in 0 .. CandidateLimit,
         NEW keyword \in Seq(Chunks), Len(keyword) \in 0 .. CandidateLimit,
         NEW q, q = Fuse(dense, keyword)
  PROVE  FusedList(q, dense, keyword)
<1> DEFINE S == Fused(dense, keyword)
           R == Ahead(dense, keyword)
           N == Cardinality(S)
           s == InOrder(S, R)
<1>1. Orders(R, S) /\ IsFiniteSet(S) /\ S \subseteq Chunks
  BY AheadOrders
<1>2. N \in Nat
  BY <1>1, FS_CardinalityType
<1>3. q = Prefix(s, RerankLimit)
  BY DEF Fuse
<1> HIDE DEF S, R, N
<1>4. /\ s \in [1 .. N -> S]
      /\ \A x \in S : Preceding(S, R, x) + 1 \in 1 .. N /\ s[Preceding(S, R, x) + 1] = x
      /\ \A i, j \in 1 .. N : i < j <=> <<s[i], s[j]>> \in R
  BY <1>1, InOrderSorts DEF N
<1> HIDE DEF s
<1>5. s \in Seq(Chunks) /\ Len(s) = N /\ DOMAIN s = 1 .. N
  <2>1. \A i \in 1 .. N : s[i] \in Chunks
    BY <1>1, <1>4
  <2>2. s = [i \in 1 .. N |-> s[i]]
    BY <1>4
  <2>3. [i \in 1 .. N |-> s[i]] \in Seq(Chunks)
    BY <1>2, <2>1, IsASeq
  <2>4. s \in Seq(Chunks)
    BY <2>2, <2>3
  <2> QED BY <1>2, <1>4, <2>4, LenProperties
<1>6. /\ q \in Seq(Chunks) /\ Len(q) = (IF RerankLimit < N THEN RerankLimit ELSE N) /\ Len(q) \in 0 .. N
      /\ \A i \in 1 .. Len(q) : i \in 1 .. N /\ q[i] = s[i]
  BY <1>3, <1>5, RetrievalNumbers, PrefixElements, SMTT(30)
<1>7. \A i, j \in 1 .. N : s[i] = s[j] => i = j
  <2> SUFFICES ASSUME NEW i \in 1 .. N, NEW j \in 1 .. N, s[i] = s[j] PROVE i = j
    OBVIOUS
  <2>1. s[i] \in S /\ <<s[i], s[j]>> \notin R /\ <<s[j], s[i]>> \notin R
    BY <1>1, <1>4 DEF Orders
  <2>2. ~(i < j) /\ ~(j < i) /\ i \in Int /\ j \in Int
    BY <1>4, <2>1
  <2> QED BY <2>2
<1>8. ASSUME NEW c \in S, NEW j \in 1 .. Len(q), <<c, q[j]>> \in R
      PROVE  \E i \in 1 .. Len(q) : i < j /\ q[i] = c
  <2>1. PICK i \in 1 .. N : s[i] = c
    BY <1>4
  <2>2. i < j
    BY <1>4, <1>6, <1>8, <2>1
  <2>3. i \in 1 .. Len(q)
    BY <1>2, <1>6, <2>1, <2>2
  <2> QED BY <1>6, <2>1, <2>2, <2>3
<1>9. Len(q) \in 0 .. RerankLimit
  <2>1. \A a, b \in Nat : (IF a < b THEN a ELSE b) \in 0 .. a
    OBVIOUS
  <2> QED BY <1>2, <1>6, <2>1, RetrievalNumbers
<1>10. \A j \in 1 .. Len(q) : q[j] \in S
  BY <1>4, <1>6
<1>11. \A i, j \in 1 .. Len(q) : q[i] = q[j] => i = j
  BY <1>6, <1>7
<1> QED BY <1>3, <1>6, <1>8, <1>9, <1>10, <1>11 DEF FusedList, S, R

\* A chunk that one search puts before another one and none behind it is before it.
LEMMA FusionAgrees ==
  ASSUME NEW records \in [Searches -> Answers],
         NEW q, q = Fuse(Top(records["dense"]), Top(records["keyword"]))
  PROVE  /\ q \in Seq(Chunks) /\ Len(q) \in 0 .. RerankLimit
         /\ \A i, j \in 1 .. Len(q) : q[i] = q[j] => i = j
         /\ \A c, d : /\ d \in ToSet(q)
                      /\ \A s \in Searches : \/ Place(records[s], c) < Place(records[s], d)
                                            \/ Place(records[s], c) = Place(records[s], d)
                      /\ \E s \in Searches : Place(records[s], c) < Place(records[s], d)
                      => c \in ToSet(q) /\ RankIn(q, c) < RankIn(q, d)
<1> DEFINE a == records["dense"]
           b == records["keyword"]
           dense == Top(a)
           keyword == Top(b)
<1>1. a \in Answers /\ b \in Answers
  BY DEF Searches
<1>2. /\ dense \in Seq(Chunks) /\ Len(dense) \in 0 .. CandidateLimit
      /\ keyword \in Seq(Chunks) /\ Len(keyword) \in 0 .. CandidateLimit
  BY <1>1, TopIsRank
<1>3. q = Fuse(dense, keyword)
  OBVIOUS
<1> HIDE DEF dense, keyword
<1>4. /\ q \in Seq(Chunks) /\ Len(q) \in 0 .. RerankLimit
      /\ \A i, j \in 1 .. Len(q) : q[i] = q[j] => i = j
      /\ \A j \in 1 .. Len(q) : q[j] \in Fused(dense, keyword)
      /\ \A c \in Fused(dense, keyword), j \in 1 .. Len(q) :
           <<c, q[j]>> \in Ahead(dense, keyword) => \E i \in 1 .. Len(q) : i < j /\ q[i] = c
  <2>1. FusedList(q, dense, keyword)
    BY <1>2, <1>3, FuseSorts
  <2> QED BY <2>1 DEF FusedList
<1>5. DOMAIN q = 1 .. Len(q)
  BY <1>4, LenProperties
<1>6. ASSUME NEW c, NEW d, d \in ToSet(q),
             \A s \in Searches : \/ Place(records[s], c) < Place(records[s], d)
                                \/ Place(records[s], c) = Place(records[s], d),
             \E s \in Searches : Place(records[s], c) < Place(records[s], d)
      PROVE  c \in ToSet(q) /\ RankIn(q, c) < RankIn(q, d)
  <2> DEFINE x(e) == Share(dense, DenseWeight, e)
             y(e) == Share(keyword, KeywordWeight, e)
  <2>1. \A s \in Searches, e \in {c, d} : Place(records[s], e) \in Nat
    <3> SUFFICES ASSUME NEW s \in Searches, NEW e PROVE Place(records[s], e) \in Nat
      OBVIOUS
    <3>1. records[s] \in Answers
      OBVIOUS
    <3>2. CASE e \in ToSet(Top(records[s]))
      BY <3>1, <3>2, PlacePresent, RetrievalNumbers
    <3>3. CASE e \notin ToSet(Top(records[s]))
      BY <3>1, <3>3, PlaceAbsent, RetrievalNumbers
    <3> QED BY <3>2, <3>3
  <2>2. DenseWeight \in Nat \ {0} /\ KeywordWeight \in Nat \ {0}
    BY RetrievalAssumption
  <2>3. /\ Place(a, c) < Place(a, d) => c \in ToSet(dense) /\ x(d) < x(c)
        /\ Place(a, c) = Place(a, d) => x(c) = x(d)
    BY <1>1, <2>2, ShareOfPlace DEF dense
  <2>4. /\ Place(b, c) < Place(b, d) => c \in ToSet(keyword) /\ y(d) < y(c)
        /\ Place(b, c) = Place(b, d) => y(c) = y(d)
    BY <1>1, <2>2, ShareOfPlace DEF keyword
  <2>5. x(c) \in Nat /\ x(d) \in Nat /\ y(c) \in Nat /\ y(d) \in Nat
    BY <1>2, <2>2, ShareType
  <2>6. /\ Place(a, c) \in Nat /\ Place(a, d) \in Nat /\ Place(b, c) \in Nat /\ Place(b, d) \in Nat
        /\ Place(a, c) <= Place(a, d) /\ Place(b, c) <= Place(b, d)
        /\ Place(a, c) < Place(a, d) \/ Place(b, c) < Place(b, d)
    BY <1>6, <2>1 DEF Searches
  <2>7. FusedScore(dense, keyword, c) = x(c) + y(c) /\ FusedScore(dense, keyword, d) = x(d) + y(d)
    BY DEF FusedScore
  <2> HIDE DEF x, y, a, b
  <2>8. x(c) + y(c) > x(d) + y(d) /\ (c \in ToSet(dense) \/ c \in ToSet(keyword))
    BY <2>3, <2>4, <2>5, <2>6
  <2>9. c \in Fused(dense, keyword)
    BY <2>8 DEF Fused
  <2>10. RankIn(q, d) \in 1 .. Len(q) /\ q[RankIn(q, d)] = d
    BY <1>4, <1>6, RankInList
  <2>11. <<c, d>> \in Ahead(dense, keyword)
    <3>1. d \in Fused(dense, keyword)
      BY <1>4, <2>10
    <3> QED BY <2>7, <2>8, <2>9, <3>1 DEF Ahead
  <2>12. PICK i \in 1 .. Len(q) : i < RankIn(q, d) /\ q[i] = c
    BY <1>4, <2>9, <2>10, <2>11
  <2>13. c \in ToSet(q)
    BY <1>5, <2>12 DEF ToSet
  <2>14. RankIn(q, c) = i
    <3>1. RankIn(q, c) \in 1 .. Len(q) /\ q[RankIn(q, c)] = c
      BY <1>4, <2>13, RankInList
    <3> QED BY <1>4, <2>12, <3>1
  <2> QED BY <2>12, <2>13, <2>14
<1> QED BY <1>4, <1>6

-----------------------------------------------------------------------------
(* The gate and the prompt                                                   *)

\* g: the good chunks, the most relevant first, up to the limit.
Relevant(g, f, good) ==
  /\ g \in Seq(Chunks)
  /\ \A i, j \in 1 .. Len(g) : g[i] = g[j] => i = j
  /\ \A i \in 1 .. Len(g) : g[i] \in good
  /\ Len(g) = Min({FinalLimit, Cardinality(good)})
  /\ \A i \in 1 .. Len(g), c \in good : f[c] > f[g[i]] => \E j \in 1 .. Len(g) : j < i /\ g[j] = c

LEMMA SmallerOf ==
  ASSUME NEW a \in Nat, NEW b \in Nat
  PROVE  Min({a, b}) = IF a < b THEN a ELSE b
<1> DEFINE m == IF a < b THEN a ELSE b
<1>1. m \in {a, b} /\ \A k \in {a, b} : m <= k
  OBVIOUS
<1>2. \A k \in {a, b} : (\A l \in {a, b} : k <= l) => k = m
  OBVIOUS
<1> HIDE DEF m
<1>3. (CHOOSE x \in {a, b} : \A y \in {a, b} : x <= y) = m
  BY <1>1, <1>2
<1> QED BY <1>3 DEF Min, m

\* order: the places of the records of s by rank.
Ordering(order, s, N) ==
  /\ order \in [1 .. N -> 1 .. N]
  /\ \A i \in 1 .. N : Rank(s)[i] = s[order[i]][1]
  /\ \A i, j \in 1 .. N : i < j <=> <<order[i], order[j]>> \in Higher(s)
  /\ \A x \in 1 .. N : \E i \in 1 .. N : order[i] = x

LEMMA RankOrder ==
  ASSUME NEW s \in Seq(Chunks \X Nat), NEW N, N = Len(s)
  PROVE  \E order : Ordering(order, s, N)
<1>1. PICK order \in [1 .. Len(s) -> 1 .. Len(s)] :
        /\ \A i \in 1 .. Len(s) : Rank(s)[i] = s[order[i]][1]
        /\ \A i, j \in 1 .. Len(s) : i < j <=> <<order[i], order[j]>> \in Higher(s)
        /\ \A x \in 1 .. Len(s) : /\ Preceding(1 .. Len(s), Higher(s), x) + 1 \in 1 .. Len(s)
                                   /\ order[Preceding(1 .. Len(s), Higher(s), x) + 1] = x
  BY RankSorts
<1>2. \A x \in 1 .. Len(s) : \E i \in 1 .. Len(s) : order[i] = x
  BY <1>1
<1>3. Ordering(order, s, Len(s))
  BY <1>1, <1>2 DEF Ordering
<1> QED BY <1>3

LEMMA GatePasses ==
  ASSUME NEW s \in Seq(Chunks), \A i, j \in 1 .. Len(s) : s[i] = s[j] => i = j,
         NEW f \in [Chunks -> Nat], NEW g, g = Gate(s, f)
  PROVE  Relevant(g, f, {c \in ToSet(s) : Passes(s, f, c)})
<1> DEFINE good == {c \in ToSet(s) : Passes(s, f, c)}
           I == {i \in DOMAIN s : Passes(s, f, s[i])}
           N == Cardinality(I)
           p == Pick(s, I)
           pairs == [i \in DOMAIN p |-> <<p[i], f[p[i]]>>]
           r == Rank(pairs)
<1>1. DOMAIN s = 1 .. Len(s) /\ \A i \in 1 .. Len(s) : s[i] \in Chunks
  BY LenProperties
<1>2. g = Prefix(r, FinalLimit)
  BY DEF Gate
<1>3. \A i \in I : i \in 1 .. Len(s) /\ s[i] \in good
  BY <1>1 DEF ToSet
<1>4. \A c \in good : \E i \in I : s[i] = c
  BY DEF ToSet
<1>5. /\ N \in Nat /\ p \in Seq(Chunks) /\ Len(p) = N
      /\ \E at \in [1 .. N -> I] :
           /\ \A x \in I : \E n \in 1 .. N : at[n] = x
           /\ \A i, j \in 1 .. N : i < j <=> at[i] < at[j]
           /\ \A n \in 1 .. N : p[n] = s[at[n]]
  <2>1. I \in SUBSET DOMAIN s
    OBVIOUS
  <2>2. IsFiniteSet(I)
    BY <2>1, PickElements
  <2> HIDE DEF I
  <2>3. PICK at \in [1 .. N -> I] :
          /\ at = Ascending(I)
          /\ \A x \in I : \E n \in 1 .. N : at[n] = x
          /\ \A i, j \in 1 .. N : i < j <=> at[i] < at[j]
          /\ \A n \in 1 .. N : p[n] = s[at[n]]
    BY <2>1, PickElements
  <2>4. N \in Nat
    BY <2>2, FS_CardinalityType
  <2>5. p \in Seq(Chunks) /\ Len(p) = N
    BY <2>1, PickElements
  <2> HIDE DEF N, p
  <2>6. \E o \in [1 .. N -> I] :
          /\ \A x \in I : \E n \in 1 .. N : o[n] = x
          /\ \A i, j \in 1 .. N : i < j <=> o[i] < o[j]
          /\ \A n \in 1 .. N : p[n] = s[o[n]]
    BY <2>3
  <2> QED BY <2>4, <2>5, <2>6
<1> HIDE DEF p, N, I, good
<1>6. PICK at \in [1 .. N -> I] :
        /\ \A x \in I : \E n \in 1 .. N : at[n] = x
        /\ \A i, j \in 1 .. N : i < j <=> at[i] < at[j]
        /\ \A n \in 1 .. N : p[n] = s[at[n]]
  BY <1>5
<1>7. DOMAIN p = 1 .. N /\ \A n \in 1 .. N : p[n] \in Chunks /\ p[n] \in good
  <2>1. DOMAIN p = 1 .. N
    BY <1>5, LenProperties
  <2>2. ASSUME NEW n \in 1 .. N PROVE p[n] \in Chunks /\ p[n] \in good
    <3>1. at[n] \in I /\ p[n] = s[at[n]]
      BY <1>6
    <3> QED BY <1>1, <1>3, <3>1
  <2> QED BY <2>1, <2>2
<1>8. \A m, n \in 1 .. N : p[m] = p[n] => m = n
  <2> SUFFICES ASSUME NEW m \in 1 .. N, NEW n \in 1 .. N, p[m] = p[n] PROVE m = n
    OBVIOUS
  <2>1. at[m] \in I /\ at[n] \in I /\ s[at[m]] = s[at[n]]
    BY <1>6
  <2>2. at[m] = at[n] /\ at[m] \in 1 .. Len(s)
    BY <1>3, <2>1
  <2>3. ~(at[m] < at[n]) /\ ~(at[n] < at[m])
    BY <2>2, LenProperties
  <2>4. ~(m < n) /\ ~(n < m) /\ m \in Int /\ n \in Int
    BY <1>5, <1>6, <2>3
  <2> QED BY <2>4
<1>9. \A c \in good : \E n \in 1 .. N : p[n] = c
  <2> SUFFICES ASSUME NEW c \in good PROVE \E n \in 1 .. N : p[n] = c
    OBVIOUS
  <2>1. PICK i \in I : s[i] = c
    BY <1>4
  <2>2. PICK n \in 1 .. N : at[n] = i
    BY <1>6
  <2> QED BY <1>6, <2>1, <2>2
<1>10. /\ pairs \in Seq(Chunks \X Nat) /\ Len(pairs) = N
       /\ \A i \in 1 .. N : pairs[i] = <<p[i], f[p[i]]>>
  <2>1. \A i \in 1 .. N : <<p[i], f[p[i]]>> \in Chunks \X Nat
    BY <1>7
  <2>2. pairs = [i \in 1 .. N |-> <<p[i], f[p[i]]>>]
    BY <1>7
  <2>3. [i \in 1 .. N |-> <<p[i], f[p[i]]>>] \in Seq(Chunks \X Nat)
    BY <1>5, <2>1, IsASeq
  <2>4. DOMAIN pairs = 1 .. N /\ pairs \in Seq(Chunks \X Nat)
    BY <2>2, <2>3
  <2> QED BY <1>5, <2>2, <2>4, LenProperties
<1> HIDE DEF pairs
<1>11. r \in Seq(Chunks) /\ Len(r) = N
  BY <1>10, RankSorts
<1>12. PICK order \in [1 .. N -> 1 .. N] :
         /\ \A i \in 1 .. N : r[i] = pairs[order[i]][1]
         /\ \A i, j \in 1 .. N : i < j <=> <<order[i], order[j]>> \in Higher(pairs)
         /\ \A x \in 1 .. N : \E i \in 1 .. N : order[i] = x
  <2>1. PICK order : Ordering(order, pairs, N)
    BY <1>10, RankOrder
  <2> QED BY <2>1 DEF Ordering
<1> HIDE DEF r
<1>13. \A i \in 1 .. N : order[i] \in 1 .. N /\ r[i] = p[order[i]] /\ r[i] \in good /\ r[i] \in Chunks
  <2> SUFFICES ASSUME NEW i \in 1 .. N
               PROVE  order[i] \in 1 .. N /\ r[i] = p[order[i]] /\ r[i] \in good /\ r[i] \in Chunks
    OBVIOUS
  <2>1. order[i] \in 1 .. N /\ r[i] = pairs[order[i]][1]
    BY <1>12
  <2>2. pairs[order[i]] = <<p[order[i]], f[p[order[i]]]>>
    BY <1>10, <2>1
  <2>3. r[i] = p[order[i]]
    BY <2>1, <2>2
  <2> QED BY <1>7, <2>1, <2>3
<1>14. \A i, j \in 1 .. N : r[i] = r[j] => i = j
  <2> SUFFICES ASSUME NEW i \in 1 .. N, NEW j \in 1 .. N, r[i] = r[j] PROVE i = j
    OBVIOUS
  <2>1. order[i] = order[j] /\ order[i] \in 1 .. N
    BY <1>8, <1>13
  <2>2. Orders(Higher(pairs), 1 .. N)
    BY <1>10, HigherOrders
  <2>3. <<order[i], order[j]>> \notin Higher(pairs) /\ <<order[j], order[i]>> \notin Higher(pairs)
    BY <2>1, <2>2 DEF Orders
  <2>4. ~(i < j) /\ ~(j < i) /\ i \in Int /\ j \in Int
    BY <1>5, <1>12, <2>3
  <2> QED BY <2>4
<1>15. \A c \in good : \E i \in 1 .. N : r[i] = c
  <2> SUFFICES ASSUME NEW c \in good PROVE \E i \in 1 .. N : r[i] = c
    OBVIOUS
  <2>1. PICK n \in 1 .. N : p[n] = c
    BY <1>9
  <2>2. PICK i \in 1 .. N : order[i] = n
    BY <1>12
  <2> QED BY <1>13, <2>1, <2>2
<1>16. \A i, j \in 1 .. N : f[r[i]] > f[r[j]] => i < j
  <2> SUFFICES ASSUME NEW i \in 1 .. N, NEW j \in 1 .. N, f[r[i]] > f[r[j]] PROVE i < j
    OBVIOUS
  <2>1. pairs[order[i]][2] = f[r[i]] /\ pairs[order[j]][2] = f[r[j]]
    <3>1. \A k \in 1 .. N : pairs[k][2] = f[p[k]]
      BY <1>10, SMTT(30)
    <3> QED BY <1>13, <3>1
  <2>2. order[i] \in DOMAIN pairs /\ order[j] \in DOMAIN pairs
    BY <1>10, <1>13, LenProperties
  <2>3. <<order[i], order[j]>> \in Higher(pairs)
    BY <2>1, <2>2 DEF Higher
  <2> QED BY <1>12, <2>3
<1>17. Cardinality(good) = N
  <2> DEFINE h == [i \in 1 .. N |-> r[i]]
  <2>1. h \in Bijection(1 .. N, good)
    BY <1>13, <1>14, <1>15 DEF Bijection, Injection, Surjection, IsInjective
  <2>2. IsFiniteSet(1 .. N) /\ Cardinality(1 .. N) = N
    <3>1. \A n \in Nat : IsFiniteSet(1 .. n) /\ Cardinality(1 .. n) = n
      <4> SUFFICES ASSUME NEW n \in Nat PROVE IsFiniteSet(1 .. n) /\ Cardinality(1 .. n) = n
        OBVIOUS
      <4>1. (IF 1 > n THEN 0 ELSE n - 1 + 1) = n
        OBVIOUS
      <4> QED BY <4>1, FS_Interval
    <3> QED BY <1>5, <3>1
  <2> HIDE DEF h
  <2>3. ExistsBijection(1 .. N, good)
    BY <2>1 DEF ExistsBijection
  <2> QED BY <2>2, <2>3, FS_Bijection
<1>18. FinalLimit \in Nat
  BY RetrievalNumbers
<1>19. /\ g \in Seq(Chunks) /\ Len(g) = (IF FinalLimit < N THEN FinalLimit ELSE N)
       /\ \A i \in 1 .. Len(g) : i \in 1 .. N /\ g[i] = r[i]
  BY <1>2, <1>11, <1>18, PrefixElements
<1>20. Len(g) = Min({FinalLimit, Cardinality(good)})
  <2>1. Min({FinalLimit, N}) = IF FinalLimit < N THEN FinalLimit ELSE N
    BY <1>5, <1>18, SmallerOf
  <2> QED BY <1>17, <1>19, <2>1
<1>21. ASSUME NEW i \in 1 .. Len(g), NEW c \in good, f[c] > f[g[i]]
       PROVE  \E j \in 1 .. Len(g) : j < i /\ g[j] = c
  <2>1. PICK j \in 1 .. N : r[j] = c
    BY <1>15
  <2>2. j < i
    BY <1>16, <1>19, <1>21, <2>1
  <2>3. j \in 1 .. Len(g)
    <3>1. Len(g) \in Int /\ i \in Int /\ j \in Int
      BY <1>5, <1>19, LenProperties
    <3> QED BY <2>2, <3>1
  <2> QED BY <1>19, <2>1, <2>2, <2>3
<1>22. \A i \in 1 .. Len(g) : g[i] \in good
  BY <1>13, <1>19
<1>23. \A i, j \in 1 .. Len(g) : g[i] = g[j] => i = j
  BY <1>14, <1>19
<1> QED BY <1>19, <1>20, <1>21, <1>22, <1>23 DEF Relevant, good

LEMMA PromptIsPrefix ==
  ASSUME NEW s \in Seq(Chunks), NEW room
  PROVE  PromptSources(s, room) \in Seq(Chunks) /\ IsPrefix(PromptSources(s, room), s)
<1>1. PICK S \in SUBSET DOMAIN s : PromptSources(s, room) = Prefix(s, Max({0} \union S))
  BY DEF PromptSources
<1>2. DOMAIN s = 1 .. Len(s) /\ Len(s) \in Nat
  BY LenProperties
<1>3. {0} \union S \in SUBSET (0 .. Len(s)) /\ {0} \union S # {}
  BY <1>2
<1>4. Max({0} \union S) \in 0 .. Len(s)
  BY <1>2, <1>3, Largest
<1>5. Max({0} \union S) \in Nat
  BY <1>2, <1>4
<1> QED BY <1>1, <1>5, PrefixElements

-----------------------------------------------------------------------------
(* The steps of a question                                                   *)

CandidatesOK ==
  /\ \A i, j \in 1 .. Len(candidates) : candidates[i] = candidates[j] => i = j
  /\ stage = "reranking" /\ found # NoRecords
       => candidates = Fuse(Top(found["dense"]), Top(found["keyword"]))

SourcesOK ==
  /\ stage # "answered" => ranked = <<>> /\ included = <<>>
  /\ stage = "answered" =>
       /\ Relevant(ranked, relevance, {c \in ToSet(candidates) : Passes(candidates, relevance, c)})
       /\ IsPrefix(included, ranked)

\* The inductive invariant: the candidates are the fusion of the records as long as
\* these are kept, and the sources are what the gate leaves of the candidates.
RetrievalInv ==
  /\ RetrievalTypeOK
  /\ found \in [Searches -> Answers]
  /\ CandidatesOK
  /\ SourcesOK

LEMMA NothingIsAnAnswer == NoRecords \in [Searches -> Answers] /\ <<>> \in Answers
<1>1. 0 \in 0 .. CandidateLimit
  BY RetrievalNumbers
<1>2. <<>> \in [1 .. 0 -> Chunks \X SearchScores]
  BY SMT
<1>3. \A i, j \in DOMAIN <<>> : i < j => <<>>[i][1] # <<>>[j][1] /\ <<>>[i][2] >= <<>>[j][2]
  BY SMT
<1>4. <<>> \in Answers
  BY <1>1, <1>2, <1>3 DEF Answers
<1> QED BY <1>4 DEF NoRecords

LEMMA RecordsTyped ==
  ASSUME NEW f \in [Searches -> Answers]
  PROVE  f \in [Searches -> Seq(Chunks \X SearchScores)]
<1>1. \A s \in Answers : s \in Seq(Chunks \X SearchScores)
  BY AnswerParts DEF Records
<1> QED BY <1>1

LEMMA RetrievalStarts == RetrievalInit => RetrievalInv
<1> SUFFICES ASSUME RetrievalInit PROVE RetrievalInv
  OBVIOUS
<1> USE DEF RetrievalInit
<1>1. found \in [Searches -> Answers]
  BY NothingIsAnAnswer
<1>2. RetrievalTypeOK
  <2>1. <<>> \in Seq(Chunks) /\ Len(<<>>) = 0
    OBVIOUS
  <2>2. 1 \in 1 .. Rerankers /\ 0 \in 0 .. RerankRetries /\ 0 <= RerankLimit
    BY RetrievalAssumption
  <2>3. relevance \in [Chunks -> RerankScores \union {0}]
    BY DEF Irrelevant
  <2> QED BY <1>1, <2>1, <2>2, <2>3, RecordsTyped DEF RetrievalTypeOK
<1>3. CandidatesOK
  BY DEF CandidatesOK
<1>4. SourcesOK
  BY DEF SourcesOK
<1> QED BY <1>1, <1>2, <1>3, <1>4 DEF RetrievalInv

LEMMA StartSearchKeeps == RetrievalInv /\ StartSearch => RetrievalInv'
<1> SUFFICES ASSUME RetrievalInv, StartSearch PROVE RetrievalInv'
  OBVIOUS
<1> USE DEF RetrievalInv, StartSearch
<1>1. RetrievalTypeOK'
  BY DEF RetrievalTypeOK
<1>2. CandidatesOK'
  BY DEF CandidatesOK
<1>3. SourcesOK'
  BY DEF SourcesOK
<1> QED BY <1>1, <1>2, <1>3

LEMMA SearchKeeps ==
  ASSUME NEW s \in Searches
  PROVE  RetrievalInv /\ (Search(s) \/ SearchFails(s)) => RetrievalInv'
<1> SUFFICES ASSUME RetrievalInv, Search(s) \/ SearchFails(s) PROVE RetrievalInv'
  OBVIOUS
<1> USE DEF RetrievalInv, Search, SearchFails
<1>1. (found \in [Searches -> Answers])'
  BY NothingIsAnAnswer
<1>2. (found \in [Searches -> Seq(Chunks \X SearchScores)])'
  BY <1>1, RecordsTyped
<1>3. RetrievalTypeOK'
  BY <1>2 DEF RetrievalTypeOK
<1>4. CandidatesOK'
  BY DEF CandidatesOK
<1>5. SourcesOK'
  BY DEF SourcesOK
<1> QED BY <1>1, <1>3, <1>4, <1>5

LEMMA CandidatesKeep == RetrievalInv /\ Candidates => RetrievalInv'
<1> SUFFICES ASSUME RetrievalInv, Candidates PROVE RetrievalInv'
  OBVIOUS
<1> DEFINE fused == Fuse(Top(found["dense"]), Top(found["keyword"]))
<1>1. /\ stage = "searching" /\ candidates' = fused
      /\ stage' = IF fused = <<>> THEN "answered" ELSE "reranking"
      /\ searched' = {}
      /\ UNCHANGED <<found, reranker, tries, relevance, ranked, included>>
  BY DEF Candidates, Top
<1>2. /\ fused \in Seq(Chunks) /\ Len(fused) \in 0 .. RerankLimit
      /\ \A i, j \in 1 .. Len(fused) : fused[i] = fused[j] => i = j
  <2>1. found \in [Searches -> Answers]
    BY DEF RetrievalInv
  <2> QED BY <2>1, FusionAgrees
<1> HIDE DEF fused
<1>3. RetrievalTypeOK'
  <2>1. candidates' \in Seq(Chunks) /\ Len(candidates') <= RerankLimit
    BY <1>1, <1>2, RetrievalNumbers
  <2> QED BY <1>1, <2>1 DEF RetrievalInv, RetrievalTypeOK
<1>4. CandidatesOK'
  BY <1>1, <1>2 DEF CandidatesOK, fused
<1>5. ranked = <<>> /\ included = <<>>
  BY <1>1 DEF RetrievalInv, SourcesOK
<1>6. SourcesOK'
  <2>1. CASE fused # <<>>
    BY <1>1, <1>5, <2>1 DEF SourcesOK
  <2>2. CASE fused = <<>>
    <3>1. {c \in ToSet(candidates') : Passes(candidates', relevance', c)} = {}
      BY <1>1, <2>2 DEF ToSet
    <3>2. Min({FinalLimit, 0}) = 0
      <4>1. FinalLimit \in Nat /\ ~(FinalLimit < 0)
        BY RetrievalNumbers
      <4> QED BY <4>1, SmallerOf
    <3>3. Cardinality({}) = 0
      BY FS_EmptySet
    <3>4. Relevant(<<>>, relevance', {})
      <4>1. <<>> \in Seq(Chunks) /\ Len(<<>>) = 0
        OBVIOUS
      <4>2. \A i \in 1 .. 0 : FALSE
        OBVIOUS
      <4> QED BY <3>2, <3>3, <4>1, <4>2 DEF Relevant
    <3>5. IsPrefix(<<>>, <<>>)
      BY DEF IsPrefix
    <3> QED BY <1>1, <1>5, <3>1, <3>4, <3>5 DEF SourcesOK
  <2> QED BY <2>1, <2>2
<1>7. (found \in [Searches -> Answers])'
  BY <1>1 DEF RetrievalInv
<1> QED BY <1>3, <1>4, <1>6, <1>7 DEF RetrievalInv

LEMMA RerankKeeps == RetrievalInv /\ Rerank => RetrievalInv'
<1> SUFFICES ASSUME RetrievalInv, Rerank PROVE RetrievalInv'
  OBVIOUS
<1>0. PICK scores \in [ToSet(candidates) -> RerankScores], room \in Rooms :
        /\ relevance' = [c \in Chunks |-> IF c \in DOMAIN scores THEN scores[c] ELSE 0]
        /\ ranked' = Gate(candidates, relevance')
        /\ included' = PromptSources(ranked', room)
  BY DEF Rerank
<1>1. PICK all : /\ all = [c \in Chunks |-> IF c \in DOMAIN scores THEN scores[c] ELSE 0]
                 /\ relevance' = all /\ ranked' = Gate(candidates, all)
                 /\ included' = PromptSources(ranked', room)
  BY <1>0
<1>2. stage' = "answered" /\ found' = NoRecords /\ UNCHANGED <<searched, candidates, reranker, tries>>
  BY DEF Rerank
<1>3. all \in [Chunks -> RerankScores \union {0}] /\ all \in [Chunks -> Nat]
  <2>1. RerankScores \subseteq Nat
    BY RetrievalAssumption
  <2> QED BY <1>1, <2>1
<1>4. /\ candidates \in Seq(Chunks)
      /\ \A i, j \in 1 .. Len(candidates) : candidates[i] = candidates[j] => i = j
  BY DEF RetrievalInv, RetrievalTypeOK, CandidatesOK
<1>5. Relevant(ranked', all, {c \in ToSet(candidates) : Passes(candidates, all, c)})
  BY <1>1, <1>3, <1>4, GatePasses
<1>6. ranked' \in Seq(Chunks)
  BY <1>5 DEF Relevant
<1>7. included' \in Seq(Chunks) /\ IsPrefix(included', ranked')
  BY <1>1, <1>6, PromptIsPrefix
<1>8. (found \in [Searches -> Answers])'
  BY <1>2, NothingIsAnAnswer
<1>9. (found \in [Searches -> Seq(Chunks \X SearchScores)])'
  BY <1>8, RecordsTyped
<1>10. RetrievalTypeOK'
  BY <1>1, <1>2, <1>3, <1>6, <1>7, <1>9 DEF RetrievalInv, RetrievalTypeOK
<1>11. CandidatesOK'
  BY <1>2 DEF RetrievalInv, CandidatesOK
<1>12. SourcesOK'
  BY <1>1, <1>2, <1>5, <1>7 DEF SourcesOK
<1> QED BY <1>8, <1>10, <1>11, <1>12 DEF RetrievalInv

LEMMA RerankFailsKeeps == RetrievalInv /\ RerankFails => RetrievalInv'
<1> SUFFICES ASSUME RetrievalInv, RerankFails PROVE RetrievalInv'
  OBVIOUS
<1> USE DEF RetrievalInv, RerankFails
<1>1. (found \in [Searches -> Answers])'
  BY NothingIsAnAnswer
<1>2. (found \in [Searches -> Seq(Chunks \X SearchScores)])'
  BY <1>1, RecordsTyped
<1>3. reranker' \in 1 .. Rerankers /\ tries' \in 0 .. RerankRetries
  <2>1. Rerankers \in Nat /\ RerankRetries \in Nat
    BY RetrievalAssumption
  <2>2. reranker \in 1 .. Rerankers /\ tries \in 0 .. RerankRetries
    BY DEF RetrievalTypeOK
  <2> QED BY <2>1, <2>2
<1>4. RetrievalTypeOK'
  BY <1>2, <1>3 DEF RetrievalTypeOK
<1>5. CandidatesOK'
  BY DEF CandidatesOK
<1>6. SourcesOK'
  BY DEF SourcesOK
<1> QED BY <1>1, <1>4, <1>5, <1>6

LEMMA RetrievalStep == RetrievalInv /\ [RetrievalNext]_retrievalVars => RetrievalInv'
<1> SUFFICES ASSUME RetrievalInv, [RetrievalNext]_retrievalVars PROVE RetrievalInv'
  OBVIOUS
<1>1. CASE StartSearch
  BY <1>1, StartSearchKeeps
<1>2. CASE Candidates
  BY <1>2, CandidatesKeep
<1>3. CASE Rerank
  BY <1>3, RerankKeeps
<1>4. CASE RerankFails
  BY <1>4, RerankFailsKeeps
<1>5. CASE \E s \in Searches : Search(s) \/ SearchFails(s)
  BY <1>5, SearchKeeps
<1>6. CASE UNCHANGED retrievalVars
  BY <1>6 DEF RetrievalInv, RetrievalTypeOK, CandidatesOK, SourcesOK, retrievalVars
<1> QED BY <1>1, <1>2, <1>3, <1>4, <1>5, <1>6 DEF RetrievalNext

LEMMA RetrievalSafe == RetrievalSpec => []RetrievalInv
BY RetrievalStarts, RetrievalStep, PTL DEF RetrievalSpec

\* Every reachable state of a question's retrieval has its type; the candidates are
\* never more than the reranker accepts.
THEOREM RetrievalTyped == RetrievalSpec => []RetrievalTypeOK
<1>1. RetrievalInv => RetrievalTypeOK
  BY DEF RetrievalInv
<1> QED BY <1>1, RetrievalSafe, PTL

\* For every number of chunks, every weight, limit and answer of the stores: what one
\* search puts before a candidate and no search behind it is sent to the reranker
\* too, and before it (configured_retrieval_candidates).
THEOREM Fusion == RetrievalSpec => []FusionOrder
<1>1. RetrievalInv => FusionOrder
  <2> SUFFICES ASSUME RetrievalInv, stage = "reranking", found # NoRecords
               PROVE  /\ IsInjective(candidates)
                      /\ \A c \in Chunks, d \in ToSet(candidates) :
                           LET ahead == {s \in Searches : Place(found[s], c) < Place(found[s], d)}
                               level == {s \in Searches : Place(found[s], c) = Place(found[s], d)}
                           IN  ahead # {} /\ ahead \union level = Searches =>
                                 /\ c \in ToSet(candidates)
                                 /\ RankIn(candidates, c) < RankIn(candidates, d)
    BY DEF FusionOrder
  <2>1. /\ found \in [Searches -> Answers]
        /\ candidates = Fuse(Top(found["dense"]), Top(found["keyword"]))
        /\ candidates \in Seq(Chunks)
        /\ \A i, j \in 1 .. Len(candidates) : candidates[i] = candidates[j] => i = j
    BY DEF RetrievalInv, CandidatesOK, RetrievalTypeOK
  <2>2. IsInjective(candidates)
    <3>1. DOMAIN candidates = 1 .. Len(candidates)
      BY <2>1, LenProperties
    <3> QED BY <2>1, <3>1 DEF IsInjective
  <2>3. \A c, d : /\ d \in ToSet(candidates)
                  /\ \A s \in Searches : \/ Place(found[s], c) < Place(found[s], d)
                                         \/ Place(found[s], c) = Place(found[s], d)
                  /\ \E s \in Searches : Place(found[s], c) < Place(found[s], d)
                  => c \in ToSet(candidates) /\ RankIn(candidates, c) < RankIn(candidates, d)
    BY <2>1, FusionAgrees
  <2>4. ASSUME NEW c \in Chunks, NEW d \in ToSet(candidates),
               {s \in Searches : Place(found[s], c) < Place(found[s], d)} # {},
               {s \in Searches : Place(found[s], c) < Place(found[s], d)}
                 \union {s \in Searches : Place(found[s], c) = Place(found[s], d)} = Searches
        PROVE  c \in ToSet(candidates) /\ RankIn(candidates, c) < RankIn(candidates, d)
    <3>1. \E s \in Searches : Place(found[s], c) < Place(found[s], d)
      BY <2>4
    <3>2. \A s \in Searches : \/ Place(found[s], c) < Place(found[s], d)
                              \/ Place(found[s], c) = Place(found[s], d)
      BY <2>4
    <3> QED BY <2>3, <3>1, <3>2
  <2> QED BY <2>2, <2>4
<1> QED BY <1>1, RetrievalSafe, PTL

\* The sources are the most relevant candidates that pass both thresholds, as many as
\* there are up to the limit, and the prompt has the first of them
\* (apply_reranker_scores, build_messages).
THEOREM Sourced == RetrievalSpec => []SourcesRelevant
<1>1. RetrievalInv => SourcesRelevant
  <2> SUFFICES ASSUME RetrievalInv, stage = "answered" PROVE SourcesRelevant
    BY DEF SourcesRelevant
  <2> DEFINE passing == {c \in ToSet(candidates) : Passes(candidates, relevance, c)}
  <2>1. Relevant(ranked, relevance, passing) /\ IsPrefix(included, ranked)
    BY DEF RetrievalInv, SourcesOK
  <2> HIDE DEF passing
  <2>2. DOMAIN ranked = 1 .. Len(ranked) /\ ranked \in Seq(Chunks) /\ Len(ranked) \in Nat
    <3>1. ranked \in Seq(Chunks)
      BY <2>1 DEF Relevant
    <3> QED BY <3>1, LenProperties
  <2>3. IsInjective(ranked)
    BY <2>1, <2>2 DEF Relevant, IsInjective
  <2>4. ToSet(ranked) \subseteq passing
    <3>1. \A i \in 1 .. Len(ranked) : ranked[i] \in passing
      BY <2>1 DEF Relevant
    <3> QED BY <2>2, <3>1 DEF ToSet
  <2>5. ASSUME NEW i \in DOMAIN ranked, NEW c \in passing, relevance[c] > relevance[ranked[i]]
        PROVE  c \in ToSet(Prefix(ranked, i - 1))
    <3>1. i \in 1 .. Len(ranked)
      BY <2>2
    <3>2. PICK j \in 1 .. Len(ranked) : j < i /\ ranked[j] = c
      BY <2>1, <2>5, <3>1 DEF Relevant
    <3>3. i - 1 \in Nat /\ i - 1 < Len(ranked) /\ j \in 1 .. i - 1
      BY <2>2, <3>1, <3>2
    <3>4. PICK q : q = Prefix(ranked, i - 1)
      OBVIOUS
    <3>5. q \in Seq(Chunks) /\ Len(q) = i - 1 /\ \A k \in 1 .. Len(q) : q[k] = ranked[k]
      BY <2>2, <3>3, <3>4, PrefixElements
    <3>6. j \in DOMAIN q /\ q[j] = c
      BY <3>2, <3>3, <3>5, LenProperties
    <3> QED BY <3>4, <3>6 DEF ToSet
  <2>6. Len(ranked) = Min({FinalLimit, Cardinality(passing)})
    BY <2>1 DEF Relevant
  <2> QED BY <2>1, <2>3, <2>4, <2>5, <2>6 DEF SourcesRelevant, passing
<1> QED BY <1>1, RetrievalSafe, PTL

-----------------------------------------------------------------------------
(* Repository access                                                         *)

\* A row of oauth_flows changes its state and nothing else.
Later(f, g) ==
  /\ Len(f) <= Len(g)
  /\ \A n \in 1 .. Len(f) : /\ g[n].purpose = f[n].purpose /\ g[n].user = f[n].user
                            /\ g[n].installation = f[n].installation

\* An installation is verified for somebody and of something.
RowsOK(f) ==
  \A n \in 1 .. Len(f) : f[n].purpose = "install_verify" =>
                           f[n].user \in Accounts /\ f[n].installation \in Installations

AtRepository == {"seen", "evicting", "evicted"}

\* What a request w knows: its flow in the rows f, its account, a list that GitHub has
\* disclosed, and the repository at hand.
KnownOK(w, f, s) ==
  /\ w.step = "idle" => w = Idle
  /\ w.step # "idle" => w.flow \in 1 .. Len(f)
  /\ w.step \in {"identified", "listed"} \union SyncSteps => w.account \in Accounts
  /\ w.step # "idle" /\ w.route = "setup" => w.account \in Accounts
  /\ w.step = "identified" /\ f[w.flow].purpose = "install_verify" => w.account = f[w.flow].user
  /\ w.step \in {"listed"} \union SyncSteps =>
       f[w.flow].purpose = "install_verify" /\ w.account = f[w.flow].user
  /\ \A r \in w.listing : <<w.account, r>> \in s
  /\ w.todo \subseteq w.listing /\ w.moved \subseteq w.listing /\ w.gained \subseteq w.listing
  /\ w.step \in AtRepository => w.repo \in w.todo
  /\ w.step \notin {"listed"} \union SyncSteps => w.listing = {}
  /\ w.step \notin SyncSteps => w.moved = {} /\ w.gained = {} /\ w.lost = {} /\ ~w.overtaken

\* A repository that somebody may use is stored.
StoredOK(w, l) ==
  /\ \A r \in w.gained : r \in w.moved \/ l[r] # Nowhere
  /\ w.step \in AtRepository /\ w.seen # Nowhere => l[w.repo] # Nowhere
  /\ w.step \in {"evicting", "evicted"} => w.seen # Nowhere

\* A sync for user a and installation i that nobody has overtaken, with the locations l
\* and the access rows c: what is behind it is in the installation and the user's, and
\* whoever else could use a repository it moves is to lose it.
CleanOK(w, a, i, l, c) ==
  LET rows(r) == {p \in c : p[2] = r}
      seen(p) == (p \in c /\ p \notin w.lost) \/ (p[1] = a /\ p[2] \in w.gained)
      at(r) == IF r \in w.moved THEN i ELSE l[r]
  IN
  /\ w.step \in AtRepository => w.seen = l[w.repo]
  /\ w.step \in {"evicting", "evicted"} => w.seen # i
  /\ w.step = "evicting" => w.evict = rows(w.repo)
  /\ w.step = "evicted" => rows(w.repo) \subseteq w.lost
  /\ \A r \in w.listing \ w.todo : at(r) = i /\ seen(<<a, r>>)
  /\ w.todo \intersect w.moved = {} /\ w.todo \intersect w.gained = {}
  /\ \A r \in w.moved : l[r] # i /\ rows(r) \subseteq w.lost
  /\ \A p \in w.lost : p[2] \in w.moved \/ (w.step = "evicted" /\ p[2] = w.repo)
  /\ w.step = "leaving" =>
       /\ w.todo = {}
       /\ w.leaving = {r \in Repositories \ w.listing : seen(<<a, r>>) /\ at(r) = i}

Clean(w, f, l, c) ==
  w.step \in SyncSteps /\ ~w.overtaken =>
    CleanOK(w, f[w.flow].user, f[w.flow].installation, l, c)

RequestOK(w, f, s, l, c) == KnownOK(w, f, s) /\ StoredOK(w, l) /\ Clean(w, f, l, c)

\* The inductive invariant.
AccessInv ==
  /\ AccessTypeOK /\ RowsOK(flows)
  /\ VerifiedMembers /\ AccessShown /\ AccessInside
  /\ \A p \in access : location[p[2]] # Nowhere
  /\ \A q \in Requests : RequestOK(work[q], flows, disclosed, location, access)

-----------------------------------------------------------------------------
(* Steps that leave other requests alone                                     *)

LEMMA NamesApart ==
  /\ Nobody \notin Accounts /\ Nowhere \notin Installations
  /\ Idle \in [route: {"callback"}, step: {"idle"}, flow: {0}, account: {Nobody},
               listing: {{}}, todo: {{}}, repo: {Nowhere}, seen: {Nowhere}, evict: {{}},
               moved: {{}}, gained: {{}}, lost: {{}}, leaving: {{}}, overtaken: {FALSE}]
BY AccessAssumption DEF Idle

LEMMA IdleIsWork == Idle \in Work
BY AccessAssumption DEF Idle, Work

\* A request that is at rest, or one whose flow has not changed, stays as it should be.
LEMMA StaysOK ==
  ASSUME NEW w \in Work, NEW f \in Seq(Flow), NEW g \in Seq(Flow), NEW s, NEW t, NEW l, NEW c,
         RequestOK(w, f, s, l, c), Later(f, g), s \subseteq t
  PROVE  RequestOK(w, g, t, l, c)
<1>1. KnownOK(w, f, s) /\ StoredOK(w, l) /\ Clean(w, f, l, c)
  BY DEF RequestOK
<1>2. w.step # "idle" => w.flow \in 1 .. Len(g) /\ g[w.flow].purpose = f[w.flow].purpose
                         /\ g[w.flow].user = f[w.flow].user
                         /\ g[w.flow].installation = f[w.flow].installation
  BY <1>1 DEF KnownOK, Later
<1>3. KnownOK(w, g, t)
  BY <1>1, <1>2 DEF KnownOK, SyncSteps
<1>4. Clean(w, g, l, c)
  BY <1>1, <1>2 DEF Clean, SyncSteps
<1> QED BY <1>1, <1>3, <1>4 DEF RequestOK

LEMMA SameIsLater == ASSUME NEW f \in Seq(Flow) PROVE Later(f, f)
BY DEF Later

\* Any step that changes no location and no access, and at most request q.
LEMMA OthersOK ==
  ASSUME AccessInv, NEW q \in Requests, NEW w \in Work, work' = [work EXCEPT ![q] = w],
         flows' \in Seq(Flow), Later(flows, flows'), disclosed \subseteq disclosed',
         location' = location, access' = access,
         RequestOK(w, flows', disclosed', location, access)
  PROVE  \A p \in Requests : RequestOK(work[p], flows, disclosed, location, access)'
<1> SUFFICES ASSUME NEW p \in Requests
             PROVE  RequestOK(work'[p], flows', disclosed', location', access')
  OBVIOUS
<1>1. work \in [Requests -> Work] /\ flows \in Seq(Flow)
      /\ RequestOK(work[p], flows, disclosed, location, access)
  BY DEF AccessInv, AccessTypeOK
<1>2. CASE p = q
  BY <1>1, <1>2
<1>3. CASE p # q
  <2>1. work'[p] = work[p] /\ work[p] \in Work
    BY <1>1, <1>3
  <2>2. RequestOK(work[p], flows', disclosed', location, access)
    BY <1>1, <2>1, StaysOK
  <2> QED BY <2>1, <2>2
<1> QED BY <1>2, <1>3

\* A step that changes nothing but what request q has read or written.
LEMMA Stepping ==
  ASSUME AccessInv, NEW q \in Requests, NEW w \in Work, work' = [work EXCEPT ![q] = w],
         RequestOK(w, flows, disclosed, location, access),
         UNCHANGED <<home, sees, changes, disclosed, flows, users, sessions, members, location,
                     access, contested>>
  PROVE  AccessInv'
<1>1. AccessTypeOK'
  BY DEF AccessInv, AccessTypeOK
<1>2. flows \in Seq(Flow) /\ Later(flows, flows')
  BY SameIsLater DEF AccessInv, AccessTypeOK
<1>3. \A p \in Requests : RequestOK(work[p], flows, disclosed, location, access)'
  BY <1>2, OthersOK
<1>4. RowsOK(flows)' /\ VerifiedMembers' /\ AccessShown' /\ AccessInside'
      /\ (\A p \in access : location[p[2]] # Nowhere)'
  BY DEF AccessInv, RowsOK, VerifiedMembers, AccessShown, AccessInside, Readable
<1> QED BY <1>1, <1>3, <1>4 DEF AccessInv

\* A step that changes nothing but the flows, and no request.
LEMMA Flowing ==
  ASSUME AccessInv, flows' \in Seq(Flow), Len(flows') <= MaxFlows, Later(flows, flows'),
         RowsOK(flows'), UNCHANGED <<home, sees, changes, disclosed, members, location, access,
                                     contested, work>>,
         users' \subseteq Accounts, sessions' \in [Accounts -> Nat], VerifiedMembers'
  PROVE  AccessInv'
<1>1. AccessTypeOK'
  BY DEF AccessInv, AccessTypeOK
<1>2. \A p \in Requests : RequestOK(work[p], flows, disclosed, location, access)'
  <2> SUFFICES ASSUME NEW p \in Requests
               PROVE  RequestOK(work[p], flows', disclosed, location, access)
    OBVIOUS
  <2>1. work[p] \in Work /\ flows \in Seq(Flow)
        /\ RequestOK(work[p], flows, disclosed, location, access)
    BY DEF AccessInv, AccessTypeOK
  <2> QED BY <2>1, StaysOK
<1>3. AccessShown' /\ AccessInside' /\ (\A p \in access : location[p[2]] # Nowhere)'
  BY DEF AccessInv, AccessShown, AccessInside, Readable
<1> QED BY <1>1, <1>2, <1>3 DEF AccessInv

-----------------------------------------------------------------------------
(* Steps that change the flows                                               *)

Verified(f, a, i) ==
  \E n \in 1 .. Len(f) : f[n].purpose = "install_verify" /\ f[n].state = "gone"
                         /\ f[n].user = a /\ f[n].installation = i

LEMMA MembersVerified ==
  VerifiedMembers <=> \A a \in Accounts, i \in Installations :
                        <<a, i>> \in members <=> Verified(flows, a, i)
BY DEF VerifiedMembers, Verified

LEMMA RowIsFlow ==
  ASSUME NEW purpose \in {"login", "install_start", "install_verify"},
         NEW a \in Accounts \union {Nobody}, NEW i \in Installations \union {Nowhere}
  PROVE  Row(purpose, a, i) \in Flow /\ Row(purpose, a, i).state = "usable"
         /\ Row(purpose, a, i).purpose = purpose
         /\ Row(purpose, a, i).user = a /\ Row(purpose, a, i).installation = i
BY DEF Row, Flow

\* A new row verifies nothing yet.
LEMMA Appended ==
  ASSUME NEW f \in Seq(Flow), NEW row \in Flow, row.state = "usable", RowsOK(f),
         row.purpose = "install_verify" => row.user \in Accounts /\ row.installation \in Installations
  PROVE  /\ Append(f, row) \in Seq(Flow) /\ Len(Append(f, row)) = Len(f) + 1
         /\ Later(f, Append(f, row)) /\ RowsOK(Append(f, row))
         /\ \A a, i : Verified(f, a, i) <=> Verified(Append(f, row), a, i)
<1>1. /\ Append(f, row) \in Seq(Flow) /\ Len(Append(f, row)) = Len(f) + 1
      /\ \A n \in 1 .. Len(f) : Append(f, row)[n] = f[n]
      /\ Append(f, row)[Len(f) + 1] = row /\ Len(f) \in Nat
  OBVIOUS
<1>2. PICK g : g = Append(f, row)
  OBVIOUS
<1>3. \A n \in 1 .. Len(g) : n \in 1 .. Len(f) \/ n = Len(f) + 1
  BY <1>1, <1>2
<1>4. \A n \in 1 .. Len(f) : n \in 1 .. Len(g)
  BY <1>1, <1>2
<1>5. Later(f, g)
  BY <1>1, <1>2 DEF Later
<1>6. RowsOK(g)
  BY <1>1, <1>2, <1>3 DEF RowsOK
<1>7. \A a, i : Verified(f, a, i) <=> Verified(g, a, i)
  BY <1>1, <1>2, <1>3, <1>4 DEF Verified
<1> QED BY <1>1, <1>2, <1>5, <1>6, <1>7

Marked(f, n, state) == [f EXCEPT ![n].state = state]

Restates(f, n, state, g) ==
  /\ g \in Seq(Flow) /\ Len(g) = Len(f) /\ Later(f, g) /\ RowsOK(g)
  /\ \A m \in 1 .. Len(f) : m # n => g[m] = f[m]
  /\ g[n].state = state

\* A row that changes its state changes nothing else.
LEMMA Restated ==
  ASSUME NEW f \in Seq(Flow), NEW n \in 1 .. Len(f), NEW state \in {"usable", "expired", "gone"},
         NEW g, g = Marked(f, n, state), RowsOK(f)
  PROVE  Restates(f, n, state, g)
<1>1. f \in [1 .. Len(f) -> Flow] /\ Len(f) \in Nat /\ f[n] \in Flow
  OBVIOUS
<1>2. [f[n] EXCEPT !.state = state] \in Flow
  BY <1>1 DEF Flow
<1> USE DEF Marked
<1>3. g \in [1 .. Len(f) -> Flow]
  BY <1>1, <1>2
<1>4. g \in Seq(Flow) /\ Len(g) = Len(f)
  BY <1>1, <1>3
<1>5. \A m \in 1 .. Len(f) : m # n => g[m] = f[m]
  BY <1>1
<1>6. g[n] = [f[n] EXCEPT !.state = state]
  BY <1>1
<1>7. /\ g[n].purpose = f[n].purpose /\ g[n].user = f[n].user
      /\ g[n].installation = f[n].installation /\ g[n].state = state
  BY <1>1, <1>6 DEF Flow
<1>8. \A m \in 1 .. Len(f) : /\ g[m].purpose = f[m].purpose /\ g[m].user = f[m].user
                             /\ g[m].installation = f[m].installation
  BY <1>5, <1>7
<1>9. Later(f, g) /\ RowsOK(g)
  BY <1>1, <1>4, <1>8 DEF Later, RowsOK
<1> QED BY <1>4, <1>5, <1>7, <1>9 DEF Restates

\* What verifies nothing by becoming gone or not.
LEMMA NothingVerified ==
  ASSUME NEW f \in Seq(Flow), NEW n \in 1 .. Len(f), NEW state \in {"usable", "expired", "gone"},
         NEW g, g = Marked(f, n, state), RowsOK(f),
         f[n].purpose # "install_verify" \/ (f[n].state # "gone" /\ state # "gone")
  PROVE  \A a, i : Verified(f, a, i) <=> Verified(g, a, i)
<1>1. /\ g \in Seq(Flow) /\ Len(g) = Len(f) /\ Later(f, g) /\ RowsOK(g)
      /\ \A m \in 1 .. Len(f) : m # n => g[m] = f[m]
      /\ g[n].state = state
  <2>1. Restates(f, n, state, g)
    BY Restated
  <2> QED BY <2>1 DEF Restates
<1>2. g[n].purpose = f[n].purpose
  BY <1>1 DEF Later
<1>3. \A m \in 1 .. Len(f) :
        \/ g[m] = f[m]
        \/ /\ ~(f[m].purpose = "install_verify" /\ f[m].state = "gone")
           /\ ~(g[m].purpose = "install_verify" /\ g[m].state = "gone")
  BY <1>1, <1>2
<1> QED BY <1>1, <1>3 DEF Verified

LEMMA MembersKept ==
  ASSUME VerifiedMembers, UNCHANGED members,
         \A a, i : Verified(flows, a, i) <=> Verified(flows', a, i)
  PROVE  VerifiedMembers'
<1> SUFFICES ASSUME NEW a \in Accounts, NEW i \in Installations
             PROVE  (<<a, i>> \in members <=> Verified(flows, a, i))'
  BY DEF VerifiedMembers, Verified
<1>1. <<a, i>> \in members <=> Verified(flows, a, i)
  BY MembersVerified
<1> QED BY <1>1

LEMMA StartingKeeps ==
  ASSUME AccessInv, Len(flows) < MaxFlows, NEW row \in Flow, row.state = "usable",
         row.purpose # "install_verify", flows' = Append(flows, row),
         UNCHANGED <<home, sees, changes, disclosed, users, sessions, members, location, access,
                     contested, work>>
  PROVE  AccessInv'
<1>1. flows \in Seq(Flow) /\ RowsOK(flows) /\ MaxFlows \in Nat /\ Len(flows) \in Nat
  BY AccessAssumption DEF AccessInv, AccessTypeOK
<1>2. /\ flows' \in Seq(Flow) /\ Len(flows') = Len(flows) + 1
      /\ Later(flows, flows') /\ RowsOK(flows')
      /\ \A a, i : Verified(flows, a, i) <=> Verified(flows', a, i)
  BY <1>1, Appended
<1>3. VerifiedMembers'
  BY <1>2, MembersKept DEF AccessInv
<1>4. users' \subseteq Accounts /\ sessions' \in [Accounts -> Nat] /\ Len(flows') <= MaxFlows
  BY <1>1, <1>2 DEF AccessInv, AccessTypeOK
<1> QED BY <1>2, <1>3, <1>4, Flowing

LEMMA TimeKeeps ==
  ASSUME AccessInv,
         \/ GitHubChanges \/ StartLogin \/ (\E f \in 1 .. Len(flows) : FlowExpires(f))
         \/ \E a \in Accounts : SessionEnds(a) \/ StartInstall(a)
  PROVE  AccessInv'
<1>1. CASE GitHubChanges
  <2>1. home' \in [Repositories -> Installations] /\ sees' \subseteq Accounts \X Repositories
        /\ changes' \in 0 .. MaxChanges
    <3>1. /\ home \in [Repositories -> Installations] /\ sees \subseteq Accounts \X Repositories
          /\ changes \in 0 .. MaxChanges /\ MaxChanges \in Nat
          /\ changes < MaxChanges /\ changes' = changes + 1
      BY <1>1, AccessAssumption DEF GitHubChanges, AccessInv, AccessTypeOK
    <3>2. ASSUME NEW r \in Repositories, NEW i \in Installations,
                 home' = [home EXCEPT ![r] = i] /\ UNCHANGED sees
          PROVE  home' \in [Repositories -> Installations] /\ sees' \subseteq Accounts \X Repositories
      BY <3>1, <3>2
    <3>3. ASSUME NEW r \in Repositories, NEW a \in Accounts,
                 sees' = IF <<a, r>> \in sees THEN sees \ {<<a, r>>} ELSE sees \union {<<a, r>>},
                 UNCHANGED home
          PROVE  home' \in [Repositories -> Installations] /\ sees' \subseteq Accounts \X Repositories
      BY <3>1, <3>3
    <3>4. home' \in [Repositories -> Installations] /\ sees' \subseteq Accounts \X Repositories
      BY <1>1, <3>2, <3>3 DEF GitHubChanges
    <3>5. changes' \in 0 .. MaxChanges
      BY <3>1
    <3> QED BY <3>4, <3>5
  <2>2. AccessTypeOK'
    BY <1>1, <2>1 DEF GitHubChanges, AccessInv, AccessTypeOK
  <2> QED BY <1>1, <2>2 DEF GitHubChanges, AccessInv, RowsOK, VerifiedMembers, AccessShown,
             AccessInside, Readable
<1>2. CASE StartLogin
  <2>1. Row("login", Nobody, Nowhere) \in Flow /\ Row("login", Nobody, Nowhere).state = "usable"
        /\ Row("login", Nobody, Nowhere).purpose = "login"
    BY RowIsFlow
  <2> QED BY <1>2, <2>1, StartingKeeps DEF StartLogin
<1>3. ASSUME NEW f \in 1 .. Len(flows), FlowExpires(f) PROVE AccessInv'
  <2>1. flows \in Seq(Flow) /\ RowsOK(flows) /\ flows' = Marked(flows, f, "expired")
        /\ flows[f].state # "gone"
    BY <1>3 DEF Marked, FlowExpires, AccessInv, AccessTypeOK
  <2>2. /\ flows' \in Seq(Flow) /\ Len(flows') = Len(flows)
        /\ Later(flows, flows') /\ RowsOK(flows')
    BY <2>1, Restated DEF Restates
  <2>3. \A a, i : Verified(flows, a, i) <=> Verified(flows', a, i)
    BY <2>1, NothingVerified
  <2>4. VerifiedMembers'
    BY <1>3, <2>3, MembersKept DEF AccessInv, FlowExpires
  <2>5. users' \subseteq Accounts /\ sessions' \in [Accounts -> Nat] /\ Len(flows') <= MaxFlows
    BY <1>3, <2>2 DEF AccessInv, AccessTypeOK, FlowExpires
  <2> QED BY <1>3, <2>2, <2>4, <2>5, Flowing DEF FlowExpires
<1>4. ASSUME NEW a \in Accounts, SessionEnds(a) PROVE AccessInv'
  <2>1. sessions' \in [Accounts -> Nat]
    BY <1>4 DEF SessionEnds, Current, AccessInv, AccessTypeOK
  <2>2. AccessTypeOK'
    BY <1>4, <2>1 DEF SessionEnds, AccessInv, AccessTypeOK
  <2> QED BY <1>4, <2>2 DEF SessionEnds, AccessInv, RowsOK, VerifiedMembers, AccessShown,
             AccessInside, Readable
<1>5. ASSUME NEW a \in Accounts, StartInstall(a) PROVE AccessInv'
  <2>1. Row("install_start", a, Nowhere) \in Flow
        /\ Row("install_start", a, Nowhere).state = "usable"
        /\ Row("install_start", a, Nowhere).purpose = "install_start"
    BY RowIsFlow
  <2> QED BY <1>5, <2>1, StartingKeeps DEF StartInstall
<1> QED BY <1>1, <1>2, <1>3, <1>4, <1>5

\* The consumed flow, of a request that has one.
LEMMA ConsumedRows ==
  ASSUME AccessInv, NEW q \in Requests, work[q].step # "idle"
  PROVE  /\ work[q].flow \in 1 .. Len(flows) /\ flows \in Seq(Flow)
         /\ Consumed(q) \in Seq(Flow) /\ Len(Consumed(q)) = Len(flows)
         /\ Later(flows, Consumed(q)) /\ RowsOK(Consumed(q))
         /\ Held(q).purpose # "install_verify" =>
              \A a, i : Verified(flows, a, i) <=> Verified(Consumed(q), a, i)
<1>1. flows \in Seq(Flow) /\ RowsOK(flows) /\ work[q].flow \in 1 .. Len(flows)
  BY DEF AccessInv, AccessTypeOK, RequestOK, KnownOK
<1>2. PICK g : g = Marked(flows, work[q].flow, "gone")
  OBVIOUS
<1>3. Restates(flows, work[q].flow, "gone", g)
  BY <1>1, <1>2, Restated
<1>4. g \in Seq(Flow) /\ Len(g) = Len(flows) /\ Later(flows, g) /\ RowsOK(g)
  BY <1>1, <1>3 DEF Restates
<1>5. flows[work[q].flow].purpose # "install_verify" =>
        \A a, i : Verified(flows, a, i) <=> Verified(g, a, i)
  BY <1>1, <1>2, NothingVerified
<1> QED BY <1>1, <1>2, <1>4, <1>5 DEF Consumed, Held, Marked

LEMMA IdleOK ==
  ASSUME NEW f, NEW s, NEW l, NEW c PROVE RequestOK(Idle, f, s, l, c)
BY DEF RequestOK, KnownOK, StoredOK, Clean, Idle, SyncSteps, AtRepository

-----------------------------------------------------------------------------
(* Steps of a request up to its sync                                         *)

LEMMA RequestFacts ==
  ASSUME AccessInv, NEW q \in Requests
  PROVE  /\ work \in [Requests -> Work] /\ work[q] \in Work
         /\ RequestOK(work[q], flows, disclosed, location, access)
         /\ KnownOK(work[q], flows, disclosed)
         /\ work[q].step \in {"listed"} \union SyncSteps =>
              User(q) \in Accounts /\ Target(q) \in Installations /\ work[q].account = User(q)
<1>1. /\ work \in [Requests -> Work] /\ work[q] \in Work /\ RowsOK(flows)
      /\ RequestOK(work[q], flows, disclosed, location, access)
  BY DEF AccessInv, AccessTypeOK
<1>2. KnownOK(work[q], flows, disclosed)
  BY <1>1 DEF RequestOK
<1>3. ASSUME work[q].step \in {"listed"} \union SyncSteps
      PROVE  User(q) \in Accounts /\ Target(q) \in Installations /\ work[q].account = User(q)
  <2>1. work[q].step # "idle"
    BY <1>3 DEF SyncSteps
  <2>2. /\ work[q].flow \in 1 .. Len(flows) /\ flows[work[q].flow].purpose = "install_verify"
        /\ work[q].account = flows[work[q].flow].user
    BY <1>2, <1>3, <2>1 DEF KnownOK
  <2> QED BY <1>1, <2>2 DEF RowsOK, User, Target, Held
<1> QED BY <1>1, <1>2, <1>3

\* A request that has written nothing and looks at no repository.
LEMMA BeforeSync ==
  ASSUME NEW w, NEW f, NEW s, NEW l, NEW c, KnownOK(w, f, s),
         w.step \notin SyncSteps
  PROVE  RequestOK(w, f, s, l, c)
BY DEF RequestOK, StoredOK, Clean, KnownOK, SyncSteps, AtRepository

LEMMA FindFlowKeeps ==
  ASSUME AccessInv, NEW q \in Requests, NEW f \in 1 .. Len(flows), FindFlow(q, f)
  PROVE  AccessInv'
<1>1. f \in 0 .. MaxFlows
  BY AccessAssumption DEF AccessInv, AccessTypeOK
<1> DEFINE v == [Idle EXCEPT !.step = "found", !.flow = f]
           u(a) == [Idle EXCEPT !.route = "setup", !.step = "found", !.flow = f, !.account = a]
<1>2. v \in Work /\ RequestOK(v, flows, disclosed, location, access)
  <2>1. v \in Work
    BY <1>1, IdleIsWork DEF Work
  <2>2. KnownOK(v, flows, disclosed) /\ v.step = "found"
    BY DEF KnownOK, Idle, SyncSteps, AtRepository
  <2>3. v.step \notin SyncSteps
    BY <2>2 DEF SyncSteps
  <2> HIDE DEF v
  <2> QED BY <2>1, <2>2, <2>3, BeforeSync
<1>3. ASSUME NEW a \in Accounts PROVE u(a) \in Work /\ RequestOK(u(a), flows, disclosed, location, access)
  <2>1. u(a) \in Work
    BY <1>1, IdleIsWork DEF Work
  <2>2. KnownOK(u(a), flows, disclosed) /\ u(a).step = "found"
    BY DEF KnownOK, Idle, SyncSteps, AtRepository
  <2>3. u(a).step \notin SyncSteps
    BY <2>2 DEF SyncSteps
  <2> HIDE DEF u
  <2> QED BY <2>1, <2>2, <2>3, BeforeSync
<1>4. \/ work' = [work EXCEPT ![q] = v]
      \/ \E a \in Accounts : work' = [work EXCEPT ![q] = u(a)]
  BY DEF FindFlow, GoesOn
<1> HIDE DEF v, u
<1> QED BY <1>2, <1>3, <1>4, Stepping DEF FindFlow, GoesOn

LEMMA TakeFlowKeeps ==
  ASSUME AccessInv, NEW q \in Requests, TakeFlow(q)
  PROVE  AccessInv'
<1> DEFINE w == work[q]
           v == [w EXCEPT !.step = "taken"]
<1>1. w \in Work /\ w.step = "found" /\ KnownOK(w, flows, disclosed) /\ work \in [Requests -> Work]
  BY RequestFacts DEF TakeFlow, GoesOn
<1>2. v \in Work /\ v.step = "taken"
  BY <1>1 DEF Work
<1>3. KnownOK(v, flows, disclosed)
  BY <1>1 DEF KnownOK, SyncSteps, AtRepository, Work
<1>4. work' = [work EXCEPT ![q] = v]
  BY <1>1 DEF TakeFlow, GoesOn
<1>5. v.step \notin SyncSteps
  BY <1>2 DEF SyncSteps
<1> HIDE DEF v
<1>6. RequestOK(v, flows, disclosed, location, access)
  BY <1>3, <1>5, BeforeSync
<1> QED BY <1>2, <1>4, <1>6, Stepping DEF TakeFlow, GoesOn

LEMMA IdentifyKeeps ==
  ASSUME AccessInv, NEW q \in Requests, NEW a \in Accounts, Identify(q, a)
  PROVE  AccessInv'
<1> DEFINE w == work[q]
           v == [w EXCEPT !.step = "identified", !.account = a]
<1>1. w \in Work /\ w.step = "taken" /\ KnownOK(w, flows, disclosed) /\ work \in [Requests -> Work]
  BY RequestFacts DEF Identify, GoesOn
<1>2. v \in Work /\ v.step = "identified" /\ v.account = a /\ v.flow = w.flow
  BY <1>1 DEF Work
<1>3. flows[w.flow].purpose = "install_verify" => a = flows[w.flow].user
  BY DEF Identify, User, Held, GoesOn
<1>4. w.listing = {}
  BY <1>1 DEF KnownOK, SyncSteps
<1>5. KnownOK(v, flows, disclosed)
  BY <1>1, <1>2, <1>3, <1>4 DEF KnownOK, SyncSteps, AtRepository, Work
<1>6. work' = [work EXCEPT ![q] = v]
  BY <1>1 DEF Identify, GoesOn
<1>7. v.step \notin SyncSteps
  BY <1>2 DEF SyncSteps
<1> HIDE DEF v
<1>8. RequestOK(v, flows, disclosed, location, access)
  BY <1>5, <1>7, BeforeSync
<1> QED BY <1>2, <1>6, <1>8, Stepping DEF Identify, GoesOn

LEMMA FailsKeeps ==
  ASSUME AccessInv, NEW q \in Requests, RequestFails(q)
  PROVE  AccessInv'
BY IdleIsWork, IdleOK, Stepping DEF RequestFails, Finished, GoesOn

LEMMA SetupKeeps ==
  ASSUME AccessInv, NEW q \in Requests, NEW i \in Installations, Setup(q, i)
  PROVE  AccessInv'
<1> DEFINE g == Consumed(q)
           row == Row("install_verify", User(q), i)
<1>1. work[q] \in Work /\ work[q].step = "taken" /\ work \in [Requests -> Work]
      /\ KnownOK(work[q], flows, disclosed)
  BY RequestFacts DEF Setup
<1>2. Held(q).purpose = "install_start" /\ User(q) = work[q].account
  BY DEF Setup
<1>3. /\ flows \in Seq(Flow) /\ g \in Seq(Flow) /\ Len(g) = Len(flows) /\ Later(flows, g) /\ RowsOK(g)
      /\ \A a, j : Verified(flows, a, j) <=> Verified(g, a, j)
  BY <1>1, <1>2, ConsumedRows
<1>4. User(q) \in Accounts
  BY <1>1, <1>2 DEF Setup, KnownOK
<1>5. row \in Flow /\ row.state = "usable" /\ row.user = User(q) /\ row.installation = i
  BY <1>4, RowIsFlow
<1>6. flows' = Append(g, row) /\ Len(flows) < MaxFlows
  BY DEF Setup
<1> HIDE DEF g, row
<1>7. /\ flows' \in Seq(Flow) /\ Len(flows') = Len(g) + 1 /\ Later(g, flows') /\ RowsOK(flows')
      /\ \A a, j : Verified(g, a, j) <=> Verified(flows', a, j)
  BY <1>3, <1>4, <1>5, <1>6, Appended
<1>8. Later(flows, flows')
  BY <1>3, <1>7 DEF Later
<1>9. VerifiedMembers'
  BY <1>3, <1>7, MembersKept DEF AccessInv, Setup
<1>10. work' = [work EXCEPT ![q] = Idle] /\ disclosed' = disclosed
  BY DEF Setup, Finished
<1>11. \A p \in Requests : RequestOK(work[p], flows, disclosed, location, access)'
  BY <1>7, <1>8, <1>10, IdleIsWork, IdleOK, OthersOK DEF Setup
<1>12. Len(flows') <= MaxFlows
  BY <1>3, <1>6, <1>7, AccessAssumption
<1>13. AccessTypeOK'
  BY <1>1, <1>7, <1>10, <1>12, IdleIsWork DEF Setup, AccessInv, AccessTypeOK
<1> QED BY <1>7, <1>9, <1>11, <1>13 DEF Setup, AccessInv, AccessShown, AccessInside, Readable

LEMMA SignInKeeps ==
  ASSUME AccessInv, NEW q \in Requests, SignIn(q)
  PROVE  AccessInv'
<1>1. work[q] \in Work /\ work[q].step = "identified" /\ work \in [Requests -> Work]
      /\ work[q].account \in Accounts
  BY RequestFacts DEF SignIn, KnownOK
<1>2. /\ flows' \in Seq(Flow) /\ Len(flows') = Len(flows) /\ Later(flows, flows') /\ RowsOK(flows')
      /\ \A a, j : Verified(flows, a, j) <=> Verified(flows', a, j)
  BY <1>1, ConsumedRows DEF SignIn
<1>3. VerifiedMembers'
  BY <1>2, MembersKept DEF AccessInv, SignIn
<1>4. work' = [work EXCEPT ![q] = Idle] /\ disclosed' = disclosed
  BY DEF SignIn, Finished
<1>5. \A p \in Requests : RequestOK(work[p], flows, disclosed, location, access)'
  BY <1>2, <1>4, IdleIsWork, IdleOK, OthersOK DEF SignIn
<1>6. users' \subseteq Accounts /\ sessions' \in [Accounts -> Nat]
  BY <1>1 DEF SignIn, AccessInv, AccessTypeOK
<1>7. AccessTypeOK'
  BY <1>1, <1>2, <1>4, <1>6, IdleIsWork DEF SignIn, AccessInv, AccessTypeOK
<1> QED BY <1>2, <1>3, <1>5, <1>7 DEF SignIn, AccessInv, AccessShown, AccessInside, Readable

LEMMA ListKeeps ==
  ASSUME AccessInv, NEW q \in Requests, ListRepositories(q)
  PROVE  AccessInv'
<1> DEFINE w == work[q]
           listed == {r \in Repositories : home[r] = Target(q) /\ <<w.account, r>> \in sees}
           v == [w EXCEPT !.step = "listed", !.listing = listed]
<1>1. w \in Work /\ w.step = "identified" /\ KnownOK(w, flows, disclosed) /\ work \in [Requests -> Work]
  BY RequestFacts DEF ListRepositories
<1>2. flows[w.flow].purpose = "install_verify" /\ disclosed' = disclosed \union ({w.account} \X listed)
      /\ work' = [work EXCEPT ![q] = v]
  BY DEF ListRepositories, Held
<1>3. w.account \in Accounts /\ w.account = flows[w.flow].user
  BY <1>1, <1>2 DEF KnownOK
<1>4. listed \subseteq Repositories /\ disclosed' \subseteq Accounts \X Repositories
  BY <1>2, <1>3 DEF AccessInv, AccessTypeOK
<1>5. \A r \in listed : <<w.account, r>> \in disclosed'
  BY <1>2
<1> HIDE DEF listed
<1>6. v \in Work /\ v.step = "listed" /\ v.account = w.account /\ v.flow = w.flow /\ v.listing = listed
  BY <1>1, <1>4 DEF Work
<1>7. w.todo = {} /\ w.moved = {} /\ w.gained = {}
  BY <1>1 DEF KnownOK, SyncSteps
<1>8. KnownOK(v, flows, disclosed')
  BY <1>1, <1>2, <1>3, <1>5, <1>6, <1>7 DEF KnownOK, SyncSteps, AtRepository, Work
<1>9. v.step \notin SyncSteps
  BY <1>6 DEF SyncSteps
<1> HIDE DEF v, w
<1>10. RequestOK(v, flows, disclosed', location, access)
  BY <1>8, <1>9, BeforeSync
<1>11. UNCHANGED <<home, sees, changes, flows, users, sessions, members, location, access,
                   contested>>
  BY DEF ListRepositories
<1>12. flows' \in Seq(Flow) /\ Later(flows, flows') /\ disclosed \subseteq disclosed'
       /\ RequestOK(v, flows', disclosed', location, access)
  BY <1>2, <1>10, <1>11, SameIsLater DEF AccessInv, AccessTypeOK
<1>13. \A p \in Requests : RequestOK(work[p], flows, disclosed, location, access)'
  BY <1>2, <1>6, <1>11, <1>12, OthersOK
<1>14. AccessTypeOK'
  BY <1>1, <1>2, <1>4, <1>6, <1>11 DEF AccessInv, AccessTypeOK
<1>15. AccessShown'
  BY <1>11, <1>12 DEF AccessInv, AccessShown, Readable
<1>16. RowsOK(flows)' /\ VerifiedMembers' /\ AccessInside'
       /\ (\A p \in access : location[p[2]] # Nowhere)'
  BY <1>11 DEF AccessInv, RowsOK, VerifiedMembers, AccessInside, Readable
<1> QED BY <1>13, <1>14, <1>15, <1>16 DEF AccessInv

-----------------------------------------------------------------------------
(* Steps of a sync before its commit                                         *)

\* What is there to show of such a step.
LEMMA SyncStepping ==
  ASSUME AccessInv, NEW q \in Requests, NEW v \in Work, work' = [work EXCEPT ![q] = v],
         KnownOK(v, flows, disclosed), StoredOK(v, location),
         v.step \in SyncSteps, v.flow = work[q].flow,
         ~v.overtaken => CleanOK(v, User(q), Target(q), location, access),
         UNCHANGED <<home, sees, changes, disclosed, flows, users, sessions, members, location,
                     access, contested>>
  PROVE  AccessInv'
<1>1. Clean(v, flows, location, access)
  BY DEF Clean, User, Target, Held
<1>2. RequestOK(v, flows, disclosed, location, access)
  BY <1>1 DEF RequestOK
<1> QED BY <1>2, Stepping

\* What is known of a request in its sync.
LEMMA SyncFacts ==
  ASSUME AccessInv, NEW q \in Requests, work[q].step \in SyncSteps
  PROVE  /\ work \in [Requests -> Work] /\ work[q] \in Work
         /\ KnownOK(work[q], flows, disclosed) /\ StoredOK(work[q], location)
         /\ ~work[q].overtaken => CleanOK(work[q], User(q), Target(q), location, access)
         /\ User(q) \in Accounts /\ Target(q) \in Installations /\ work[q].account = User(q)
         /\ location \in [Repositories -> Installations \union {Nowhere}]
         /\ access \subseteq Accounts \X Repositories
         /\ \A p \in access : location[p[2]] # Nowhere
BY RequestFacts DEF AccessInv, AccessTypeOK, RequestOK, Clean, User, Target, Held

LEMMA JoinKeeps ==
  ASSUME AccessInv, NEW q \in Requests, Join(q)
  PROVE  AccessInv'
<1> DEFINE w == work[q]
           v == [w EXCEPT !.step = "syncing", !.todo = w.listing]
<1>1. w \in Work /\ w.step = "listed" /\ KnownOK(w, flows, disclosed) /\ work \in [Requests -> Work]
  BY RequestFacts DEF Join, GoesOn
<1>2. v \in Work /\ v.step = "syncing" /\ v.account = w.account /\ v.flow = w.flow
      /\ v.listing = w.listing /\ v.todo = w.listing /\ v.moved = w.moved /\ v.gained = w.gained
      /\ v.lost = w.lost /\ v.overtaken = w.overtaken
  BY <1>1, ZenonT(60) DEF Work, SyncSteps
<1>3. w.moved = {} /\ w.gained = {} /\ w.lost = {}
  BY <1>1 DEF KnownOK, SyncSteps
<1>4. work' = [work EXCEPT ![q] = v]
  BY DEF Join, GoesOn
<1> HIDE DEF v
<1>5. KnownOK(v, flows, disclosed)
  BY <1>1, <1>2, <1>3 DEF KnownOK, SyncSteps, AtRepository
<1>6. StoredOK(v, location) /\ CleanOK(v, User(q), Target(q), location, access)
  BY <1>2, <1>3 DEF StoredOK, CleanOK, AtRepository
<1>7. v.step \in SyncSteps /\ v.flow = work[q].flow
  BY <1>2 DEF SyncSteps
<1> QED BY <1>2, <1>4, <1>5, <1>6, <1>7, SyncStepping DEF Join, GoesOn

LEMMA LookUpKeeps ==
  ASSUME AccessInv, NEW q \in Requests, NEW r \in Repositories, LookUp(q, r)
  PROVE  AccessInv'
<1> DEFINE w == work[q]
           v == [w EXCEPT !.step = "seen", !.repo = r, !.seen = location[r]]
<1>1. w.step = "syncing" /\ w.step \in SyncSteps /\ r \in w.todo
  BY DEF LookUp, SyncSteps, GoesOn
<1>2. /\ w \in Work /\ KnownOK(w, flows, disclosed) /\ StoredOK(w, location)
      /\ ~w.overtaken => CleanOK(w, User(q), Target(q), location, access)
      /\ location[r] \in Installations \union {Nowhere}
  BY <1>1, SyncFacts
<1>3. v \in Work /\ v.step = "seen" /\ v.account = w.account /\ v.flow = w.flow
      /\ v.listing = w.listing /\ v.todo = w.todo /\ v.moved = w.moved /\ v.gained = w.gained
      /\ v.lost = w.lost /\ v.overtaken = w.overtaken /\ v.repo = r /\ v.seen = location[r]
  BY <1>2, ZenonT(60) DEF Work, SyncSteps
<1>4. work' = [work EXCEPT ![q] = v]
  BY DEF LookUp, GoesOn
<1> HIDE DEF v
<1>5. KnownOK(v, flows, disclosed)
  BY <1>1, <1>2, <1>3 DEF KnownOK, SyncSteps, AtRepository
<1>6. StoredOK(v, location)
  BY <1>2, <1>3 DEF StoredOK, AtRepository
<1>7. ~v.overtaken => CleanOK(v, User(q), Target(q), location, access)
  BY <1>1, <1>2, <1>3 DEF CleanOK, AtRepository
<1>8. v.step \in SyncSteps /\ v.flow = work[q].flow
  BY <1>3 DEF SyncSteps
<1> QED BY <1>3, <1>4, <1>5, <1>6, <1>7, <1>8, SyncStepping DEF LookUp, GoesOn

LEMMA EvictKeeps ==
  ASSUME AccessInv, NEW q \in Requests, Evict(q)
  PROVE  AccessInv'
<1> DEFINE w == work[q]
           rows == {p \in access : p[2] = w.repo}
           v == [w EXCEPT !.step = "evicting", !.evict = rows]
<1>1. w.step = "seen" /\ w.step \in SyncSteps /\ w.seen # Nowhere /\ w.seen # Target(q)
  BY DEF Evict, SyncSteps, GoesOn
<1>2. /\ w \in Work /\ KnownOK(w, flows, disclosed) /\ StoredOK(w, location)
      /\ ~w.overtaken => CleanOK(w, User(q), Target(q), location, access)
      /\ rows \subseteq Accounts \X Repositories
  BY <1>1, SyncFacts
<1>3. v \in Work /\ v.step = "evicting" /\ v.account = w.account /\ v.flow = w.flow
      /\ v.listing = w.listing /\ v.todo = w.todo /\ v.moved = w.moved /\ v.gained = w.gained
      /\ v.lost = w.lost /\ v.overtaken = w.overtaken /\ v.repo = w.repo /\ v.seen = w.seen
      /\ v.evict = rows
  BY <1>2 DEF Work, SyncSteps
<1>4. work' = [work EXCEPT ![q] = v]
  BY DEF Evict, GoesOn
<1> HIDE DEF v
<1>5. KnownOK(v, flows, disclosed)
  BY <1>1, <1>2, <1>3 DEF KnownOK, SyncSteps, AtRepository
<1>6. StoredOK(v, location)
  BY <1>1, <1>2, <1>3 DEF StoredOK, AtRepository
<1>7. ~v.overtaken => CleanOK(v, User(q), Target(q), location, access)
  BY <1>1, <1>2, <1>3 DEF CleanOK, AtRepository
<1>8. v.step \in SyncSteps /\ v.flow = work[q].flow
  BY <1>3 DEF SyncSteps
<1> QED BY <1>3, <1>4, <1>5, <1>6, <1>7, <1>8, SyncStepping DEF Evict, GoesOn

LEMMA EvictedKeeps ==
  ASSUME AccessInv, NEW q \in Requests, Evicted(q)
  PROVE  AccessInv'
<1> DEFINE w == work[q]
           v == [w EXCEPT !.step = "evicted", !.evict = {}, !.lost = w.lost \union w.evict]
<1>1. w.step = "evicting" /\ w.step \in SyncSteps
  BY DEF Evicted, SyncSteps, GoesOn
<1>2. /\ w \in Work /\ KnownOK(w, flows, disclosed) /\ StoredOK(w, location)
      /\ ~w.overtaken => CleanOK(w, User(q), Target(q), location, access)
  BY <1>1, SyncFacts
<1>3. v \in Work /\ v.step = "evicted" /\ v.account = w.account /\ v.flow = w.flow
      /\ v.listing = w.listing /\ v.todo = w.todo /\ v.moved = w.moved /\ v.gained = w.gained
      /\ v.lost = w.lost \union w.evict /\ v.overtaken = w.overtaken /\ v.repo = w.repo
      /\ v.seen = w.seen
  BY <1>2 DEF Work, SyncSteps
<1>4. work' = [work EXCEPT ![q] = v]
  BY <1>2 DEF Evicted, GoesOn
<1> HIDE DEF v
<1>5. KnownOK(v, flows, disclosed)
  BY <1>1, <1>2, <1>3 DEF KnownOK, SyncSteps, AtRepository
<1>6. StoredOK(v, location)
  BY <1>1, <1>2, <1>3 DEF StoredOK, AtRepository
<1>7. ASSUME ~v.overtaken PROVE CleanOK(v, User(q), Target(q), location, access)
  <2> DEFINE a == User(q)
  <2>1. CleanOK(w, User(q), Target(q), location, access)
    BY <1>2, <1>3, <1>7
  <2>2. w.evict = {p \in access : p[2] = w.repo} /\ w.todo \intersect w.gained = {}
        /\ w.repo \in w.todo
    BY <1>1, <1>2, <2>1 DEF CleanOK, KnownOK, AtRepository
  <2>3. \A r \in w.listing \ w.todo : r # w.repo
    BY <2>2
  <2>4. \A r \in w.listing \ w.todo : <<a, r>> \in v.lost <=> <<a, r>> \in w.lost
    BY <1>3, <2>2, <2>3
  <2> HIDE DEF a
  <2>5. \A r \in w.listing \ w.todo :
          (<<User(q), r>> \in v.lost <=> <<User(q), r>> \in w.lost)
    BY <2>4 DEF a
  <2> QED BY <1>1, <1>3, <2>1, <2>2, <2>5 DEF CleanOK, AtRepository
<1>8. v.step \in SyncSteps /\ v.flow = work[q].flow
  BY <1>3 DEF SyncSteps
<1> QED BY <1>3, <1>4, <1>5, <1>6, <1>7, <1>8, SyncStepping DEF Evicted, GoesOn

LEMMA StoreKeeps ==
  ASSUME AccessInv, NEW q \in Requests, StoreRepository(q)
  PROVE  AccessInv'
<1> DEFINE w == work[q]
           a == User(q)
           i == Target(q)
           writes == w.seen # i
           inserts == <<a, w.repo>> \notin AccessSeen(q)
           moved == IF writes THEN w.moved \union {w.repo} ELSE w.moved
           gained == IF inserts THEN w.gained \union {w.repo} ELSE w.gained
           v == [w EXCEPT !.step = "syncing", !.todo = w.todo \ {w.repo}, !.repo = Nowhere,
                          !.seen = Nowhere, !.moved = moved, !.gained = gained]
<1>1. /\ w.step \in {"seen", "evicted"} /\ w.step \in SyncSteps /\ w.step \in AtRepository
      /\ w.step = "seen" => w.seen = Nowhere \/ w.seen = i
  BY DEF StoreRepository, SyncSteps, AtRepository, GoesOn
<1>2. /\ w \in Work /\ KnownOK(w, flows, disclosed) /\ StoredOK(w, location)
      /\ ~w.overtaken => CleanOK(w, a, i, location, access)
      /\ a \in Accounts /\ i \in Installations /\ i # Nowhere
      /\ access \subseteq Accounts \X Repositories
      /\ \A p \in access : location[p[2]] # Nowhere
  BY <1>1, SyncFacts, NamesApart
<1>3. w.repo \in w.todo /\ w.repo \in w.listing /\ w.listing \subseteq Repositories
  BY <1>1, <1>2 DEF KnownOK, Work
<1>4. moved \subseteq Repositories /\ gained \subseteq Repositories
  BY <1>2, <1>3 DEF Work
<1>5. work' = [work EXCEPT ![q] = v]
  BY <1>2 DEF StoreRepository, GoesOn
<1>6. w.seen = Nowhere => location[w.repo] = Nowhere
  BY DEF StoreRepository, GoesOn
<1>7. inserts <=> ~(<<a, w.repo>> \in access /\ <<a, w.repo>> \notin w.lost) /\ w.repo \notin w.gained
  BY DEF AccessSeen
<1> HIDE DEF moved, gained
<1>8. v \in Work /\ v.step = "syncing" /\ v.account = w.account /\ v.flow = w.flow
      /\ v.listing = w.listing /\ v.todo = w.todo \ {w.repo} /\ v.moved = moved
      /\ v.gained = gained /\ v.lost = w.lost /\ v.overtaken = w.overtaken
  BY <1>2, <1>4 DEF Work, SyncSteps
<1> HIDE DEF v
<1>9. /\ w.repo \notin moved => ~writes /\ moved = w.moved
      /\ writes => w.repo \in moved
      /\ ~writes => moved = w.moved
      /\ w.repo \notin gained => ~inserts /\ gained = w.gained
      /\ inserts => w.repo \in gained
      /\ \A r : r # w.repo => (r \in moved <=> r \in w.moved) /\ (r \in gained <=> r \in w.gained)
      /\ w.moved \subseteq moved /\ w.gained \subseteq gained
  BY DEF moved, gained
<1> HIDE DEF inserts
<1>10. KnownOK(v, flows, disclosed)
  BY <1>1, <1>2, <1>3, <1>8, <1>9 DEF KnownOK, SyncSteps, AtRepository
<1>11. StoredOK(v, location)
  <2>1. \A r \in gained : r \in moved \/ location[r] # Nowhere
    BY <1>1, <1>2, <1>9 DEF StoredOK
  <2> QED BY <1>8, <2>1 DEF StoredOK, AtRepository
<1>12. ASSUME ~v.overtaken PROVE CleanOK(v, a, i, location, access)
  <2>1. CleanOK(w, a, i, location, access)
    BY <1>2, <1>8, <1>12
  <2>2. /\ w.seen = location[w.repo]
        /\ w.step = "evicted" => w.seen # i /\ w.seen # Nowhere
        /\ w.todo \intersect w.moved = {} /\ w.todo \intersect w.gained = {}
        /\ \A r \in w.moved : location[r] # i /\ {p \in access : p[2] = r} \subseteq w.lost
        /\ \A p \in w.lost : p[2] \in w.moved \/ (w.step = "evicted" /\ p[2] = w.repo)
        /\ w.step = "evicted" => {p \in access : p[2] = w.repo} \subseteq w.lost
    BY <1>1, <1>2, <2>1 DEF CleanOK, StoredOK, AtRepository
  <2>3. writes => location[w.repo] # i /\ {p \in access : p[2] = w.repo} \subseteq w.lost
    <3>1. w.seen = Nowhere => {p \in access : p[2] = w.repo} = {}
      BY <1>2, <2>2
    <3> QED BY <1>1, <2>2, <3>1
  <2>4. \A r \in moved : location[r] # i /\ {p \in access : p[2] = r} \subseteq w.lost
    <3> SUFFICES ASSUME NEW r \in moved
                 PROVE  location[r] # i /\ {p \in access : p[2] = r} \subseteq w.lost
      OBVIOUS
    <3>1. CASE r = w.repo
      <4>1. writes
        BY <1>3, <1>9, <2>2, <3>1
      <4> QED BY <2>3, <3>1, <4>1
    <3>2. CASE r # w.repo
      <4>1. r \in w.moved
        BY <1>9, <3>2
      <4> QED BY <2>2, <4>1
    <3> QED BY <3>1, <3>2
  <2>5. \A p \in w.lost : p[2] \in moved
    BY <1>9, <2>2
  <2>6. ASSUME NEW r \in w.listing \ (w.todo \ {w.repo})
        PROVE  /\ (IF r \in moved THEN i ELSE location[r]) = i
               /\ \/ <<a, r>> \in access /\ <<a, r>> \notin w.lost
                  \/ r \in gained
    <3>1. CASE r = w.repo
      <4>1. (IF r \in moved THEN i ELSE location[r]) = i
        BY <1>9, <2>2, <3>1
      <4>2. \/ <<a, r>> \in access /\ <<a, r>> \notin w.lost
            \/ r \in gained
        BY <1>7, <1>9, <3>1
      <4> QED BY <4>1, <4>2
    <3>2. CASE r # w.repo
      <4>1. r \in w.listing \ w.todo
        BY <3>2
      <4>2. /\ (IF r \in w.moved THEN i ELSE location[r]) = i
            /\ \/ <<a, r>> \in access /\ <<a, r>> \notin w.lost
               \/ r \in w.gained
        BY <2>1, <4>1 DEF CleanOK
      <4> QED BY <1>9, <3>2, <4>2
    <3> QED BY <3>1, <3>2
  <2>7. (w.todo \ {w.repo}) \intersect moved = {} /\ (w.todo \ {w.repo}) \intersect gained = {}
    BY <1>9, <2>2
  <2> HIDE DEF a, i, w
  <2> QED BY <1>8, <2>4, <2>5, <2>6, <2>7 DEF CleanOK, AtRepository
<1>13. v.step \in SyncSteps /\ v.flow = work[q].flow
  BY <1>8 DEF SyncSteps
<1> QED BY <1>5, <1>8, <1>10, <1>11, <1>12, <1>13, SyncStepping DEF StoreRepository, GoesOn

LEMMA ReadAccessKeeps ==
  ASSUME AccessInv, NEW q \in Requests, ReadAccess(q)
  PROVE  AccessInv'
<1> DEFINE w == work[q]
           a == User(q)
           i == Target(q)
           leaving == {r \in Repositories \ w.listing :
                         <<a, r>> \in AccessSeen(q) /\ LocationSeen(q, r) = i}
           v == [w EXCEPT !.step = "leaving", !.leaving = leaving]
<1>1. w.step = "syncing" /\ w.step \in SyncSteps /\ w.todo = {}
  BY DEF ReadAccess, SyncSteps, GoesOn
<1>2. /\ w \in Work /\ KnownOK(w, flows, disclosed) /\ StoredOK(w, location)
      /\ ~w.overtaken => CleanOK(w, a, i, location, access)
  BY <1>1, SyncFacts
<1>3. leaving \subseteq Repositories
  OBVIOUS
<1>4. leaving = {r \in Repositories \ w.listing :
                   /\ (<<a, r>> \in access /\ <<a, r>> \notin w.lost) \/ r \in w.gained
                   /\ (IF r \in w.moved THEN i ELSE location[r]) = i}
  BY DEF AccessSeen, LocationSeen
<1>5. work' = [work EXCEPT ![q] = v]
  BY DEF ReadAccess, GoesOn
<1> HIDE DEF leaving
<1>6. v \in Work /\ v.step = "leaving" /\ v.account = w.account /\ v.flow = w.flow
      /\ v.listing = w.listing /\ v.todo = w.todo /\ v.moved = w.moved /\ v.gained = w.gained
      /\ v.lost = w.lost /\ v.overtaken = w.overtaken /\ v.leaving = leaving
  BY <1>2, <1>3 DEF Work, SyncSteps
<1> HIDE DEF v
<1>7. KnownOK(v, flows, disclosed)
  BY <1>1, <1>2, <1>6 DEF KnownOK, SyncSteps, AtRepository
<1>8. StoredOK(v, location)
  BY <1>2, <1>6 DEF StoredOK, AtRepository
<1>9. ASSUME ~v.overtaken PROVE CleanOK(v, a, i, location, access)
  <2>1. CleanOK(w, a, i, location, access)
    BY <1>2, <1>6, <1>9
  <2> HIDE DEF a, i, w
  <2> QED BY <1>1, <1>4, <1>6, <2>1 DEF CleanOK, AtRepository
<1>10. v.step \in SyncSteps /\ v.flow = work[q].flow
  BY <1>6 DEF SyncSteps
<1> QED BY <1>5, <1>6, <1>7, <1>8, <1>9, <1>10, SyncStepping DEF ReadAccess, GoesOn

-----------------------------------------------------------------------------
(* The commit of a sync                                                      *)

\* What a sync that commits has known, and what it writes.
LEMMA CommitFacts ==
  ASSUME AccessInv, NEW q \in Requests, CommitSync(q)
  PROVE  /\ work[q].step = "leaving" /\ work[q].step \in SyncSteps /\ work[q] \in Work
         /\ KnownOK(work[q], flows, disclosed) /\ StoredOK(work[q], location)
         /\ ~work[q].overtaken => CleanOK(work[q], User(q), Target(q), location, access)
         /\ User(q) \in Accounts /\ Target(q) \in Installations /\ Target(q) # Nowhere
         /\ work[q].account = User(q)
         /\ access \subseteq Accounts \X Repositories
         /\ \A p \in access : location[p[2]] # Nowhere
         /\ \A r \in Repositories : location'[r] = IF r \in work[q].moved THEN Target(q) ELSE location[r]
         /\ \A a, r : <<a, r>> \in access' <=>
              \/ <<a, r>> \in access /\ <<a, r>> \notin work[q].lost
                 /\ ~(a = User(q) /\ r \in work[q].leaving)
              \/ a = User(q) /\ r \in work[q].gained
<1>1. work[q].step = "leaving" /\ work[q].step \in SyncSteps
  BY DEF CommitSync, SyncSteps
<1>2. \A r \in Repositories : location'[r] = IF r \in work[q].moved THEN Target(q) ELSE location[r]
  BY DEF CommitSync, LocationSeen
<1>3. \A a, r : <<a, r>> \in access' <=>
              \/ <<a, r>> \in access /\ <<a, r>> \notin work[q].lost
                 /\ ~(a = User(q) /\ r \in work[q].leaving)
              \/ a = User(q) /\ r \in work[q].gained
  <2>1. access' = (access \ (work[q].lost \union ({User(q)} \X work[q].leaving)))
                    \union ({User(q)} \X work[q].gained)
    BY DEF CommitSync, Removed
  <2> QED BY <2>1
<1> QED BY <1>1, <1>2, <1>3, SyncFacts, NamesApart

LEMMA CommitVerifies ==
  ASSUME AccessInv, NEW q \in Requests, CommitSync(q)
  PROVE  /\ flows \in Seq(Flow) /\ flows' \in Seq(Flow) /\ Len(flows') = Len(flows)
         /\ Later(flows, flows') /\ RowsOK(flows') /\ VerifiedMembers'
<1> DEFINE n == work[q].flow
<1>1. /\ work[q].step = "leaving" /\ work[q].step # "idle" /\ work[q].step \in SyncSteps
      /\ KnownOK(work[q], flows, disclosed)
  BY CommitFacts
<1>2. n \in 1 .. Len(flows) /\ flows[n].purpose = "install_verify" /\ RowsOK(flows)
      /\ flows \in Seq(Flow) /\ flows' = Marked(flows, n, "gone")
  BY <1>1 DEF KnownOK, AccessInv, AccessTypeOK, CommitSync, Consumed, Marked
<1> HIDE DEF n
<1>3. Restates(flows, n, "gone", flows')
  BY <1>2, Restated
<1>4. /\ flows' \in Seq(Flow) /\ Len(flows') = Len(flows) /\ Later(flows, flows') /\ RowsOK(flows')
      /\ \A m \in 1 .. Len(flows) : m # n => flows'[m] = flows[m]
      /\ flows'[n].state = "gone"
  BY <1>3 DEF Restates
<1>5. /\ flows'[n].purpose = "install_verify" /\ flows'[n].user = User(q)
      /\ flows'[n].installation = Target(q)
      /\ flows[n].user = User(q) /\ flows[n].installation = Target(q)
  BY <1>2, <1>4 DEF Later, User, Target, Held, n
<1>6. ASSUME NEW a \in Accounts, NEW i \in Installations
      PROVE  Verified(flows', a, i) <=> Verified(flows, a, i) \/ (a = User(q) /\ i = Target(q))
  <2>1. ASSUME NEW m \in 1 .. Len(flows), m # n
        PROVE  /\ flows'[m].purpose = "install_verify" /\ flows'[m].state = "gone"
                  /\ flows'[m].user = a /\ flows'[m].installation = i
               <=> /\ flows[m].purpose = "install_verify" /\ flows[m].state = "gone"
                  /\ flows[m].user = a /\ flows[m].installation = i
    BY <1>4, <2>1
  <2> QED BY <1>2, <1>4, <1>5, <2>1 DEF Verified
<1>7. members' = members \union {<<User(q), Target(q)>>}
  BY DEF CommitSync
<1>8. VerifiedMembers'
  <2> SUFFICES ASSUME NEW a \in Accounts, NEW i \in Installations
               PROVE  (<<a, i>> \in members <=> Verified(flows, a, i))'
    BY DEF VerifiedMembers, Verified
  <2>1. <<a, i>> \in members <=> Verified(flows, a, i)
    BY MembersVerified DEF AccessInv
  <2>2. <<a, i>> \in members' <=> <<a, i>> \in members \/ (a = User(q) /\ i = Target(q))
    BY <1>7
  <2>3. Verified(flows', a, i) <=> Verified(flows, a, i) \/ (a = User(q) /\ i = Target(q))
    BY <1>6
  <2> QED BY <2>1, <2>2, <2>3
<1> QED BY <1>2, <1>4, <1>8

\* The other syncs are overtaken, and what they rely on stays.
LEMMA CommitOthers ==
  ASSUME AccessInv, NEW q \in Requests, CommitSync(q)
  PROVE  /\ work' \in [Requests -> Work]
         /\ \A p \in Requests : RequestOK(work[p], flows, disclosed, location, access)'
<1>1. /\ work' = [p \in Requests |->
           IF p = q THEN Idle
           ELSE IF Syncing(p) THEN [work[p] EXCEPT !.overtaken = TRUE, !.evict = @ \ Removed(q)]
           ELSE work[p]]
      /\ disclosed' = disclosed
  BY DEF CommitSync
<1>2. /\ flows \in Seq(Flow) /\ flows' \in Seq(Flow) /\ Later(flows, flows')
  BY CommitVerifies
<1>3. \A r \in Repositories : location[r] # Nowhere => location'[r] # Nowhere
  BY CommitFacts
<1> SUFFICES ASSUME NEW p \in Requests
             PROVE  work'[p] \in Work /\ RequestOK(work'[p], flows', disclosed', location', access')
  BY <1>1
<1>4. /\ work[p] \in Work /\ RequestOK(work[p], flows, disclosed, location, access)
  BY RequestFacts
<1>5. RequestOK(work[p], flows', disclosed, location, access)
  BY <1>2, <1>4, StaysOK
<1>6. KnownOK(work[p], flows', disclosed) /\ StoredOK(work[p], location)
  BY <1>5 DEF RequestOK
<1>7. CASE p = q
  BY <1>1, <1>7, IdleIsWork, IdleOK
<1>8. CASE p # q /\ ~Syncing(p)
  <2>1. work'[p] = work[p] /\ work[p].step \notin SyncSteps
    BY <1>1, <1>8 DEF Syncing
  <2> QED BY <1>1, <1>4, <1>6, <2>1, BeforeSync
<1>9. CASE p # q /\ Syncing(p)
  <2> DEFINE w == work[p]
             v == [w EXCEPT !.overtaken = TRUE, !.evict = w.evict \ Removed(q)]
  <2>1. work'[p] = v
    BY <1>1, <1>9
  <2>2. w.step \in SyncSteps
    BY <1>9 DEF Syncing
  <2>3. v \in Work /\ v.step = w.step /\ v.account = w.account /\ v.flow = w.flow
        /\ v.listing = w.listing /\ v.todo = w.todo /\ v.moved = w.moved /\ v.gained = w.gained
        /\ v.lost = w.lost /\ v.overtaken = TRUE /\ v.repo = w.repo /\ v.seen = w.seen
    BY <1>4 DEF Work
  <2> HIDE DEF v
  <2>4. KnownOK(v, flows', disclosed)
    BY <1>6, <2>2, <2>3 DEF KnownOK, SyncSteps, AtRepository
  <2>5. w.gained \subseteq Repositories /\ (w.step \in AtRepository => w.repo \in Repositories)
    BY <1>4, <1>6 DEF KnownOK, Work
  <2>6. StoredOK(v, location')
    BY <1>3, <1>6, <2>3, <2>5 DEF StoredOK
  <2>7. Clean(v, flows', location', access')
    BY <2>3 DEF Clean
  <2> QED BY <1>1, <2>1, <2>3, <2>4, <2>6, <2>7 DEF RequestOK
<1> QED BY <1>7, <1>8, <1>9

LEMMA CommitKeeps ==
  ASSUME AccessInv, NEW q \in Requests, CommitSync(q)
  PROVE  AccessInv'
<1> DEFINE w == work[q]
           u == User(q)
           i == Target(q)
<1>1. /\ w \in Work /\ w.step = "leaving"
      /\ u \in Accounts /\ i \in Installations /\ i # Nowhere /\ w.account = u
      /\ access \subseteq Accounts \X Repositories
      /\ \A p \in access : location[p[2]] # Nowhere
      /\ w.gained \subseteq w.listing /\ w.moved \subseteq w.listing /\ w.listing \subseteq Repositories
      /\ \A r \in w.listing : <<u, r>> \in disclosed
      /\ \A r \in w.gained : r \in w.moved \/ location[r] # Nowhere
  BY CommitFacts DEF KnownOK, StoredOK, Work
<1>2. \A r \in Repositories : location'[r] = IF r \in w.moved THEN i ELSE location[r]
  BY CommitFacts
<1>3. \A a, r : <<a, r>> \in access' <=>
        \/ <<a, r>> \in access /\ <<a, r>> \notin w.lost /\ ~(a = u /\ r \in w.leaving)
        \/ a = u /\ r \in w.gained
  BY CommitFacts
<1>4. /\ contested' = IF w.overtaken THEN contested \union w.listing ELSE contested
      /\ members' = members \union {<<u, i>>}
      /\ UNCHANGED <<home, sees, changes, disclosed, users, sessions>>
      /\ location' = [r \in Repositories |-> LocationSeen(q, r)]
      /\ access' \subseteq access \union ({u} \X w.gained)
  BY DEF CommitSync
<1>5. ~w.overtaken => CleanOK(w, u, i, location, access)
  BY CommitFacts
<1> HIDE DEF w, u, i
<1>6. AccessTypeOK'
  <2>1. /\ work' \in [Requests -> Work] /\ flows' \in Seq(Flow) /\ Len(flows') = Len(flows)
    BY CommitOthers, CommitVerifies
  <2>2. access' \subseteq Accounts \X Repositories
    BY <1>1, <1>4
  <2>3. location' \in [Repositories -> Installations \union {Nowhere}]
    <3>1. \A r \in Repositories : location'[r] \in Installations \union {Nowhere}
      BY <1>1, <1>2 DEF AccessInv, AccessTypeOK
    <3>2. \A r \in Repositories : LocationSeen(q, r) \in Installations \union {Nowhere}
      BY <1>4, <3>1
    <3> QED BY <1>4, <3>2
  <2>4. contested' \subseteq Repositories /\ members' \subseteq Accounts \X Installations
    BY <1>1, <1>4 DEF AccessInv, AccessTypeOK
  <2> QED BY <1>4, <2>1, <2>2, <2>3, <2>4 DEF AccessInv, AccessTypeOK
<1>7. AccessShown'
  <2>1. \A a \in Accounts, r \in Repositories : <<a, r>> \in access => <<a, r>> \in disclosed
    BY DEF AccessInv, AccessShown, Readable
  <2>2. \A a \in Accounts, r \in Repositories : <<a, r>> \in access' => <<a, r>> \in disclosed'
    BY <1>1, <1>3, <1>4, <2>1
  <2> QED BY <2>2 DEF AccessShown, Readable
<1>8. (\A p \in access : location[p[2]] # Nowhere)'
  <2>1. ASSUME NEW a \in Accounts, NEW r \in Repositories, <<a, r>> \in access'
        PROVE  location'[r] # Nowhere
    <3>1. r \in w.moved \/ location[r] # Nowhere
      BY <1>1, <1>3, <2>1
    <3> QED BY <1>1, <1>2, <3>1
  <2>2. access' \subseteq Accounts \X Repositories
    BY <1>1, <1>4
  <2> QED BY <2>1, <2>2
<1>9. AccessInside'
  <2> SUFFICES ASSUME NEW a \in Accounts, NEW r \in Repositories, <<a, r>> \in access',
                      r \notin contested'
               PROVE  <<a, location'[r]>> \in members'
    BY DEF AccessInside, Readable
  <2>1. r \notin contested /\ (w.overtaken => r \notin w.listing)
    BY <1>4
  <2>2. <<a, r>> \in access => <<a, location[r]>> \in members
    BY <2>1 DEF AccessInv, AccessInside, Readable
  <2>3. CASE r \notin w.moved /\ <<a, r>> \in access
    BY <1>2, <1>4, <2>2, <2>3
  <2>4. CASE r \in w.gained /\ a = u
    <3>1. ~w.overtaken /\ r \in w.listing
      BY <1>1, <2>1, <2>4
    <3>2. w.todo = {} /\ (IF r \in w.moved THEN i ELSE location[r]) = i
      <4>1. w.todo = {}
        BY <1>1, <1>5, <3>1 DEF CleanOK
      <4> QED BY <1>5, <3>1, <4>1 DEF CleanOK
    <3>3. location'[r] = i
      BY <1>2, <3>2
    <3> QED BY <1>4, <2>4, <3>3
  <2>5. CASE r \in w.moved /\ <<a, r>> \in access /\ <<a, r>> \notin w.lost
    <3>1. ~w.overtaken
      BY <1>1, <2>1, <2>5
    <3>2. {p \in access : p[2] = r} \subseteq w.lost
      BY <1>5, <2>5, <3>1 DEF CleanOK
    <3>3. <<a, r>> \in {p \in access : p[2] = r}
      BY <2>5
    <3> QED BY <2>5, <3>2, <3>3
  <2> QED BY <1>3, <2>3, <2>4, <2>5
<1>10. RowsOK(flows)' /\ VerifiedMembers'
  BY CommitVerifies
<1>11. \A p \in Requests : RequestOK(work[p], flows, disclosed, location, access)'
  BY CommitOthers
<1> QED BY <1>6, <1>7, <1>8, <1>9, <1>10, <1>11 DEF AccessInv

-----------------------------------------------------------------------------
(* The theorems                                                              *)

LEMMA AccessStarts == AccessInit => AccessInv
<1> SUFFICES ASSUME AccessInit PROVE AccessInv
  OBVIOUS
<1>1. PICK n \in 0 .. MaxFlows :
        flows \in [1 .. n -> {Row("install_verify", a, i) : a \in users, i \in Installations}]
  BY DEF AccessInit
<1>2. n \in Nat /\ n <= MaxFlows /\ users \subseteq Accounts
  BY AccessAssumption DEF AccessInit
<1>3. \A a \in users, i \in Installations :
        /\ Row("install_verify", a, i) \in Flow /\ Row("install_verify", a, i).state = "usable"
        /\ Row("install_verify", a, i).user = a /\ Row("install_verify", a, i).installation = i
  BY <1>2, RowIsFlow
<1>4. \A m \in 1 .. n : /\ flows[m] \in Flow /\ flows[m].state = "usable"
                        /\ flows[m].user \in Accounts
                        /\ flows[m].installation \in Installations
  BY <1>1, <1>2, <1>3
<1>5. flows \in Seq(Flow) /\ Len(flows) = n
  <2>1. flows \in [1 .. n -> Flow]
    BY <1>1, <1>4
  <2> QED BY <1>2, <2>1
<1>6. RowsOK(flows)
  BY <1>4, <1>5 DEF RowsOK
<1>7. AccessTypeOK
  <2>1. work \in [Requests -> Work]
    BY IdleIsWork DEF AccessInit
  <2>2. changes \in 0 .. MaxChanges
    BY AccessAssumption DEF AccessInit
  <2>3. sessions \in [Accounts -> Nat] /\ Len(flows) <= MaxFlows
    BY <1>2, <1>5 DEF AccessInit
  <2> QED BY <1>5, <2>1, <2>2, <2>3 DEF AccessInit, AccessTypeOK
<1>8. VerifiedMembers
  BY <1>4, <1>5 DEF AccessInit, VerifiedMembers
<1>9. AccessShown /\ AccessInside /\ \A p \in access : location[p[2]] # Nowhere
  BY DEF AccessInit, AccessShown, AccessInside, Readable
<1>10. \A q \in Requests : RequestOK(work[q], flows, disclosed, location, access)
  BY IdleOK DEF AccessInit
<1> QED BY <1>6, <1>7, <1>8, <1>9, <1>10 DEF AccessInv

LEMMA AccessSteps == AccessInv /\ [AccessNext]_accessVars => AccessInv'
<1> SUFFICES ASSUME AccessInv, [AccessNext]_accessVars PROVE AccessInv'
  OBVIOUS
<1>1. CASE \/ GitHubChanges \/ StartLogin \/ (\E f \in 1 .. Len(flows) : FlowExpires(f))
           \/ \E a \in Accounts : SessionEnds(a) \/ StartInstall(a)
  BY <1>1, TimeKeeps
<1>2. ASSUME NEW q \in Requests, RequestStep(q) PROVE AccessInv'
  <2>1. CASE \E f \in 1 .. Len(flows) : FindFlow(q, f)
    BY <2>1, FindFlowKeeps
  <2>2. CASE TakeFlow(q)
    BY <2>2, TakeFlowKeeps
  <2>3. CASE \E i \in Installations : Setup(q, i)
    BY <2>3, SetupKeeps
  <2>4. CASE \E a \in Accounts : Identify(q, a)
    BY <2>4, IdentifyKeeps
  <2>5. CASE SignIn(q)
    BY <2>5, SignInKeeps
  <2>6. CASE ListRepositories(q)
    BY <2>6, ListKeeps
  <2>7. CASE Join(q)
    BY <2>7, JoinKeeps
  <2>8. CASE \E r \in Repositories : LookUp(q, r)
    BY <2>8, LookUpKeeps
  <2>9. CASE Evict(q) \/ Evicted(q)
    BY <2>9, EvictKeeps, EvictedKeeps
  <2>10. CASE StoreRepository(q)
    BY <2>10, StoreKeeps
  <2>11. CASE ReadAccess(q)
    BY <2>11, ReadAccessKeeps
  <2>12. CASE CommitSync(q)
    BY <2>12, CommitKeeps
  <2>13. CASE RequestFails(q)
    BY <2>13, FailsKeeps
  <2> QED BY <1>2, <2>1, <2>2, <2>3, <2>4, <2>5, <2>6, <2>7, <2>8, <2>9, <2>10, <2>11, <2>12,
             <2>13 DEF RequestStep, SyncStep
<1>3. CASE UNCHANGED accessVars
  <2>1. UNCHANGED <<home, sees, changes, disclosed, flows, users, sessions, members, location,
                    access, contested, work>>
    BY <1>3 DEF accessVars
  <2> QED BY <2>1 DEF AccessInv, AccessTypeOK, RowsOK, VerifiedMembers, AccessShown,
             AccessInside, Readable
<1> QED BY <1>1, <1>2, <1>3 DEF AccessNext

LEMMA AccessAlways == AccessSpec => []AccessInv
<1> QED BY AccessStarts, AccessSteps, PTL DEF AccessSpec

\* Requests, flows and rows have their types.
THEOREM AccessTyped == AccessSpec => []AccessTypeOK
<1>1. AccessInv => AccessTypeOK
  BY DEF AccessInv
<1> QED BY <1>1, AccessAlways, PTL

\* A user is a member of an installation exactly when a flow that verified it is gone,
\* for any number of requests and whatever fails: the flow's deletion and the sync are
\* one commit.
THEOREM Membership == AccessSpec => []VerifiedMembers
<1>1. AccessInv => VerifiedMembers
  BY DEF AccessInv
<1> QED BY <1>1, AccessAlways, PTL

\* A user may use only what GitHub has listed to the user's own account, and only in
\* the user's installations, but for repositories that two syncs were at.
THEOREM Granted == AccessSpec => []AccessGranted
<1>1. AccessInv => AccessGranted
  BY DEF AccessInv, AccessGranted
<1> QED BY <1>1, AccessAlways, PTL

LEMMA CommitExact ==
  ASSUME AccessInv, NEW q \in Requests, CommitSync(q), ~work[q].overtaken
  PROVE  {r \in Repositories : <<User(q), r>> \in access' /\ location'[r] = Target(q)}
           = work[q].listing
<1> DEFINE w == work[q]
           u == User(q)
           i == Target(q)
<1>1. CleanOK(w, u, i, location, access) /\ w.step = "leaving" /\ w.listing \subseteq Repositories
      /\ w.gained \subseteq w.listing
  BY CommitFacts DEF KnownOK, Work
<1>2. \A r \in Repositories : location'[r] = IF r \in w.moved THEN i ELSE location[r]
  BY CommitFacts
<1>3. \A r : <<u, r>> \in access' <=>
        \/ <<u, r>> \in access /\ <<u, r>> \notin w.lost /\ r \notin w.leaving
        \/ r \in w.gained
  BY CommitFacts
<1> HIDE DEF w, u, i
<1>4. /\ w.leaving = {r \in Repositories \ w.listing :
                        /\ (<<u, r>> \in access /\ <<u, r>> \notin w.lost) \/ r \in w.gained
                        /\ (IF r \in w.moved THEN i ELSE location[r]) = i}
      /\ w.todo = {}
  BY <1>1 DEF CleanOK
<1>5. \A r \in w.listing :
        /\ (IF r \in w.moved THEN i ELSE location[r]) = i
        /\ (<<u, r>> \in access /\ <<u, r>> \notin w.lost) \/ r \in w.gained
  BY <1>1, <1>4 DEF CleanOK
<1>6. ASSUME NEW r \in w.listing PROVE <<u, r>> \in access' /\ location'[r] = i
  <2>1. r \notin w.leaving
    BY <1>4
  <2> QED BY <1>1, <1>2, <1>3, <1>5, <2>1
<1>7. ASSUME NEW r \in Repositories, <<u, r>> \in access', location'[r] = i
      PROVE  r \in w.listing
  BY <1>1, <1>2, <1>3, <1>4, <1>7
<1>8. {r \in Repositories : <<u, r>> \in access' /\ location'[r] = i} = w.listing
  BY <1>1, <1>6, <1>7
<1> QED BY <1>8 DEF u, i, w

LEMMA CommitSpares ==
  ASSUME AccessInv, NEW q \in Requests, CommitSync(q), ~work[q].overtaken,
         NEW p \in access \ access'
  PROVE  p[1] = User(q) \/ location'[p[2]] # location[p[2]]
<1> DEFINE w == work[q]
           i == Target(q)
<1>1. CleanOK(w, User(q), i, location, access) /\ w.step = "leaving"
      /\ access \subseteq Accounts \X Repositories
  BY CommitFacts
<1>2. \A r \in Repositories : location'[r] = IF r \in w.moved THEN i ELSE location[r]
  BY CommitFacts
<1>3. PICK a \in Accounts, r \in Repositories : p = <<a, r>>
  BY <1>1
<1>4. <<a, r>> \in w.lost \/ (a = User(q) /\ r \in w.leaving)
  <2>1. <<a, r>> \in access /\ <<a, r>> \notin access'
    BY <1>3
  <2> QED BY <2>1, CommitFacts
<1> HIDE DEF w, i
<1>5. <<a, r>> \in w.lost => r \in w.moved /\ location[r] # i
  BY <1>1 DEF CleanOK
<1> QED BY <1>2, <1>3, <1>4, <1>5

\* A sync that nobody overtakes leaves its user with what GitHub listed, and takes access
\* from others only with a repository that it moves, for any repositories and whatever
\* other requests are at.
THEOREM Exact == AccessSpec => SyncExact
<1>1. AccessInv /\ [AccessNext]_accessVars =>
        [\A q \in Requests : CommitSync(q) /\ ~work[q].overtaken =>
           /\ {r \in Repositories : <<User(q), r>> \in access' /\ location'[r] = Target(q)}
                = work[q].listing
           /\ \A p \in access \ access' :
                p[1] = User(q) \/ location'[p[2]] # location[p[2]]]_accessVars
  BY CommitExact, CommitSpares
<1> QED BY <1>1, AccessAlways, PTL DEF AccessSpec, SyncExact
=============================================================================
