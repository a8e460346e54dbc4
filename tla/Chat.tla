-------------------------------- MODULE Chat --------------------------------
(***************************************************************************)
(* A conversation about a repository: the page and the session store of    *)
(* the browser (features/chat, lib/api-client.ts), and the stream of the   *)
(* chat endpoint (api/routes/chat.py) with the history that it keeps       *)
(* (services/chat.py).  A page that is left keeps no state, its stream     *)
(* runs on, and the session store gives the next page what it had shown.   *)
(* Retrieval models how the sources are found.  A text is the sequence of  *)
(* its pieces, each named by the turn it was produced for.                 *)
(***************************************************************************)
EXTENDS Naturals, Sequences, FiniteSets, FiniteSetsExt, Lists

CONSTANTS
  MaxTurns,        \* bound on the questions
  QuestionChars,   \* lengths of a question
  MaxPieces,       \* bound on the deltas of an answer
  RecentMessages,  \* messages the page sends along: 12
  MaxContent,      \* HistoryMessage.content: 20 000 characters
  HistoryMessages, \* chat_history_max_messages
  HistoryChars     \* chat_prompt_max_chars // 3

ASSUME ChatAssumption ==
  /\ MaxTurns \in Nat /\ QuestionChars \subseteq Nat \ {0} /\ MaxPieces \in Nat
  /\ RecentMessages \in Nat /\ MaxContent \in Nat
  /\ HistoryMessages \in Nat /\ HistoryChars \in Nat

VARIABLES
  page,      \* "open" or "away"
  messages,  \* what the page shows
  session,   \* the store's messages of the repository
  asked,     \* questions so far; a question's number is its turn
  streaming, \* the turn the composer waits for; 0: none
  listening, \* turns whose page is still there
  reply,     \* reply[t]: where the endpoint is with question t
  said,      \* deltas of its answer
  received,  \* received[t]: the history in the request
  kept,      \* kept[t]: the turns that were put in the prompt
  wire,      \* wire[t]: events the page's reader has not read
  abandoned  \* history: turns during which the page was left

chatVars == <<page, messages, session, asked, streaming, listening, reply, said, received,
              kept, wire, abandoned>>

Turns   == 1 .. MaxTurns
Message == [role: {"user", "assistant"}, turn: Turns, text: Seq(Turns), error: BOOLEAN]

ChatTypeOK ==
  /\ page \in {"open", "away"}
  /\ messages \in Seq(Message) /\ session \in Seq(Message)
  /\ asked \in 0 .. MaxTurns /\ streaming \in 0 .. MaxTurns
  /\ listening \subseteq Turns
  /\ reply \in [Turns -> {"none", "asked", "grounded", "empty", "done", "failed"}]
  /\ said \in [Turns -> 0 .. MaxPieces]
  /\ received \in [Turns -> Seq(Message)]
  /\ kept \in [Turns -> Seq(Message \X Message)]
  /\ wire \in [Turns -> Seq({"sources", "delta", "end", "error"})]
  /\ abandoned \subseteq Turns

ChatInit ==
  /\ page = "open" /\ messages = <<>> /\ session = <<>>
  /\ asked = 0 /\ streaming = 0 /\ listening = {} /\ abandoned = {}
  /\ reply = [t \in Turns |-> "none"]
  /\ said = [t \in Turns |-> 0]
  /\ received = [t \in Turns |-> <<>>]
  /\ kept = [t \in Turns |-> <<>>]
  /\ wire = [t \in Turns |-> <<>>]

-----------------------------------------------------------------------------
(* The page                                                                *)

\* The effect that follows every change of the messages.
Store(shown) == Pick(shown, {i \in DOMAIN shown : ~shown[i].error})

Show(shown) == messages' = shown /\ session' = Store(shown)

Latest(s, n) == SubSeq(s, IF Len(s) > n THEN Len(s) - n + 1 ELSE 1, Len(s))

\* What is sent along: the latest messages that are not errors and have a text.
Recent(shown) ==
  Latest(Pick(shown, {i \in DOMAIN shown : ~shown[i].error /\ shown[i].text # <<>>}),
         RecentMessages)

\* Mutant of CanAsk: the composer is not disabled while an answer is streamed.
CanAskAlways == page = "open" /\ asked < MaxTurns

CanAsk == page = "open" /\ streaming = 0 /\ asked < MaxTurns

Question(t, chars) ==
  [role |-> "user", turn |-> t, text |-> [i \in 1 .. chars |-> t], error |-> FALSE]

NoAnswer(t) == [role |-> "assistant", turn |-> t, text |-> <<>>, error |-> FALSE]

Ask(chars) ==
  LET t == asked + 1 IN
  /\ CanAsk
  /\ asked' = t
  /\ streaming' = t
  /\ listening' = listening \union {t}
  /\ Show(messages \o <<Question(t, chars), NoAnswer(t)>>)
  /\ received' = [received EXCEPT ![t] = Recent(messages)]
  /\ reply' = [reply EXCEPT ![t] = "asked"]
  /\ UNCHANGED <<page, said, kept, wire, abandoned>>

\* streamChat reads an event; onDelta, and the catch and finally of submit, change
\* the last message of the page that asked, which is no longer there when it was left.
Read(t) ==
  LET event  == Head(wire[t])
      at     == Len(messages)
      answer == messages[at]
  IN
  /\ wire[t] # <<>>
  /\ wire' = [wire EXCEPT ![t] = Tail(@)]
  /\ IF t \notin listening
     THEN UNCHANGED <<messages, session, streaming>>
     ELSE \/ /\ event = "sources"
             /\ UNCHANGED <<messages, session, streaming>>
          \/ /\ event = "delta"
             /\ Show([messages EXCEPT ![at].text = Append(@, t)])
             /\ UNCHANGED streaming
          \/ /\ event = "end"
             /\ streaming' = 0
             /\ UNCHANGED <<messages, session>>
          \/ /\ event = "error"
             /\ Show([messages EXCEPT ![at].error = TRUE])
             /\ streaming' = 0
  /\ UNCHANGED <<page, asked, listening, reply, said, received, kept, abandoned>>

\* Nobody aborts the stream.
Leave ==
  /\ page = "open"
  /\ page' = "away"
  /\ messages' = <<>>
  /\ streaming' = 0
  /\ listening' = {}
  /\ abandoned' = abandoned \union ({streaming} \ {0})
  /\ UNCHANGED <<session, asked, reply, said, received, kept, wire>>

Return ==
  /\ page = "away"
  /\ page' = "open"
  /\ Show(session)
  /\ UNCHANGED <<asked, streaming, listening, reply, said, received, kept, wire, abandoned>>

\* Clean Chat is disabled while an answer is streamed.
CleanChat ==
  /\ page = "open" /\ streaming = 0 /\ messages # <<>>
  /\ Show(<<>>)
  /\ UNCHANGED <<page, asked, streaming, listening, reply, said, received, kept, wire, abandoned>>

-----------------------------------------------------------------------------
(* The endpoint                                                            *)

\* Mutant of Pairs: whatever follows a question is its answer.
PairsAnyRole(history) ==
  LET starts == {i \in 1 .. Len(history) - 1 : history[i].role = "user"}
      order  == Ascending(starts)
  IN  [n \in DOMAIN order |-> <<history[order[n]], history[order[n] + 1]>>]

\* The pairs of bounded_history: a question and the message right after it.
Pairs(history) ==
  LET starts == {i \in 1 .. Len(history) - 1 : /\ history[i].role = "user"
                                               /\ history[i + 1].role = "assistant"}
      order  == Ascending(starts)
  IN  [n \in DOMAIN order |-> <<history[order[n]], history[order[n] + 1]>>]

PairChars(pairs) ==
  SumOver([n \in DOMAIN pairs |-> Len(pairs[n][1].text) + Len(pairs[n][2].text)], DOMAIN pairs)

\* The newest of them, up to the first that is over a limit.
BoundedHistory(history) ==
  LET pairs == Pairs(history)
      Fits(n) == 2 * n <= HistoryMessages /\ PairChars(Latest(pairs, n)) <= HistoryChars
  IN  Latest(pairs, Max({n \in 0 .. Len(pairs) : \A k \in 0 .. n : Fits(k)}))

Send(t, events) == wire' = [wire EXCEPT ![t] = @ \o events]

\* A request whose history has a message that is too long is refused; retrieval
\* fails, or finds sources or none.  The first event is theirs.
Prepare(t) ==
  LET tooLong == \E i \in DOMAIN received[t] : Len(received[t][i].text) > MaxContent IN
  /\ reply[t] = "asked"
  /\ \/ /\ reply' = [reply EXCEPT ![t] = "failed"]
        /\ Send(t, <<"error">>)
        /\ UNCHANGED kept
     \/ /\ ~tooLong
        /\ \E found \in {"grounded", "empty"} : reply' = [reply EXCEPT ![t] = found]
        /\ kept' = [kept EXCEPT ![t] = BoundedHistory(received[t])]
        /\ Send(t, <<"sources">>)
  /\ received' = [received EXCEPT ![t] = <<>>]
  /\ UNCHANGED <<page, messages, session, asked, streaming, listening, said, abandoned>>

\* Without sources the answer is said without a model.
Abstain(t) ==
  /\ reply[t] = "empty"
  /\ reply' = [reply EXCEPT ![t] = "done"]
  /\ kept' = [kept EXCEPT ![t] = <<>>]
  /\ Send(t, <<"delta", "end">>)
  /\ UNCHANGED <<page, messages, session, asked, streaming, listening, said, received, abandoned>>

\* The model says something, ends, or fails; so does the connection.
Generate(t) ==
  /\ reply[t] = "grounded"
  /\ \/ /\ said[t] < MaxPieces
        /\ said' = [said EXCEPT ![t] = @ + 1]
        /\ Send(t, <<"delta">>)
        /\ UNCHANGED <<reply, kept>>
     \/ /\ \/ reply' = [reply EXCEPT ![t] = "done"] /\ Send(t, <<"end">>)
           \/ reply' = [reply EXCEPT ![t] = "failed"] /\ Send(t, <<"error">>)
        /\ said' = [said EXCEPT ![t] = 0]
        /\ kept' = [kept EXCEPT ![t] = <<>>]
  /\ UNCHANGED <<page, messages, session, asked, streaming, listening, received, abandoned>>

ChatNext ==
  \/ \E chars \in QuestionChars : Ask(chars)
  \/ \E t \in Turns : Read(t) \/ Prepare(t) \/ Abstain(t) \/ Generate(t)
  \/ Leave \/ Return \/ CleanChat

ChatSpec == ChatInit /\ [][ChatNext]_chatVars

-----------------------------------------------------------------------------
\* "the server retains only the newest complete turns" (docs/architecture/
\* repository-chat.md:33-34): the history in a prompt is questions with the answers
\* to them, in their order, whatever failed, was cut off or was cleaned in between;
\* an answer that failed is not in it unless its page had been left.
HistoryTurns ==
  \A t \in Turns : \A i \in DOMAIN kept[t] :
    LET question == kept[t][i][1]
        answer   == kept[t][i][2]
    IN
    /\ question.role = "user" /\ answer.role = "assistant"
    /\ question.turn = answer.turn /\ answer.turn < t
    /\ i > 1 => kept[t][i - 1][2].turn < answer.turn
    /\ reply[answer.turn] = "failed" => answer.turn \in abandoned

\* What a stream says ends up in the answer to its own question, also when the page
\* is left, opened again and asked something else while the stream runs on.
AnswersUnmixed ==
  \A shown \in {messages, session} : \A i \in DOMAIN shown :
    \A n \in DOMAIN shown[i].text : shown[i].text[n] = shown[i].turn
=============================================================================
