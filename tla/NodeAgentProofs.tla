--------------------------- MODULE NodeAgentProofs ---------------------------
(***************************************************************************)
(* NodeAgent implements Enrolment: for every number of operations, faults, *)
(* identities and tokens, each step of the agent, of the control plane or  *)
(* of an operator is a step of the abstract installation, or none.         *)
(***************************************************************************)
EXTENDS NodeAgent, TLAPS

AnswerType == [verdict: Answers] \cup [verdict: {"ok"}, credential: Credentials]

-----------------------------------------------------------------------------
(* Type correctness. *)

LEMMA TypeInit == Init => TypeOK
BY BoundsAssumption DEF Init, TypeOK, NoAnswer, Statuses, Steps, Answers

\* Bounds are natural numbers, and what is drawn next is within its bound.
LEMMA Bounds ==
  ASSUME TypeOK
  PROVE  /\ MaxDrawn \in Nat /\ MaxActs \in Nat /\ MaxFaults \in Nat
         /\ drawn < MaxDrawn => drawn + 1 \in 0 .. MaxDrawn /\ drawn + 1 \in 1 .. MaxDrawn
         /\ acts < MaxActs => acts + 1 \in 0 .. MaxActs
         /\ faults < MaxFaults => faults + 1 \in 0 .. MaxFaults
BY BoundsAssumption DEF TypeOK

LEMMA NoAnswerType == NoAnswer \in AnswerType /\ NoAnswer.verdict = "none"
BY DEF NoAnswer, AnswerType, Answers

\* A verdict without a credential is an answer.
LEMMA VerdictType ==
  ASSUME NEW v \in Answers
  PROVE  [verdict |-> v] \in AnswerType /\ [verdict |-> v].verdict = v
BY DEF AnswerType

\* What Reply does to the wire, the process and the count of faults.
LEMMA ReplyType ==
  ASSUME TypeOK, NEW request \in wire, NEW reply \in AnswerType, Reply(request, reply)
  PROVE  /\ wire' = wire \ {request}
         /\ wire' \subseteq Requests
         /\ answer' \in AnswerType
         /\ faults' \in 0 .. MaxFaults
BY Bounds, VerdictType DEF Reply, Fault, TypeOK, AnswerType, Answers

\* A heartbeat that is handled gets one of five verdicts.
LEMMA VerdictRange ==
  ASSUME NEW request
  PROVE  Verdict(request) \in {"ok", "revoked", "unauthenticated", "forbidden"}
BY DEF Verdict

\* A question the agent may ask joins the wire.
LEMMA AskType ==
  ASSUME TypeOK, NEW ask \in Asks, Ask(ask)
  PROVE  wire' \subseteq Requests /\ answer' \in AnswerType
BY NoAnswerType DEF Ask, TypeOK, Requests

-----------------------------------------------------------------------------
(* The inductive invariant.  The abstract steps are decided by answers that *)
(* were given earlier: the agent adopts what an answer holds, and gives up  *)
(* its file on an answer to the credential in its memory.  So the invariant *)
(* ties the memory to the file, the one request of the running process to   *)
(* what it waits for, and an answer to what the control plane has done.     *)

\* What is in memory is in the file, and an agent that enrols has neither.
Remembered ==
  /\ memory # None => memory = file
  /\ step \in {"register", "save"} => file = None /\ memory = None
  /\ step \in {"heartbeat", "wait"} => memory # None

\* The running process has at most one request on the wire, the one it waits for; what is
\* left of processes that died is never taken for its own.
Asked ==
  /\ \A q \in wire : q.life <= life
  /\ \A q \in wire : q.life = life =>
       /\ answer = NoAnswer
       /\ \/ step = "register" /\ q.ask.kind = "register"
          \/ step = "wait" /\ q.ask.kind = "heartbeat" /\ q.ask.credential = memory
  /\ \A p, q \in wire : p.life = life /\ q.life = life => p = q
  /\ answer # NoAnswer => step \in {"register", "save", "wait"}

\* An answer that counts stands for what the control plane has done.
Answered ==
  /\ step = "register" /\ answer.verdict = "ok" => answer.credential \in issued
  /\ step = "save" => answer.credential \in issued
  /\ step = "wait" /\ answer.verdict = "unauthenticated" => memory \in refused

\* A token is new when it is drawn.
Numbered == \A c \in issued : c.token <= drawn

Inv == TypeOK /\ Remembered /\ Asked /\ Answered /\ Numbered

LEMMA InvInit == Init => Inv
BY TypeInit DEF Init, Inv, Remembered, Asked, Answered, Numbered, NoAnswer

LEMMA TypeNext == TypeOK /\ Remembered /\ Answered /\ [Next]_vars => TypeOK'
<1> SUFFICES ASSUME TypeOK, Remembered, Answered, [Next]_vars PROVE TypeOK'
  OBVIOUS
<1> USE DEF configured, agent, history
<1>0. answer \in AnswerType
  BY DEF TypeOK, AnswerType
<1>1. CASE Start
  BY <1>1 DEF Start, TypeOK, Statuses, Steps
<1>2. CASE UseCredential
  BY <1>2 DEF UseCredential, TypeOK, Statuses, Steps
<1>3. CASE RegisterIfNeeded
  <2>1. CASE ~endpoint /\ Fail /\ UNCHANGED <<wire, answer, drawn>>
    BY <1>3, <2>1 DEF RegisterIfNeeded, Fail, TypeOK, Statuses, Steps
  <2>2. CASE /\ step' = "register" /\ UNCHANGED status
             /\ Ask([kind |-> "register", id |-> StableNodeId])
             /\ pinned \/ drawn < MaxDrawn
             /\ drawn' = IF pinned THEN drawn ELSE drawn + 1
    <3>1. StableNodeId \in Identities /\ drawn' \in 0 .. MaxDrawn
      BY <2>2, Bounds DEF StableNodeId, PinnedId, Identities, TypeOK
    <3>2. [kind |-> "register", id |-> StableNodeId] \in Asks
      BY <3>1 DEF Asks
    <3>3. wire' \subseteq Requests /\ answer' \in AnswerType
      BY <2>2, <3>2, AskType
    <3> QED
      BY <1>3, <2>2, <3>1, <3>3 DEF RegisterIfNeeded, TypeOK, Steps, AnswerType
  <2> QED
    BY <1>3, <2>1, <2>2 DEF RegisterIfNeeded
<1>4. CASE Registered
  BY <1>4, NoAnswerType DEF Registered, Fail, TypeOK, Statuses, Steps, AnswerType

<1>5. CASE SaveCredentials
  <2>1. answer.credential \in Credentials /\ answer' \in AnswerType
    BY <1>5, NoAnswerType DEF SaveCredentials, Answered, TypeOK
  <2>2. file' \in Credentials \cup {None} /\ memory' \in Credentials \cup {None}
    BY <1>5, <2>1 DEF SaveCredentials, TypeOK
  <2>3. status' \in Statuses /\ step' \in Steps /\ faults' \in 0 .. MaxFaults
    BY <1>5, Bounds DEF SaveCredentials, Fault, Fail, Statuses, Steps, TypeOK
  <2> QED
    BY <1>5, <2>1, <2>2, <2>3 DEF SaveCredentials, TypeOK, AnswerType
<1>6. CASE SendHeartbeat
  <2>1. PICK skewed \in BOOLEAN :
           Ask([kind |-> "heartbeat", credential |-> memory, skewed |-> skewed])
    BY <1>6 DEF SendHeartbeat
  <2>2. faults' \in 0 .. MaxFaults
    BY <1>6, Bounds DEF SendHeartbeat, Fault, TypeOK
  <2>3. memory \in Credentials
    BY <1>6 DEF SendHeartbeat, Remembered, TypeOK
  <2>4. [kind |-> "heartbeat", credential |-> memory, skewed |-> skewed] \in Asks
    BY <2>3 DEF Asks
  <2>5. wire' \subseteq Requests /\ answer' \in AnswerType
    BY <2>1, <2>4, AskType
  <2> QED
    BY <1>6, <2>2, <2>5 DEF SendHeartbeat, TypeOK, Statuses, Steps, AnswerType
<1>7. CASE HeartbeatAnswered
  <2>1. answer' \in AnswerType /\ faults' \in 0 .. MaxFaults
    BY <1>7, NoAnswerType, Bounds DEF HeartbeatAnswered, Fault, TypeOK
  <2>2. status' \in Statuses /\ step' \in Steps
    BY <1>7 DEF HeartbeatAnswered, Fail, Statuses, Steps
  <2>3. memory' \in Credentials \cup {None} /\ file' \in Credentials \cup {None}
    BY <1>7 DEF HeartbeatAnswered, TypeOK
  <2> QED
    BY <1>7, <2>1, <2>2, <2>3 DEF HeartbeatAnswered, TypeOK, AnswerType
<1>8. CASE Wake
  BY <1>8 DEF Wake, TypeOK, Steps
<1>9. CASE Crash
  <2>1. faults' \in 0 .. MaxFaults /\ answer' \in AnswerType
    BY <1>9, Bounds, NoAnswerType DEF Crash, Fault
  <2> QED
    BY <1>9, <2>1 DEF Crash, TypeOK, Statuses, Steps, AnswerType
<1>10. ASSUME NEW request \in wire, HandleRegister(request) PROVE TypeOK'
  <2> DEFINE c == [id |-> request.ask.id, token |-> drawn + 1]
  <2>1. request.ask.id \in Identities
    BY <1>10 DEF HandleRegister, TypeOK, Requests, Asks
  <2>2. CASE Reply(request, [verdict |-> "revoked"]) /\ UNCHANGED <<node, drawn, issued>>
    <3>1. /\ wire' \subseteq Requests /\ answer' \in AnswerType /\ faults' \in 0 .. MaxFaults
      BY <2>2, ReplyType, VerdictType DEF Answers
    <3> QED
      BY <1>10, <2>2, <3>1 DEF HandleRegister, TypeOK, AnswerType
  <2>3. CASE /\ drawn < MaxDrawn
             /\ drawn' = drawn + 1 /\ issued' = issued \cup {c}
             /\ DOMAIN node' = DOMAIN node \cup {request.ask.id}
             /\ Reply(request, [verdict |-> "ok", credential |-> c])
    <3>1. c \in Credentials /\ drawn' \in 0 .. MaxDrawn
      BY <2>1, <2>3, Bounds DEF Credentials
    <3>2. [verdict |-> "ok", credential |-> c] \in AnswerType
      BY <3>1 DEF AnswerType
    <3>3. /\ wire' \subseteq Requests /\ answer' \in AnswerType /\ faults' \in 0 .. MaxFaults
      BY <2>3, <3>2, ReplyType
    <3> QED
      BY <1>10, <2>1, <2>3, <3>1, <3>3 DEF HandleRegister, TypeOK, AnswerType
  <2> QED
    BY <1>10, <2>2, <2>3 DEF HandleRegister
<1>11. ASSUME NEW request \in wire, HandleHeartbeat(request) PROVE TypeOK'
  <2>1. request.ask.credential \in Credentials
    BY <1>11 DEF HandleHeartbeat, TypeOK, Requests, Asks
  <2>2. [verdict |-> Verdict(request.ask)] \in AnswerType
    BY VerdictRange, VerdictType DEF Answers
  <2>3. /\ wire' \subseteq Requests /\ answer' \in AnswerType /\ faults' \in 0 .. MaxFaults
    BY <1>11, <2>2, ReplyType DEF HandleHeartbeat
  <2>4. DOMAIN node' = DOMAIN node /\ refused' \subseteq Credentials
    BY <1>11, <2>1 DEF HandleHeartbeat, TypeOK
  <2> QED
    BY <1>11, <2>3, <2>4 DEF HandleHeartbeat, TypeOK, AnswerType
<1>12. ASSUME NEW request \in wire, Lose(request) PROVE TypeOK'
  <2>1. answer' \in AnswerType /\ faults' \in 0 .. MaxFaults
    BY <1>0, <1>12, VerdictType, Bounds DEF Lose, Fault, Answers
  <2> QED
    BY <1>12, <2>1 DEF Lose, TypeOK, AnswerType
<1>13. ASSUME NEW id \in DOMAIN node, Operate(id) PROVE TypeOK'
  <2>1. acts' \in 0 .. MaxActs /\ drawn' \in 0 .. MaxDrawn
    BY <1>13, Bounds DEF Operate, Act, TypeOK
  <2>2. DOMAIN node' \subseteq DOMAIN node
    BY <1>13 DEF Operate
  <2> QED
    BY <1>13, <2>1, <2>2 DEF Operate, TypeOK
<1>14. CASE UNCHANGED vars
  BY <1>14 DEF vars, TypeOK
<1> QED
  BY <1>1, <1>2, <1>3, <1>4, <1>5, <1>6, <1>7, <1>8, <1>9, <1>10, <1>11, <1>12, <1>13, <1>14
     DEF Next, Agent, Handle

-----------------------------------------------------------------------------
(* Each part of the invariant is kept by every step. *)

\* A question is the only one of its process, and has no answer yet.
LEMMA AskAlone ==
  ASSUME TypeOK, Asked, step \notin {"register", "wait"}, NEW ask, Ask(ask)
  PROVE  /\ answer' = NoAnswer
         /\ wire' = wire \cup {[life |-> life, ask |-> ask]}
         /\ \A q \in wire : q.life < life
<1>1. \A q \in wire : q.life \in Nat /\ life \in Nat
  BY DEF TypeOK, Requests
<1> QED
  BY <1>1 DEF Ask, Asked

\* An answer reaches the running process only for the one request it has sent, which was
\* waiting without one.
LEMMA ReplyAnswers ==
  ASSUME Asked, NEW request \in wire, NEW reply, Reply(request, reply)
  PROVE  /\ wire' = wire \ {request}
         /\ \/ answer' = answer
            \/ /\ answer' \in {reply, [verdict |-> "lost"]}
               /\ request.life = life /\ step \in {"register", "wait"}
               /\ \A q \in wire' : q.life # life
BY DEF Reply, Awaited, Asked

LEMMA RememberedNext == TypeOK /\ Remembered /\ Answered /\ [Next]_vars => Remembered'
<1> SUFFICES ASSUME TypeOK, Remembered, Answered, [Next]_vars PROVE Remembered'
  OBVIOUS
<1> USE DEF configured, agent, history, Remembered
<1>1. CASE Start
  BY <1>1 DEF Start
<1>2. CASE UseCredential
  BY <1>2 DEF UseCredential
<1>3. CASE RegisterIfNeeded
  BY <1>3 DEF RegisterIfNeeded, Fail
<1>4. CASE Registered
  BY <1>4 DEF Registered, Fail
<1>5. CASE SaveCredentials
  <2>1. answer.credential # None
    BY <1>5, NoneAssumption DEF SaveCredentials, Answered, TypeOK
  <2> QED
    BY <1>5, <2>1 DEF SaveCredentials, Fail
<1>6. CASE SendHeartbeat
  BY <1>6 DEF SendHeartbeat
<1>7. CASE HeartbeatAnswered
  BY <1>7 DEF HeartbeatAnswered, Fail
<1>8. CASE Wake
  BY <1>8 DEF Wake
<1>9. CASE Crash
  BY <1>9 DEF Crash
<1>10. ASSUME NEW request \in wire, HandleRegister(request) PROVE Remembered'
  BY <1>10 DEF HandleRegister
<1>11. ASSUME NEW request \in wire, HandleHeartbeat(request) PROVE Remembered'
  BY <1>11 DEF HandleHeartbeat
<1>12. ASSUME NEW request \in wire, Lose(request) PROVE Remembered'
  BY <1>12 DEF Lose
<1>13. ASSUME NEW id \in DOMAIN node, Operate(id) PROVE Remembered'
  BY <1>13 DEF Operate
<1>14. CASE UNCHANGED vars
  BY <1>14 DEF vars
<1> QED
  BY <1>1, <1>2, <1>3, <1>4, <1>5, <1>6, <1>7, <1>8, <1>9, <1>10, <1>11, <1>12, <1>13, <1>14
     DEF Next, Agent, Handle

LEMMA AskedNext == TypeOK /\ Remembered /\ Asked /\ [Next]_vars => Asked'
<1> SUFFICES ASSUME TypeOK, Remembered, Asked, [Next]_vars PROVE Asked'
  OBVIOUS
<1> USE DEF configured, agent, history
<1>0. life \in Nat /\ \A q \in wire : q.life \in Nat
  BY DEF TypeOK, Requests
<1>1. CASE Start
  BY <1>1 DEF Start, Asked
<1>2. CASE UseCredential
  BY <1>2 DEF UseCredential, Asked
<1>3. CASE RegisterIfNeeded
  <2>1. CASE ~endpoint /\ Fail /\ UNCHANGED <<wire, answer, drawn>>
    BY <1>3, <2>1 DEF RegisterIfNeeded, Fail, Asked
  <2>2. CASE step' = "register" /\ Ask([kind |-> "register", id |-> StableNodeId])
    <3> DEFINE ask == [kind |-> "register", id |-> StableNodeId]
    <3>1. /\ answer' = NoAnswer /\ wire' = wire \cup {[life |-> life, ask |-> ask]}
          /\ \A q \in wire : q.life < life
      BY <1>3, <2>2, AskAlone DEF RegisterIfNeeded
    <3>2. ask.kind = "register"
      OBVIOUS
    <3> HIDE DEF ask
    <3> QED
      BY <1>0, <1>3, <2>2, <3>1, <3>2 DEF RegisterIfNeeded, Asked
  <2> QED
    BY <1>3, <2>1, <2>2 DEF RegisterIfNeeded
<1>4. CASE Registered
  BY <1>4 DEF Registered, Fail, Asked
<1>5. CASE SaveCredentials
  BY <1>5 DEF SaveCredentials, Fail, Asked
<1>6. CASE SendHeartbeat
  <2>1. PICK skewed \in BOOLEAN :
           Ask([kind |-> "heartbeat", credential |-> memory, skewed |-> skewed])
    BY <1>6 DEF SendHeartbeat
  <2> DEFINE ask == [kind |-> "heartbeat", credential |-> memory, skewed |-> skewed]
  <2>2. /\ answer' = NoAnswer /\ wire' = wire \cup {[life |-> life, ask |-> ask]}
        /\ \A q \in wire : q.life < life
    BY <1>6, <2>1, AskAlone DEF SendHeartbeat
  <2>3. ask.kind = "heartbeat" /\ ask.credential = memory
    OBVIOUS
  <2> HIDE DEF ask
  <2> QED
    BY <1>0, <1>6, <2>2, <2>3 DEF SendHeartbeat, Asked
<1>7. CASE HeartbeatAnswered
  BY <1>7 DEF HeartbeatAnswered, Fail, Asked
<1>8. CASE Wake
  BY <1>8 DEF Wake, Asked
<1>9. CASE Crash
  BY <1>0, <1>9 DEF Crash, Asked
<1>10. ASSUME NEW request \in wire, HandleRegister(request) PROVE Asked'
  <2>1. PICK reply : Reply(request, reply)
    BY <1>10 DEF HandleRegister
  <2> QED
    BY <1>10, <2>1, ReplyAnswers DEF HandleRegister, Asked
<1>11. ASSUME NEW request \in wire, HandleHeartbeat(request) PROVE Asked'
  <2>1. PICK reply : Reply(request, reply)
    BY <1>11 DEF HandleHeartbeat
  <2> QED
    BY <1>11, <2>1, ReplyAnswers DEF HandleHeartbeat, Asked
<1>12. ASSUME NEW request \in wire, Lose(request) PROVE Asked'
  BY <1>12 DEF Lose, Awaited, Asked
<1>13. ASSUME NEW id \in DOMAIN node, Operate(id) PROVE Asked'
  BY <1>13 DEF Operate, Asked
<1>14. CASE UNCHANGED vars
  BY <1>14 DEF vars, Asked
<1> QED
  BY <1>1, <1>2, <1>3, <1>4, <1>5, <1>6, <1>7, <1>8, <1>9, <1>10, <1>11, <1>12, <1>13, <1>14
     DEF Next, Agent, Handle

LEMMA AnsweredNext == TypeOK /\ Asked /\ Answered /\ [Next]_vars => Answered'
<1> SUFFICES ASSUME TypeOK, Asked, Answered, [Next]_vars PROVE Answered'
  OBVIOUS
<1> USE DEF configured, agent, history
<1>0. /\ NoAnswer.verdict = "none"
      /\ [verdict |-> "lost"].verdict = "lost"
  BY NoAnswerType
<1>1. CASE Start
  BY <1>1 DEF Start, Answered
<1>2. CASE UseCredential
  BY <1>2 DEF UseCredential, Answered
<1>3. CASE RegisterIfNeeded
  BY <1>0, <1>3 DEF RegisterIfNeeded, Fail, Ask, Answered
<1>4. CASE Registered
  BY <1>4 DEF Registered, Fail, Answered
<1>5. CASE SaveCredentials
  BY <1>5 DEF SaveCredentials, Fail, Answered
<1>6. CASE SendHeartbeat
  BY <1>0, <1>6 DEF SendHeartbeat, Ask, Answered
<1>7. CASE HeartbeatAnswered
  BY <1>7 DEF HeartbeatAnswered, Fail, Answered
<1>8. CASE Wake
  BY <1>8 DEF Wake, Answered
<1>9. CASE Crash
  BY <1>9 DEF Crash, Answered
<1>10. ASSUME NEW request \in wire, HandleRegister(request) PROVE Answered'
  <2> DEFINE c == [id |-> request.ask.id, token |-> drawn + 1]
  <2>0. /\ [verdict |-> "revoked"].verdict = "revoked"
        /\ [verdict |-> "ok", credential |-> c].verdict = "ok"
        /\ [verdict |-> "ok", credential |-> c].credential = c
    OBVIOUS
  <2>1. request.life = life /\ step \in {"register", "wait"} => step = "register"
    BY <1>10 DEF HandleRegister, Asked
  <2>2. CASE Reply(request, [verdict |-> "revoked"]) /\ UNCHANGED <<node, drawn, issued>>
    <3>1. \/ answer' = answer
          \/ answer' \in {[verdict |-> "revoked"], [verdict |-> "lost"]} /\ step = "register"
      BY <2>1, <2>2, ReplyAnswers
    <3> QED
      BY <1>0, <1>10, <2>0, <2>2, <3>1 DEF HandleRegister, Answered
  <2>3. CASE issued' = issued \cup {c} /\ Reply(request, [verdict |-> "ok", credential |-> c])
    <3>1. \/ answer' = answer
          \/ answer' \in {[verdict |-> "ok", credential |-> c], [verdict |-> "lost"]} /\ step = "register"
      BY <2>1, <2>3, ReplyAnswers
    <3> HIDE DEF c
    <3> QED
      BY <1>0, <1>10, <2>0, <2>3, <3>1 DEF HandleRegister, Answered
  <2> QED
    BY <1>10, <2>2, <2>3 DEF HandleRegister
<1>11. ASSUME NEW request \in wire, HandleHeartbeat(request) PROVE Answered'
  <2> DEFINE verdict == Verdict(request.ask)
             reply == [verdict |-> verdict]
  <2>1. reply.verdict = verdict
    OBVIOUS
  <2>2. request.life = life /\ step \in {"register", "wait"} =>
          step = "wait" /\ request.ask.credential = memory
    BY <1>11 DEF HandleHeartbeat, Asked
  <2>3. \/ answer' = answer
        \/ /\ answer' \in {reply, [verdict |-> "lost"]}
           /\ step = "wait" /\ request.ask.credential = memory
    BY <1>11, <2>2, ReplyAnswers DEF HandleHeartbeat
  <2>4. refused \subseteq refused' /\ (verdict = "unauthenticated" => request.ask.credential \in refused')
    BY <1>11 DEF HandleHeartbeat
  <2> HIDE DEF verdict, reply
  <2> QED
    BY <1>0, <1>11, <2>1, <2>3, <2>4 DEF HandleHeartbeat, Answered
<1>12. ASSUME NEW request \in wire, Lose(request) PROVE Answered'
  <2>1. answer' = answer \/ answer'.verdict = "lost"
    BY <1>12, <1>0 DEF Lose
  <2>2. UNCHANGED <<step, memory, issued, refused>>
    BY <1>12 DEF Lose
  <2>3. CASE step = "save"
    \* An answer that is being written is not the answer to a request that is lost.
    <3>1. answer' = answer
      BY <1>12, <2>3 DEF Lose, Awaited
    <3> QED
      BY <2>2, <2>3, <3>1 DEF Answered
  <2> QED
    BY <2>1, <2>2, <2>3 DEF Answered
<1>13. ASSUME NEW id \in DOMAIN node, Operate(id) PROVE Answered'
  BY <1>13 DEF Operate, Answered
<1>14. CASE UNCHANGED vars
  BY <1>14 DEF vars, Answered
<1> QED
  BY <1>1, <1>2, <1>3, <1>4, <1>5, <1>6, <1>7, <1>8, <1>9, <1>10, <1>11, <1>12, <1>13, <1>14
     DEF Next, Agent, Handle

\* Only an enrolment that succeeds issues a credential, and its token is the next number.
LEMMA IssuedNext ==
  ASSUME TypeOK, TypeOK', [Next]_vars
  PROVE  /\ drawn' >= drawn
         /\ \/ issued' = issued
            \/ /\ drawn' = drawn + 1
               /\ \E id \in Identities : issued' = issued \cup {[id |-> id, token |-> drawn + 1]}
<1> USE DEF configured, agent, history
<1>0. drawn \in Nat
  BY DEF TypeOK
<1>1. CASE Agent
  BY <1>0, <1>1 DEF Agent, Start, UseCredential, RegisterIfNeeded, Registered, SaveCredentials,
                    SendHeartbeat, HeartbeatAnswered, Wake
<1>2. CASE Crash
  BY <1>0, <1>2 DEF Crash
<1>3. ASSUME NEW request \in wire, HandleRegister(request)
      PROVE  /\ drawn' >= drawn
             /\ \/ issued' = issued
                \/ /\ drawn' = drawn + 1
                   /\ \E id \in Identities : issued' = issued \cup {[id |-> id, token |-> drawn + 1]}
  <2>1. request.ask.id \in Identities
    BY <1>3 DEF HandleRegister, TypeOK, Requests, Asks
  <2> QED
    BY <1>0, <1>3, <2>1 DEF HandleRegister
<1>4. ASSUME NEW request \in wire, HandleHeartbeat(request) PROVE UNCHANGED <<drawn, issued>>
  BY <1>4 DEF HandleHeartbeat
<1>5. ASSUME NEW request \in wire, Lose(request) PROVE UNCHANGED <<drawn, issued>>
  BY <1>5 DEF Lose
<1>6. ASSUME NEW id \in DOMAIN node, Operate(id) PROVE issued' = issued /\ drawn' >= drawn
  BY <1>0, <1>6 DEF Operate
<1>7. CASE UNCHANGED vars
  BY <1>0, <1>7 DEF vars
<1> QED
  BY <1>0, <1>1, <1>2, <1>3, <1>4, <1>5, <1>6, <1>7 DEF Next, Handle

LEMMA NumberedNext == TypeOK /\ TypeOK' /\ Numbered /\ [Next]_vars => Numbered'
<1> SUFFICES ASSUME TypeOK, TypeOK', Numbered, [Next]_vars PROVE Numbered'
  OBVIOUS
<1>1. drawn \in Nat /\ drawn' \in Nat
  BY DEF TypeOK
<1>2. \A c \in issued : c.token \in Nat
  BY DEF TypeOK, Credentials
<1> QED
  BY <1>1, <1>2, IssuedNext DEF Numbered

LEMMA InvNext == Inv /\ [Next]_vars => Inv'
BY TypeNext, RememberedNext, AskedNext, AnsweredNext, NumberedNext DEF Inv

\* The agent, its file and its requests have the kinds of state they should.
THEOREM TypeCorrect == Spec => []TypeOK
<1>1. Inv => TypeOK
  BY DEF Inv
<1> QED
  BY InvInit, InvNext, <1>1, PTL DEF Spec

-----------------------------------------------------------------------------
(* The refinement. *)

LEMMA PromiseInit == Init => Promise!Init
BY DEF Init, Promise!Init

\* A credential is issued by an enrolment, refused by a heartbeat, adopted when the file is
\* written and given up when the file is deleted; no other step is one of the promise.
LEMMA PromiseStep == Inv /\ [Next]_vars => [Promise!Next]_(Promise!vars)
<1> SUFFICES ASSUME Inv, [Next]_vars PROVE Promise!Next \/ UNCHANGED <<issued, refused, file>>
  BY DEF Promise!vars
<1> USE DEF configured, agent, history
<1>1. CASE Start
  BY <1>1 DEF Start
<1>2. CASE UseCredential
  BY <1>2 DEF UseCredential
<1>3. CASE RegisterIfNeeded
  BY <1>3 DEF RegisterIfNeeded
<1>4. CASE Registered
  BY <1>4 DEF Registered
<1>5. CASE SaveCredentials
  <2>1. file = None /\ answer.credential \in issued
    BY <1>5 DEF SaveCredentials, Inv, Remembered, Answered
  <2> QED
    BY <1>5, <2>1 DEF SaveCredentials, Promise!Next, Promise!Adopt
<1>6. CASE SendHeartbeat
  BY <1>6 DEF SendHeartbeat
<1>7. CASE HeartbeatAnswered
  <2>1. file' = file \/ (file' = None /\ answer.verdict = "unauthenticated")
    BY <1>7 DEF HeartbeatAnswered, Disowns
  <2>2. UNCHANGED <<issued, refused>> /\ step = "wait"
    BY <1>7 DEF HeartbeatAnswered
  <2>3. CASE answer.verdict = "unauthenticated"
    <3>1. file \in refused
      BY <2>2, <2>3 DEF Inv, Remembered, Answered
    <3> QED
      BY <2>1, <2>2, <3>1 DEF Promise!Next, Promise!GiveUp
  <2> QED
    BY <2>1, <2>2, <2>3
<1>8. CASE Wake
  BY <1>8 DEF Wake
<1>9. CASE Crash
  BY <1>9 DEF Crash
<1>10. ASSUME NEW request \in wire, HandleRegister(request)
       PROVE  Promise!Next \/ UNCHANGED <<issued, refused, file>>
  <2> DEFINE c == [id |-> request.ask.id, token |-> drawn + 1]
  <2>1. UNCHANGED <<refused, file>>
    BY <1>10 DEF HandleRegister
  <2>2. CASE UNCHANGED issued
    BY <2>1, <2>2
  <2>3. CASE issued' = issued \cup {c} /\ drawn < MaxDrawn
    <3>1. request.ask.id \in Identities
      BY <1>10 DEF HandleRegister, Inv, TypeOK, Requests, Asks
    <3>2. c \in Credentials
      BY <2>3, <3>1, Bounds DEF Credentials, Inv
    <3>3. c \notin issued
      <4>1. c.token = drawn + 1 /\ drawn \in Nat
        BY DEF Inv, TypeOK
      <4> QED
        BY <4>1 DEF Inv, Numbered
    <3> HIDE DEF c
    <3> QED
      BY <2>1, <2>3, <3>2, <3>3 DEF Promise!Next, Promise!Issue
  <2> QED
    BY <1>10, <2>2, <2>3 DEF HandleRegister
<1>11. ASSUME NEW request \in wire, HandleHeartbeat(request)
       PROVE  Promise!Next \/ UNCHANGED <<issued, refused, file>>
  <2>1. request.ask.credential \in Credentials
    BY <1>11 DEF HandleHeartbeat, Inv, TypeOK, Requests, Asks
  <2> QED
    BY <1>11, <2>1 DEF HandleHeartbeat, Promise!Next, Promise!Refuse
<1>12. ASSUME NEW request \in wire, Lose(request) PROVE UNCHANGED <<issued, refused, file>>
  BY <1>12 DEF Lose
<1>13. ASSUME NEW id \in DOMAIN node, Operate(id) PROVE UNCHANGED <<issued, refused, file>>
  BY <1>13 DEF Operate
<1>14. CASE UNCHANGED vars
  BY <1>14 DEF vars
<1> QED
  BY <1>1, <1>2, <1>3, <1>4, <1>5, <1>6, <1>7, <1>8, <1>9, <1>10, <1>11, <1>12, <1>13, <1>14
     DEF Next, Agent, Handle

\* The agent keeps the promise of its README: it adopts only a credential the control plane
\* issued to it, and gives one up only after that very one was refused.
THEOREM Keeps == Spec => KeepsItsPromise
BY InvInit, InvNext, PromiseInit, PromiseStep, PTL DEF Spec, KeepsItsPromise, Promise!Spec
=============================================================================
