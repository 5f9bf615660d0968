-------------------------- MODULE TelemetryProofs --------------------------
(***************************************************************************)
(* Theorems about Telemetry, for any number of events, batches, sending    *)
(* threads and concurrent requests, and any values of the limits.          *)
(***************************************************************************)
EXTENDS Telemetry, FiniteSetTheorems, TLAPS

USE DEF Events, Batches, client, sending, server, fate, world

PcType == {"idle", "arrived", "admitted", "ready", "answered"}
Replies == {"none", "ack", "later", "never"}

HandlersTyped ==
    /\ pc \in [Handlers -> PcType]
    /\ batch \in [Handlers -> Batches \cup {0}]
    /\ answer \in [Handlers -> Replies]
    /\ \A h \in Handlers : pc[h] # "idle" => batch[h] \in Batches

OthersKeep(h) ==
    \A g \in Handlers \ {h} :
        pc'[g] = pc[g] /\ batch'[g] = batch[g] /\ answer'[g] = answer[g]

\* An answer reaches the sender that waits for it, or nobody.
LEMMA AnswerEffect ==
    ASSUME HandlersTyped, NEW h \in Handlers, pc[h] # "idle",
           NEW reply \in Replies, Answer(h, reply)
    PROVE  /\ HandlersTyped' /\ OthersKeep(h)
           /\ \/ pc'[h] = "answered" /\ batch'[h] = batch[h] /\ answer'[h] = reply
              \/ pc'[h] = "idle" /\ batch'[h] = 0 /\ answer'[h] = "none"
<1>1. CASE \E s \in Senders : at[s] = h
      BY <1>1 DEF Answer, HandlersTyped, OthersKeep, PcType, Replies
<1>2. CASE ~ \E s \in Senders : at[s] = h
      BY <1>2 DEF Answer, HandlersTyped, OthersKeep, PcType, Replies
<1> QED BY <1>1, <1>2

LEMMA ProceedEffect ==
    ASSUME HandlersTyped, NEW h \in Handlers, pc[h] # "idle",
           NEW to \in PcType, Proceed(h, to)
    PROVE  /\ HandlersTyped' /\ OthersKeep(h)
           /\ pc'[h] = to /\ batch'[h] = batch[h] /\ answer'[h] = answer[h]
BY DEF Proceed, HandlersTyped, OthersKeep, PcType

LEMMA HandlersTypedFollows == TypeOK => HandlersTyped
BY DEF TypeOK, HandlersTyped, PcType, Replies

Insert(b) ==
    /\ ledger[b] = Nobody
    /\ times' \in [Events -> Nat]
    /\ \A e \in Events : times'[e] =
          IF e \in content[b] /\ ValidTs(e) THEN times[e] + 1 ELSE times[e]
    /\ ledger' = [ledger EXCEPT ![b] = now]
    /\ expired' = expired \cup {e \in content[b] : ~ValidTs(e)}

LEMMA InsertKeeps ==
    ASSUME NEW b \in Batches, Insert(b), NEW e \in Events, times[e] \in Nat
    PROVE  /\ times[e] > 0 => times'[e] > 0
           /\ e \in expired => e \in expired'
           /\ e \in content[b] => times'[e] > 0 \/ e \in expired'
<1>1. CASE e \in content[b] /\ ValidTs(e)
      <2>1. times'[e] = times[e] + 1
            BY <1>1 DEF Insert
      <2> QED BY <2>1 DEF Insert
<1>2. CASE ~(e \in content[b] /\ ValidTs(e))
      <2>1. times'[e] = times[e]
            BY <1>2 DEF Insert
      <2>2. e \in content[b] => e \in expired'
            BY <1>2 DEF Insert
      <2>3. e \in expired => e \in expired'
            BY DEF Insert
      <2> QED BY <2>1, <2>2, <2>3
<1> QED BY <1>1, <1>2

\* A commit inserts the batch whole, or changes no row.
LEMMA CommitEffect ==
    ASSUME TypeOK, NEW h \in Handlers, CommitBatch(h)
    PROVE  /\ pc[h] = "ready" /\ batch[h] \in Batches
           /\ UNCHANGED <<client, sending, dropped, rejected, world>>
           /\ \/ /\ Answer(h, "ack")
                 /\ ledger[batch[h]] # Nobody
                 /\ UNCHANGED <<times, ledger, expired>>
              \/ /\ Answer(h, "later")
                 /\ UNCHANGED <<times, ledger, expired>>
              \/ /\ Answer(h, "ack")
                 /\ Insert(batch[h])
<1> DEFINE b == batch[h]
           good == {e \in content[b] : ValidTs(e)}
<1>1. pc[h] = "ready" /\ b \in Batches
      BY DEF CommitBatch, TypeOK
<1>2. ASSUME ledger[b] = Nobody,
             times' = [e \in Events |-> times[e] + IF e \in good THEN 1 ELSE 0],
             ledger' = [ledger EXCEPT ![b] = now],
             expired' = expired \cup (content[b] \ good)
      PROVE  Insert(b)
      <2>1. \A e \in Events : times[e] \in Nat
            BY DEF TypeOK
      <2>2. \A e \in Events :
                times'[e] = times[e] + IF e \in good THEN 1 ELSE 0
            BY <1>2
      <2>3. \A e \in Events : times'[e] =
                IF e \in content[b] /\ ValidTs(e) THEN times[e] + 1 ELSE times[e]
            BY <2>1, <2>2
      <2>4. times' \in [Events -> Nat]
            BY <1>2, <2>1
      <2>5. expired' = expired \cup {e \in content[b] : ~ValidTs(e)}
            BY <1>2
      <2> QED BY <1>2, <2>3, <2>4, <2>5 DEF Insert
<1> QED BY <1>1, <1>2 DEF CommitBatch

LEMMA TypeOKStep ==
    ASSUME TypeOK, [Next]_vars
    PROVE  TypeOK'
<1> USE TelemetryAssumption DEF TypeOK
<1>1. ASSUME NEW s \in Senders, DrainToBatch(s) PROVE TypeOK'
    <2>1. PICK part \in SUBSET queue :
             hand' = [hand EXCEPT ![s] = part] /\ queue' = queue \ part
          BY <1>1 DEF DrainToBatch
    <2>2. hand' \in [Senders -> SUBSET Events] /\ queue' \subseteq Events
          BY <2>1
    <2> QED BY <1>1, <2>2 DEF DrainToBatch
<1>2. ASSUME NEW s \in Senders, SpoolWrite(s) PROVE TypeOK'
    <2>1. PICK out \in SUBSET spool :
             /\ spool' = (spool \ out) \cup {written + 1}
             /\ dropped' = dropped \cup EventsOf(out)
          BY <1>2 DEF SpoolWrite
    <2>2. /\ written + 1 \in Batches
          /\ hand[s] \in SUBSET Events
          BY <1>2 DEF SpoolWrite
    <2>3. \A b \in out : content[b] \subseteq Events
          BY <2>1
    <2>4. UNION {content[b] : b \in out} \subseteq Events
          BY <2>3
    <2>5. dropped' \subseteq Events
          BY <2>1, <2>4 DEF EventsOf
    <2>6. spool' \subseteq Batches
          BY <2>1, <2>2
    <2>7. /\ written' \in 0 .. MaxBatches
          /\ content' \in [Batches -> SUBSET Events]
          /\ hand' \in [Senders -> SUBSET Events]
          /\ todo' \in [Senders -> SUBSET Batches]
          BY <1>2, <2>2, <2>6 DEF SpoolWrite
    <2> QED BY <1>2, <2>5, <2>6, <2>7 DEF SpoolWrite
<1>3. ASSUME NEW s \in Senders, ListSpool(s) PROVE TypeOK'
    BY <1>3 DEF ListSpool, Resting
<1>4. ASSUME NEW s \in Senders, SkipMissing(s) PROVE TypeOK'
    <2>1. todo' \in [Senders -> SUBSET Batches]
          BY <1>4 DEF SkipMissing
    <2> QED BY <1>4, <2>1 DEF SkipMissing
<1>5. ASSUME NEW s \in Senders, SendBatch(s) PROVE TypeOK'
    <2>1. PICK b \in Batches, h \in Handlers :
             /\ pc' = [pc EXCEPT ![h] = "arrived"]
             /\ batch' = [batch EXCEPT ![h] = b]
             /\ at' = [at EXCEPT ![s] = h]
          BY <1>5 DEF SendBatch, Oldest
    <2>2. HandlersTyped'
          BY <1>5, <2>1 DEF SendBatch, HandlersTyped, PcType, Replies
    <2>3. at' \in [Senders -> Handlers \cup {Nobody}]
          BY <2>1
    <2> QED BY <1>5, <2>2, <2>3 DEF SendBatch, HandlersTyped, PcType, Replies
<1>6. ASSUME NEW s \in Senders, ReceiveAnswer(s) PROVE TypeOK'
    <2>1. /\ at[s] \in Handlers
          /\ batch[at[s]] \in Batches
          BY <1>6 DEF ReceiveAnswer
    <2>2. content[batch[at[s]]] \subseteq Events
          BY <2>1
    <2>3. rejected' \subseteq Events
          BY <1>6, <2>2 DEF ReceiveAnswer
    <2>4. spool' \subseteq Batches
          BY <1>6 DEF ReceiveAnswer
    <2>6. todo' \in [Senders -> SUBSET Batches]
          <3>1. CASE Finished(answer[at[s]])
                BY <1>6, <3>1 DEF ReceiveAnswer
          <3>2. CASE ~Finished(answer[at[s]])
                BY <1>6, <3>2 DEF ReceiveAnswer
          <3> QED BY <3>1, <3>2
    <2>5. /\ pc' \in [Handlers -> {"idle", "arrived", "admitted", "ready", "answered"}]
          /\ batch' \in [Handlers -> Batches \cup {0}]
          /\ answer' \in [Handlers -> {"none", "ack", "later", "never"}]
          /\ at' \in [Senders -> Handlers \cup {Nobody}]
          /\ \A h \in Handlers : pc'[h] # "idle" => batch'[h] \in Batches
          BY <1>6, <2>1 DEF ReceiveAnswer
    <2> QED BY <1>6, <2>3, <2>4, <2>5, <2>6 DEF ReceiveAnswer
<1>7. ASSUME NEW s \in Senders, GiveUp(s) PROVE TypeOK'
    <2>1. HandlersTyped'
      <3>1. CASE UNCHANGED <<pc, batch, answer>>
            BY <3>1 DEF HandlersTyped, PcType, Replies
      <3>2. CASE /\ pc' = [pc EXCEPT ![at[s]] = "idle"]
                 /\ batch' = [batch EXCEPT ![at[s]] = 0]
                 /\ answer' = [answer EXCEPT ![at[s]] = "none"]
            BY <3>2 DEF HandlersTyped, PcType, Replies
      <3> QED BY <1>7, <3>1, <3>2 DEF GiveUp
    <2>2. at' \in [Senders -> Handlers \cup {Nobody}] /\ todo' \in [Senders -> SUBSET Batches]
          BY <1>7 DEF GiveUp
    <2> QED BY <1>7, <2>1, <2>2 DEF GiveUp, HandlersTyped, PcType, Replies
<1>7a. ASSUME NEW s \in Senders, Resend(s) PROVE TypeOK'
    <2>1. PICK g \in Handlers :
             /\ pc[g] = "idle" /\ pc[at[s]] # "idle"
             /\ at' = [at EXCEPT ![s] = g]
             /\ IF pc[at[s]] = "answered"
                THEN /\ pc' = [pc EXCEPT ![g] = "arrived", ![at[s]] = "idle"]
                     /\ batch' = [batch EXCEPT ![g] = batch[at[s]], ![at[s]] = 0]
                     /\ answer' = [answer EXCEPT ![at[s]] = "none"]
                ELSE /\ pc' = [pc EXCEPT ![g] = "arrived"]
                     /\ batch' = [batch EXCEPT ![g] = batch[at[s]]]
                     /\ answer' = answer
          BY <1>7a DEF Resend
    <2>2. at[s] \in Handlers /\ batch[at[s]] \in Batches
          BY <1>7a, <2>1 DEF Resend
    <2>3. HandlersTyped'
      <3>1. CASE pc[at[s]] = "answered"
        <4>1. pc' = [pc EXCEPT ![g] = "arrived", ![at[s]] = "idle"]
              BY <2>1, <3>1
        <4>2. pc' \in [Handlers -> PcType]
              BY <4>1, <2>2 DEF PcType
        <4>3. batch' = [batch EXCEPT ![g] = batch[at[s]], ![at[s]] = 0]
              BY <2>1, <3>1
        <4>4. batch' \in [Handlers -> Batches \cup {0}]
              BY <4>3, <2>2
        <4>5. answer' \in [Handlers -> Replies]
              BY <2>1, <3>1 DEF Replies
        <4>6. \A h \in Handlers : pc'[h] # "idle" => batch'[h] \in Batches
              BY <4>1, <4>3, <2>2
        <4> QED BY <4>2, <4>4, <4>5, <4>6 DEF HandlersTyped
      <3>2. CASE pc[at[s]] # "answered"
        <4>1. pc' = [pc EXCEPT ![g] = "arrived"]
              BY <2>1, <3>2
        <4>2. batch' = [batch EXCEPT ![g] = batch[at[s]]] /\ answer' = answer
              BY <2>1, <3>2
        <4>3. pc' \in [Handlers -> PcType]
              BY <4>1 DEF PcType
        <4>4. batch' \in [Handlers -> Batches \cup {0}]
              BY <4>2, <2>2
        <4>5. \A h \in Handlers : pc'[h] # "idle" => batch'[h] \in Batches
              BY <4>1, <4>2, <2>2
        <4>6. answer' \in [Handlers -> Replies]
              BY <4>2 DEF Replies
        <4> QED BY <4>3, <4>4, <4>5, <4>6 DEF HandlersTyped
      <3> QED BY <3>1, <3>2
    <2>4. at' \in [Senders -> Handlers \cup {Nobody}]
          BY <2>1
    <2> QED BY <1>7a, <2>3, <2>4 DEF Resend, HandlersTyped, PcType, Replies
<1>8. ASSUME NEW h \in Handlers, Resolve(h) PROVE TypeOK'
    <2>1. HandlersTyped'
          BY <1>8, HandlersTypedFollows, AnswerEffect, ProceedEffect
          DEF Resolve, Replies, PcType
    <2> QED BY <1>8, <2>1 DEF Resolve, HandlersTyped, PcType, Replies
<1>9. ASSUME NEW h \in Handlers, LookUpBatch(h) PROVE TypeOK'
    <2>1. HandlersTyped'
          BY <1>9, HandlersTypedFollows, AnswerEffect, ProceedEffect
          DEF LookUpBatch, Replies, PcType
    <2> QED BY <1>9, <2>1 DEF LookUpBatch, HandlersTyped, PcType, Replies
<1>10. ASSUME NEW h \in Handlers, CommitBatch(h) PROVE TypeOK'
    <2>1. /\ pc[h] = "ready" /\ batch[h] \in Batches
          /\ UNCHANGED <<client, sending, dropped, rejected, world>>
          /\ Answer(h, "ack") \/ Answer(h, "later")
          /\ UNCHANGED <<times, ledger, expired>> \/ Insert(batch[h])
          BY <1>10, CommitEffect
    <2>2. HandlersTyped'
          BY <2>1, HandlersTypedFollows, AnswerEffect DEF Replies
    <2>3. content[batch[h]] \subseteq Events
          BY <2>1
    <2>4. times' \in [Events -> Nat] /\ expired' \subseteq Events
          BY <2>1, <2>3 DEF Insert
    <2>5. ledger' \in [Batches -> Nat \cup {Nobody}]
          BY <2>1 DEF Insert
    <2> QED BY <2>1, <2>2, <2>4, <2>5 DEF HandlersTyped, PcType, Replies
<1>11. CASE RecordEvent
    <2>1. recorded' \in Nat /\ recorded + 1 \in Events
          BY <1>11 DEF RecordEvent
    <2>2. ts' \in [Events -> Int]
          BY <1>11, <2>1 DEF RecordEvent
    <2>3. queue' \subseteq Events /\ dropped' \subseteq Events
          BY <1>11, <2>1 DEF RecordEvent, Oldest
    <2> QED BY <1>11, <2>1, <2>2, <2>3 DEF RecordEvent
<1>12. CASE ClientCrash
    <2>1. \A s \in Senders : hand[s] \subseteq Events
          OBVIOUS
    <2>2. UNION {hand[s] : s \in Senders} \subseteq Events
          BY <2>1
    <2>3. dropped' \subseteq Events
          BY <1>12, <2>2 DEF ClientCrash
    <2>4. /\ pc' \in [Handlers -> {"idle", "arrived", "admitted", "ready", "answered"}]
          /\ batch' \in [Handlers -> Batches \cup {0}]
          /\ answer' \in [Handlers -> {"none", "ack", "later", "never"}]
          /\ \A h \in Handlers : pc'[h] # "idle" => batch'[h] \in Batches
          BY <1>12 DEF ClientCrash
    <2>5. /\ hand' \in [Senders -> SUBSET Events]
          /\ todo' \in [Senders -> SUBSET Batches]
          /\ at' \in [Senders -> Handlers \cup {Nobody}]
          /\ queue' \subseteq Events
          BY <1>12 DEF ClientCrash
    <2> QED BY <1>12, <2>3, <2>4, <2>5 DEF ClientCrash
<1>13. CASE ClientStart
    BY <1>13 DEF ClientStart
<1>14. CASE ServerCrash
    BY <1>14 DEF ServerCrash
<1>15. CASE PurgeLedger
    BY <1>15 DEF PurgeLedger
<1>16. CASE PauseOrResume
    BY <1>16 DEF PauseOrResume
<1>17. CASE RevokeKeys
    BY <1>17 DEF RevokeKeys
<1>18. CASE RemoveDeployment
    BY <1>18 DEF RemoveDeployment
<1>19. CASE Connectivity
    BY <1>19 DEF Connectivity
<1>20. CASE Tick
    <2>1. now' \in Nat
          BY <1>20 DEF Tick
    <2> QED BY <1>20, <2>1, Zenon DEF Tick
<1>21. CASE UNCHANGED vars
    BY <1>21 DEF vars
<1> QED BY <1>1, <1>2, <1>3, <1>4, <1>5, <1>6, <1>7, <1>8, <1>9, <1>10,
           <1>11, <1>12, <1>13, <1>14, <1>15, <1>16, <1>17, <1>18, <1>19,
           <1>20, <1>21, <1>7a
        DEF Next, Sender, Handler

\* Every reachable state has the declared types.
THEOREM TypeCorrect == Spec => []TypeOK
<1>1. Init => TypeOK
      BY TelemetryAssumption DEF Init, TypeOK
<1> QED BY <1>1, TypeOKStep, PTL DEF Spec
-----------------------------------------------------------------------------
(* Where an event is.                                                       *)

\* An event is in the deque, in one sender's hand or in one batch, and only
\* once recorded.  Batches above the counter are empty and known to nobody.
PlaceInv ==
    /\ recorded <= MaxEvents
    /\ \A e \in queue : e <= recorded
    /\ \A s \in Senders : \A e \in hand[s] : e <= recorded /\ e \notin queue
    /\ \A s, r \in Senders : s # r => hand[s] \cap hand[r] = {}
    /\ \A b \in Batches : \A e \in content[b] :
          /\ e <= recorded /\ e \notin queue /\ b <= written
          /\ \A s \in Senders : e \notin hand[s]
    /\ \A b, c \in Batches : b # c => content[b] \cap content[c] = {}
    /\ \A b \in spool : b <= written
    /\ \A b \in Batches : ledger[b] # Nobody => b <= written
    /\ \A h \in Handlers :
          pc[h] # "idle" => batch[h] \in Batches /\ batch[h] <= written

LEMMA PlaceInvStep ==
    ASSUME TypeOK, PlaceInv, [Next]_vars
    PROVE  PlaceInv'
<1> USE TelemetryAssumption DEF TypeOK, PlaceInv
<1>1. ASSUME NEW s \in Senders, DrainToBatch(s) PROVE PlaceInv'
    BY <1>1 DEF DrainToBatch, Resting
<1>2. ASSUME NEW s \in Senders, SpoolWrite(s) PROVE PlaceInv'
    <2>1. /\ written + 1 \in Batches /\ written' = written + 1
          /\ content' = [content EXCEPT ![written + 1] = hand[s]]
          /\ hand' = [hand EXCEPT ![s] = {}]
          /\ spool' \subseteq spool \cup {written + 1}
          /\ UNCHANGED <<recorded, queue, ledger, pc, batch>>
          BY <1>2 DEF SpoolWrite
    <2>2. \A b \in Batches : \A e \in content'[b] :
             /\ e <= recorded /\ e \notin queue /\ b <= written + 1
             /\ \A r \in Senders : e \notin hand'[r]
          BY <2>1
    <2>3. \A b, c \in Batches : b # c => content'[b] \cap content'[c] = {}
          BY <2>1
    <2>4. \A r \in Senders : hand'[r] \subseteq hand[r]
          BY <2>1
    <2>5. \A b \in Batches : b <= written => b <= written'
          BY <2>1
    <2> QED BY <2>1, <2>2, <2>3, <2>4, <2>5
<1>3. ASSUME NEW s \in Senders, ListSpool(s) PROVE PlaceInv'
    BY <1>3 DEF ListSpool, Resting
<1>4. ASSUME NEW s \in Senders, SkipMissing(s) PROVE PlaceInv'
    BY <1>4 DEF SkipMissing, Oldest
<1>5. ASSUME NEW s \in Senders, SendBatch(s) PROVE PlaceInv'
    BY <1>5 DEF SendBatch, Oldest
<1>6. ASSUME NEW s \in Senders, ReceiveAnswer(s) PROVE PlaceInv'
    BY <1>6 DEF ReceiveAnswer, Finished
<1>7. ASSUME NEW s \in Senders, GiveUp(s) PROVE PlaceInv'
    BY <1>7 DEF GiveUp
<1>7a. ASSUME NEW s \in Senders, Resend(s) PROVE PlaceInv'
    BY <1>7a DEF Resend
<1>8. ASSUME NEW h \in Handlers, Resolve(h) PROVE PlaceInv'
    BY <1>8, ZenonT(60) DEF Resolve, Answer, Proceed
<1>9. ASSUME NEW h \in Handlers, LookUpBatch(h) PROVE PlaceInv'
    BY <1>9, ZenonT(60) DEF LookUpBatch, Answer, Proceed
<1>10. ASSUME NEW h \in Handlers, CommitBatch(h) PROVE PlaceInv'
    <2>1. /\ pc[h] = "ready" /\ batch[h] \in Batches
          /\ UNCHANGED <<client, sending, dropped, rejected, world>>
          /\ Answer(h, "ack") \/ Answer(h, "later")
          /\ UNCHANGED <<times, ledger, expired>> \/ Insert(batch[h])
          BY <1>10, CommitEffect
    <2>2. /\ HandlersTyped' /\ OthersKeep(h)
          /\ pc'[h] # "idle" => batch'[h] = batch[h]
          BY <2>1, HandlersTypedFollows, AnswerEffect DEF Replies
    <2>3. \A g \in Handlers :
              pc'[g] # "idle" => batch'[g] \in Batches /\ batch'[g] <= written'
          BY <2>1, <2>2 DEF OthersKeep
    <2>4. batch[h] <= written
          BY <2>1
    <2>5. \A b \in Batches : ledger'[b] # Nobody => b <= written'
          BY <2>1, <2>4 DEF Insert
    <2>6. UNCHANGED <<recorded, queue, hand, content, written, spool>>
          BY <2>1
    <2>7. \A b \in Batches : \A e \in content'[b] :
              /\ e <= recorded' /\ e \notin queue' /\ b <= written'
              /\ \A s \in Senders : e \notin hand'[s]
          BY <2>6
    <2>8. \A s \in Senders : \A e \in hand'[s] : e <= recorded' /\ e \notin queue'
          BY <2>6
    <2>9. /\ recorded' <= MaxEvents /\ \A e \in queue' : e <= recorded'
          /\ \A s, r \in Senders : s # r => hand'[s] \cap hand'[r] = {}
          /\ \A b, c \in Batches : b # c => content'[b] \cap content'[c] = {}
          /\ \A b \in spool' : b <= written'
          BY <2>6
    <2> QED BY <2>3, <2>5, <2>7, <2>8, <2>9
<1>11. CASE RecordEvent
    BY <1>11 DEF RecordEvent, Oldest
<1>12. CASE ClientCrash
    BY <1>12 DEF ClientCrash
<1>13. CASE ClientStart
    BY <1>13 DEF ClientStart
<1>14. CASE ServerCrash
    BY <1>14 DEF ServerCrash
<1>15. CASE PurgeLedger
    BY <1>15 DEF PurgeLedger
<1>16. CASE PauseOrResume
    BY <1>16 DEF PauseOrResume
<1>17. CASE RevokeKeys
    BY <1>17 DEF RevokeKeys
<1>18. CASE RemoveDeployment
    BY <1>18 DEF RemoveDeployment
<1>19. CASE Connectivity
    BY <1>19 DEF Connectivity
<1>20. CASE Tick
    BY <1>20 DEF Tick
<1>21. CASE UNCHANGED vars
    BY <1>21 DEF vars
<1> QED BY <1>1, <1>2, <1>3, <1>4, <1>5, <1>6, <1>7, <1>8, <1>9, <1>10,
           <1>11, <1>12, <1>13, <1>14, <1>15, <1>16, <1>17, <1>18, <1>19,
           <1>20, <1>21, <1>7a
        DEF Next, Sender, Handler

LEMMA PlaceInvHolds == Spec => []PlaceInv
<1>1. Init => PlaceInv
      BY TelemetryAssumption DEF Init, PlaceInv
<1> QED BY <1>1, PlaceInvStep, TypeCorrect, PTL DEF Spec
-----------------------------------------------------------------------------
(* No event is counted twice.                                               *)

\* The ledger remembers a batch until its events are too old to be accepted.
LedgerOutlives == FutureClamp + PastClamp <= LedgerDays

\* Once batch b has been processed: the ledger has it, with a date no event of
\* it is far ahead of, or the event is past the clamp.
Guarded(e, b) ==
    \/ ledger[b] # Nobody /\ ts[e] <= ledger[b] + FutureClamp
    \/ ts[e] + PastClamp < now

OnceInv ==
    \A e \in Events :
        /\ times[e] <= 1
        /\ times[e] = 1 => \E b \in Batches : e \in content[b] /\ Guarded(e, b)

LEMMA OnceInvStep ==
    ASSUME TypeOK, PlaceInv, OnceInv, LedgerOutlives, [Next]_vars
    PROVE  OnceInv'
<1> USE TelemetryAssumption DEF TypeOK, PlaceInv, OnceInv, Guarded, LedgerOutlives
<1>1. ASSUME NEW s \in Senders, DrainToBatch(s) PROVE OnceInv'
    BY <1>1 DEF DrainToBatch, Resting
<1>2. ASSUME NEW s \in Senders, SpoolWrite(s) PROVE OnceInv'
    BY <1>2 DEF SpoolWrite, EventsOf
<1>3. ASSUME NEW s \in Senders, ListSpool(s) PROVE OnceInv'
    BY <1>3 DEF ListSpool, Resting
<1>4. ASSUME NEW s \in Senders, SkipMissing(s) PROVE OnceInv'
    BY <1>4 DEF SkipMissing, Oldest
<1>5. ASSUME NEW s \in Senders, SendBatch(s) PROVE OnceInv'
    BY <1>5 DEF SendBatch, Oldest
<1>6. ASSUME NEW s \in Senders, ReceiveAnswer(s) PROVE OnceInv'
    BY <1>6 DEF ReceiveAnswer, Finished
<1>7. ASSUME NEW s \in Senders, GiveUp(s) PROVE OnceInv'
    BY <1>7 DEF GiveUp
<1>7a. ASSUME NEW s \in Senders, Resend(s) PROVE OnceInv'
    BY <1>7a DEF Resend
<1>8. ASSUME NEW h \in Handlers, Resolve(h) PROVE OnceInv'
    BY <1>8 DEF Resolve, Answer, Proceed
<1>9. ASSUME NEW h \in Handlers, LookUpBatch(h) PROVE OnceInv'
    BY <1>9 DEF LookUpBatch, Answer, Proceed
<1>10. ASSUME NEW h \in Handlers, CommitBatch(h) PROVE OnceInv'
    <2>1. /\ pc[h] = "ready" /\ batch[h] \in Batches
          /\ UNCHANGED <<client, sending, dropped, rejected, world>>
          /\ Answer(h, "ack") \/ Answer(h, "later")
          /\ UNCHANGED <<times, ledger, expired>> \/ Insert(batch[h])
          BY <1>10, CommitEffect
    <2>2. CASE UNCHANGED <<times, ledger, expired>>
          BY <2>1, <2>2
    <2>3. CASE Insert(batch[h])
      <3>1. SUFFICES ASSUME NEW e \in Events
                     PROVE  /\ times'[e] <= 1
                            /\ times'[e] = 1 => \E b \in Batches :
                                  e \in content'[b] /\ Guarded(e, b)'
            OBVIOUS
      <3>2. CASE e \in content[batch[h]] /\ ValidTs(e)
        <4>1. ASSUME NEW c \in Batches, e \in content[c], Guarded(e, c)
              PROVE  FALSE
              <5>1. c = batch[h]
                    BY <3>2, <4>1, <2>1
              <5>2. ts[e] + PastClamp < now
                    BY <4>1, <5>1, <2>3 DEF Insert
              <5> QED BY <5>2, <3>2 DEF ValidTs
        <4>2. times[e] = 0
              BY <4>1
        <4>3. times'[e] = 1
              BY <4>2, <3>2, <2>3 DEF Insert
        <4>4. ledger'[batch[h]] = now /\ now # Nobody
              BY <2>1, <2>3 DEF Insert
        <4>5. ts'[e] <= now + FutureClamp
              BY <3>2, <2>1 DEF ValidTs
        <4>6. PICK b \in Batches : b = batch[h]
              BY <2>1
        <4>7. Guarded(e, b)'
              BY <4>4, <4>5, <4>6
        <4> QED BY <4>3, <4>6, <4>7, <3>2, <2>1
      <3>3. CASE ~(e \in content[batch[h]] /\ ValidTs(e))
        <4>1. times'[e] = times[e]
              BY <3>3, <2>3 DEF Insert
        <4>2. ASSUME NEW c \in Batches, Guarded(e, c)
              PROVE  Guarded(e, c)'
              BY <4>2, <2>1, <2>3 DEF Insert
        <4> QED BY <4>1, <4>2, <2>1
      <3> QED BY <3>2, <3>3
    <2> QED BY <2>1, <2>2, <2>3
<1>11. CASE RecordEvent
    BY <1>11 DEF RecordEvent, Oldest
<1>12. CASE ClientCrash
    BY <1>12 DEF ClientCrash
<1>13. CASE ClientStart
    BY <1>13 DEF ClientStart
<1>14. CASE ServerCrash
    BY <1>14 DEF ServerCrash
<1>15. CASE PurgeLedger
    BY <1>15 DEF PurgeLedger
<1>16. CASE PauseOrResume
    BY <1>16 DEF PauseOrResume
<1>17. CASE RevokeKeys
    BY <1>17 DEF RevokeKeys
<1>18. CASE RemoveDeployment
    BY <1>18 DEF RemoveDeployment
<1>19. CASE Connectivity
    BY <1>19 DEF Connectivity
<1>20. CASE Tick
    BY <1>20 DEF Tick
<1>21. CASE UNCHANGED vars
    BY <1>21 DEF vars
<1> QED BY <1>1, <1>2, <1>3, <1>4, <1>5, <1>6, <1>7, <1>8, <1>9, <1>10,
           <1>11, <1>12, <1>13, <1>14, <1>15, <1>16, <1>17, <1>18, <1>19,
           <1>20, <1>21, <1>7a
        DEF Next, Sender, Handler

\* Whatever is lost, delayed or sent twice, no event is inserted twice, if the
\* ledger outlives the two clamps together (NoDoubleCount).
THEOREM EventsCountedOnce ==
    ASSUME LedgerOutlives
    PROVE  Spec => []NoDoubleCount
<1>1. Init => OnceInv
      BY TelemetryAssumption DEF Init, OnceInv
<1>2. TypeOK /\ OnceInv => NoDoubleCount
      BY DEF OnceInv, NoDoubleCount
<1>3. TypeOK /\ PlaceInv /\ OnceInv /\ [Next]_vars => OnceInv'
      BY OnceInvStep, LedgerOutlives
<1> QED BY <1>1, <1>2, <1>3, TypeCorrect, PlaceInvHolds, PTL DEF Spec
-----------------------------------------------------------------------------
(* Nothing that reached the disk is lost in silence.                        *)

Settled(e) == times[e] > 0 \/ e \in expired

AccountInv ==
    /\ \A b \in Batches : ledger[b] # Nobody => \A e \in content[b] : Settled(e)
    /\ \A h \in Handlers : pc[h] = "answered" /\ answer[h] = "ack"
          => \A e \in content[batch[h]] : Settled(e)
    /\ \A b \in Batches : b <= written => \A e \in content[b] :
          b \in spool \/ Settled(e) \/ e \in dropped \cup rejected

LEMMA AccountInvStep ==
    ASSUME TypeOK, PlaceInv, AccountInv, [Next]_vars
    PROVE  AccountInv'
<1> USE TelemetryAssumption DEF TypeOK, PlaceInv, AccountInv, Settled
<1>1. ASSUME NEW s \in Senders, DrainToBatch(s) PROVE AccountInv'
    BY <1>1 DEF DrainToBatch, Resting
<1>2. ASSUME NEW s \in Senders, SpoolWrite(s) PROVE AccountInv'
    <2>1. PICK out \in SUBSET spool :
             /\ spool' = (spool \ out) \cup {written + 1}
             /\ dropped' = dropped \cup EventsOf(out)
          BY <1>2 DEF SpoolWrite
    <2>2. /\ written + 1 \in Batches /\ written' = written + 1
          /\ content' = [content EXCEPT ![written + 1] = hand[s]]
          /\ UNCHANGED <<times, expired, rejected, ledger, pc, answer, batch>>
          BY <1>2 DEF SpoolWrite
    <2>3. \A b \in Batches : b <= written => content'[b] = content[b]
          BY <2>2
    <2>4. \A b \in Batches : ledger'[b] # Nobody =>
              \A e \in content'[b] : Settled(e)'
          BY <2>2, <2>3
    <2>5. \A h \in Handlers : pc'[h] = "answered" /\ answer'[h] = "ack" =>
              \A e \in content'[batch'[h]] : Settled(e)'
          BY <2>2, <2>3
    <2>6. \A b \in out : \A e \in content[b] : e \in dropped'
          BY <2>1 DEF EventsOf
    <2>7. ASSUME NEW b \in Batches, b <= written', NEW e \in content'[b]
          PROVE  b \in spool' \/ Settled(e)' \/ e \in dropped' \cup rejected'
          <3>1. CASE b = written + 1
                BY <3>1, <2>1
          <3>2. CASE b # written + 1
                <4>1. b <= written /\ e \in content[b]
                      BY <3>2, <2>2, <2>7
                <4>2. b \in spool \/ Settled(e) \/ e \in dropped \cup rejected
                      BY <4>1
                <4> QED BY <4>1, <4>2, <2>1, <2>2, <2>6
          <3> QED BY <3>1, <3>2
    <2> QED BY <2>4, <2>5, <2>7
<1>3. ASSUME NEW s \in Senders, ListSpool(s) PROVE AccountInv'
    BY <1>3 DEF ListSpool, Resting
<1>4. ASSUME NEW s \in Senders, SkipMissing(s) PROVE AccountInv'
    BY <1>4 DEF SkipMissing, Oldest
<1>5. ASSUME NEW s \in Senders, SendBatch(s) PROVE AccountInv'
    BY <1>5 DEF SendBatch, Oldest
<1>6. ASSUME NEW s \in Senders, ReceiveAnswer(s) PROVE AccountInv'
    <2>1. /\ at[s] \in Handlers /\ pc[at[s]] = "answered"
          /\ pc' = [pc EXCEPT ![at[s]] = "idle"]
          /\ batch' = [batch EXCEPT ![at[s]] = 0]
          /\ answer' = [answer EXCEPT ![at[s]] = "none"]
          /\ UNCHANGED <<content, written, ledger, times, expired, dropped>>
          BY <1>6 DEF ReceiveAnswer
    <2>2. /\ answer[at[s]] = "ack" => spool' = spool \ {batch[at[s]]} /\ rejected' = rejected
          /\ answer[at[s]] = "never" => /\ spool' = spool \ {batch[at[s]]}
                                         /\ rejected' = rejected \cup content[batch[at[s]]]
          /\ answer[at[s]] \notin {"ack", "never"} => UNCHANGED <<spool, rejected>>
          BY <1>6 DEF ReceiveAnswer, Finished
    <2>3. \A e \in Events : Settled(e) => Settled(e)'
          BY <2>1
    <2>4. \A b \in Batches : ledger'[b] # Nobody => \A e \in content'[b] : Settled(e)'
          BY <2>1
    <2>5. \A g \in Handlers : pc'[g] = "answered" =>
              /\ pc[g] = "answered" /\ batch'[g] = batch[g] /\ answer'[g] = answer[g]
          BY <2>1
    <2>6. \A g \in Handlers : pc'[g] = "answered" /\ answer'[g] = "ack"
              => \A e \in content'[batch'[g]] : Settled(e)'
          BY <2>1, <2>5
    <2>7. ASSUME NEW b \in Batches, b <= written', NEW e \in content'[b]
          PROVE  b \in spool' \/ Settled(e)' \/ e \in dropped' \cup rejected'
          <3>1. b <= written /\ e \in content[b] /\ (Settled(e) => Settled(e)')
                BY <2>1, <2>7
          <3>2. b \in spool \/ Settled(e) \/ e \in dropped \cup rejected
                BY <3>1
          <3>3. CASE b \in spool /\ b = batch[at[s]]
                BY <2>1, <2>2, <3>1, <3>3
          <3>4. CASE b \in spool /\ b # batch[at[s]]
                BY <2>2, <3>4
          <3> QED BY <2>1, <2>2, <3>1, <3>2, <3>3, <3>4
    <2> QED BY <2>4, <2>6, <2>7
<1>7. ASSUME NEW s \in Senders, GiveUp(s) PROVE AccountInv'
    BY <1>7 DEF GiveUp
<1>7a. ASSUME NEW s \in Senders, Resend(s) PROVE AccountInv'
    <2>1. \A g \in Handlers :
             pc'[g] = "answered" =>
                 pc[g] = "answered" /\ batch'[g] = batch[g] /\ answer'[g] = answer[g]
          BY <1>7a DEF Resend
    <2>2. UNCHANGED <<content, written, spool, ledger, times, fate>>
          BY <1>7a DEF Resend
    <2>3. \A h \in Handlers : pc'[h] = "answered" /\ answer'[h] = "ack" =>
             \A e \in content'[batch'[h]] : Settled(e)'
          BY <2>1, <2>2
    <2>4. \A b \in Batches : ledger'[b] # Nobody => \A e \in content'[b] : Settled(e)'
          BY <2>2
    <2>5. \A b \in Batches : b <= written' => \A e \in content'[b] :
              b \in spool' \/ Settled(e)' \/ e \in dropped' \cup rejected'
          BY <2>2
    <2> QED BY <2>3, <2>4, <2>5
<1>8. ASSUME NEW h \in Handlers, Resolve(h) PROVE AccountInv'
    <2>1. /\ pc[h] = "arrived"
          /\ Answer(h, "later") \/ Answer(h, "never") \/ Proceed(h, "admitted")
          /\ UNCHANGED <<content, written, spool, ledger, times, fate>>
          BY <1>8 DEF Resolve
    <2>2. /\ OthersKeep(h)
          /\ pc'[h] = "answered" => answer'[h] # "ack"
          BY <2>1, HandlersTypedFollows, AnswerEffect, ProceedEffect
          DEF Replies, PcType
    <2>3. ASSUME NEW g \in Handlers, pc'[g] = "answered", answer'[g] = "ack"
          PROVE  \A e \in content'[batch'[g]] : Settled(e)'
          <3>1. /\ pc[g] = "answered" /\ answer[g] = "ack" /\ batch'[g] = batch[g]
                BY <2>2, <2>3 DEF OthersKeep
          <3> QED BY <3>1, <2>1
    <2>4. \A b \in Batches : ledger'[b] # Nobody => \A e \in content'[b] : Settled(e)'
          BY <2>1
    <2>5. \A b \in Batches : b <= written' => \A e \in content'[b] :
              b \in spool' \/ Settled(e)' \/ e \in dropped' \cup rejected'
          BY <2>1
    <2> QED BY <2>3, <2>4, <2>5
<1>9. ASSUME NEW h \in Handlers, LookUpBatch(h) PROVE AccountInv'
    <2>1. /\ pc[h] = "admitted" /\ batch[h] \in Batches
          /\ \/ Answer(h, "ack") /\ ledger[batch[h]] # Nobody
             \/ Proceed(h, "ready")
          /\ UNCHANGED <<content, written, spool, ledger, times, fate>>
          BY <1>9 DEF LookUpBatch
    <2>2. /\ OthersKeep(h)
          /\ pc'[h] = "answered" =>
                ledger[batch[h]] # Nobody /\ batch'[h] = batch[h]
          BY <2>1, HandlersTypedFollows, AnswerEffect, ProceedEffect
          DEF Replies, PcType
    <2>3. ASSUME NEW g \in Handlers, pc'[g] = "answered", answer'[g] = "ack"
          PROVE  \A e \in content'[batch'[g]] : Settled(e)'
          <3>1. CASE g = h
                BY <2>1, <2>2, <2>3, <3>1
          <3>2. CASE g # h
                <4>1. /\ pc[g] = "answered" /\ answer[g] = "ack"
                      /\ batch'[g] = batch[g]
                      BY <2>2, <2>3, <3>2 DEF OthersKeep
                <4> QED BY <4>1, <2>1
          <3> QED BY <3>1, <3>2
    <2>4. \A b \in Batches : ledger'[b] # Nobody => \A e \in content'[b] : Settled(e)'
          BY <2>1
    <2>5. \A b \in Batches : b <= written' => \A e \in content'[b] :
              b \in spool' \/ Settled(e)' \/ e \in dropped' \cup rejected'
          BY <2>1
    <2> QED BY <2>3, <2>4, <2>5
<1>10. ASSUME NEW h \in Handlers, CommitBatch(h) PROVE AccountInv'
    <2>1. /\ pc[h] = "ready" /\ batch[h] \in Batches
          /\ UNCHANGED <<client, sending, dropped, rejected, world>>
          BY <1>10, CommitEffect
    <2>2. /\ OthersKeep(h)
          /\ pc'[h] = "answered" => batch'[h] = batch[h]
          BY <1>10, CommitEffect, HandlersTypedFollows, AnswerEffect DEF Replies
    <2>3. \/ /\ UNCHANGED <<times, ledger, expired>>
             /\ ledger[batch[h]] = Nobody =>
                   ~(pc'[h] = "answered" /\ answer'[h] = "ack")
          \/ Insert(batch[h])
          <3>1. CASE /\ Answer(h, "ack") /\ ledger[batch[h]] # Nobody
                     /\ UNCHANGED <<times, ledger, expired>>
                BY <3>1
          <3>2. CASE Answer(h, "later") /\ UNCHANGED <<times, ledger, expired>>
                <4>1. pc'[h] = "answered" => answer'[h] = "later"
                      BY <2>1, <3>2, HandlersTypedFollows, AnswerEffect DEF Replies
                <4> QED BY <4>1, <3>2
          <3>3. \/ /\ Answer(h, "ack") /\ ledger[batch[h]] # Nobody
                   /\ UNCHANGED <<times, ledger, expired>>
                \/ Answer(h, "later") /\ UNCHANGED <<times, ledger, expired>>
                \/ Insert(batch[h])
                BY <1>10, CommitEffect
          <3> QED BY <3>1, <3>2, <3>3
    <2>4. ASSUME NEW e \in Events, Settled(e)
          PROVE  Settled(e)'
          <3>1. times[e] \in Nat
                OBVIOUS
          <3>2. CASE UNCHANGED <<times, ledger, expired>>
                BY <2>4, <3>2
          <3>3. CASE Insert(batch[h])
                BY <2>1, <2>4, <3>1, <3>3, InsertKeeps
          <3> QED BY <2>3, <3>2, <3>3
    <2>5. ASSUME Insert(batch[h])
          PROVE  \A e \in content[batch[h]] : Settled(e)'
          <3>1. content[batch[h]] \subseteq Events
                BY <2>1
          <3> QED BY <3>1, <2>1, <2>5, InsertKeeps
    <2>6. \A b \in Batches : ledger'[b] # Nobody =>
              \A e \in content'[b] : Settled(e)'
          <3>1. \A b \in Batches : content'[b] = content[b] /\ content[b] \subseteq Events
                BY <2>1
          <3>2. ASSUME NEW b \in Batches, ledger'[b] # Nobody, NEW e \in content'[b]
                PROVE  Settled(e)'
                <4>1. e \in Events /\ e \in content[b]
                      BY <3>1, <3>2
                <4>2. CASE ledger[b] # Nobody
                      BY <2>4, <4>1, <4>2
                <4>3. CASE ledger[b] = Nobody
                      <5>1. Insert(batch[h]) /\ b = batch[h]
                            BY <2>1, <2>3, <3>2, <4>3 DEF Insert
                      <5> QED BY <2>5, <4>1, <5>1
                <4> QED BY <4>2, <4>3
          <3> QED BY <3>2
    <2>7. ASSUME NEW g \in Handlers, pc'[g] = "answered", answer'[g] = "ack"
          PROVE  \A e \in content'[batch'[g]] : Settled(e)'
          <3>1. CASE g = h
                <4>1. content'[batch'[g]] = content[batch[h]]
                      BY <3>1, <2>1, <2>2, <2>7
                <4>2. content[batch[h]] \subseteq Events
                      BY <2>1
                <4>3. CASE Insert(batch[h])
                      BY <4>1, <4>3, <2>5
                <4>4. CASE ledger[batch[h]] # Nobody
                      BY <4>1, <4>2, <4>4, <2>1, <2>4
                <4> QED BY <4>3, <4>4, <3>1, <2>3, <2>7
          <3>2. CASE g # h
                <4>1. /\ pc[g] = "answered" /\ answer[g] = "ack"
                      /\ batch'[g] = batch[g] /\ batch[g] \in Batches
                      BY <3>2, <2>2, <2>7 DEF OthersKeep
                <4>2. content'[batch'[g]] = content[batch[g]] /\ content[batch[g]] \subseteq Events
                      BY <4>1, <2>1
                <4> QED BY <4>1, <4>2, <2>4
          <3> QED BY <3>1, <3>2
    <2>8. \A b \in Batches : b <= written' => \A e \in content'[b] :
              b \in spool' \/ Settled(e)' \/ e \in dropped' \cup rejected'
          <3>1. \A b \in Batches : content'[b] = content[b] /\ content[b] \subseteq Events
                BY <2>1
          <3> QED BY <3>1, <2>1, <2>4
    <2> QED BY <2>6, <2>7, <2>8
<1>11. CASE RecordEvent
    BY <1>11 DEF RecordEvent, Oldest
<1>12. CASE ClientCrash
    BY <1>12 DEF ClientCrash
<1>13. CASE ClientStart
    BY <1>13 DEF ClientStart
<1>14. CASE ServerCrash
    BY <1>14 DEF ServerCrash
<1>15. CASE PurgeLedger
    BY <1>15 DEF PurgeLedger
<1>16. CASE PauseOrResume
    BY <1>16 DEF PauseOrResume
<1>17. CASE RevokeKeys
    BY <1>17 DEF RevokeKeys
<1>18. CASE RemoveDeployment
    BY <1>18 DEF RemoveDeployment
<1>19. CASE Connectivity
    BY <1>19 DEF Connectivity
<1>20. CASE Tick
    BY <1>20 DEF Tick
<1>21. CASE UNCHANGED vars
    BY <1>21 DEF vars
<1> QED BY <1>1, <1>2, <1>3, <1>4, <1>5, <1>6, <1>7, <1>8, <1>9, <1>10,
           <1>11, <1>12, <1>13, <1>14, <1>15, <1>16, <1>17, <1>18, <1>19,
           <1>20, <1>21, <1>7a
        DEF Next, Sender, Handler

\* An event that reached the disk is still there, was inserted, or is counted
\* as lost (SpooledAccounted).
THEOREM SpooledEventsAccounted == Spec => []SpooledAccounted
<1>1. Init => AccountInv
      BY TelemetryAssumption DEF Init, AccountInv, Settled
<1>2. TypeOK /\ AccountInv => SpooledAccounted
      BY TelemetryAssumption DEF TypeOK, AccountInv, Settled, SpooledAccounted
<1> QED BY <1>1, <1>2, AccountInvStep, TypeCorrect, PlaceInvHolds, PTL DEF Spec
-----------------------------------------------------------------------------
(* The SDK gives up only on a deployment that is gone.                      *)

Small(E) == Cardinality(E) <= BatchMax

RefusalInv ==
    /\ \A s \in Senders : Small(hand[s])
    /\ \A b \in Batches : Small(content[b])
    /\ \A h \in Handlers : answer[h] = "never" => dep = "gone"
    /\ rejected # {} => dep = "gone"

LEMMA EmptySmall == Small({})
    BY FS_EmptySet, TelemetryAssumption DEF Small

LEMMA RefusalInvStep ==
    ASSUME TypeOK, PlaceInv, RefusalInv, BatchMax <= ServerMax, [Next]_vars
    PROVE  RefusalInv'
<1> USE TelemetryAssumption DEF TypeOK, PlaceInv, RefusalInv
<1>1. ASSUME NEW s \in Senders, DrainToBatch(s) PROVE RefusalInv'
    <2>1. PICK part \in SUBSET queue :
             /\ Cardinality(part) <= BatchMax
             /\ hand' = [hand EXCEPT ![s] = part]
          BY <1>1 DEF DrainToBatch
    <2>2. \A r \in Senders : Small(hand'[r])
          BY <2>1 DEF Small
    <2> QED BY <1>1, <2>2 DEF DrainToBatch
<1>2. ASSUME NEW s \in Senders, SpoolWrite(s) PROVE RefusalInv'
    BY <1>2, EmptySmall DEF SpoolWrite, EventsOf
<1>3. ASSUME NEW s \in Senders, ListSpool(s) PROVE RefusalInv'
    BY <1>3 DEF ListSpool, Resting
<1>4. ASSUME NEW s \in Senders, SkipMissing(s) PROVE RefusalInv'
    BY <1>4 DEF SkipMissing, Oldest
<1>5. ASSUME NEW s \in Senders, SendBatch(s) PROVE RefusalInv'
    BY <1>5 DEF SendBatch, Oldest
<1>6. ASSUME NEW s \in Senders, ReceiveAnswer(s) PROVE RefusalInv'
    BY <1>6 DEF ReceiveAnswer, Finished
<1>7. ASSUME NEW s \in Senders, GiveUp(s) PROVE RefusalInv'
    BY <1>7 DEF GiveUp
<1>7a. ASSUME NEW s \in Senders, Resend(s) PROVE RefusalInv'
    BY <1>7a DEF Resend
<1>8. ASSUME NEW h \in Handlers, Resolve(h) PROVE RefusalInv'
    <2>1. batch[h] \in Batches
          BY <1>8 DEF Resolve
    <2>2. ~(Cardinality(content[batch[h]]) > ServerMax)
          <3>1. content[batch[h]] \subseteq Events
                BY <2>1
          <3>2. IsFiniteSet(1 .. MaxEvents)
                BY FS_Interval
          <3>3. IsFiniteSet(content[batch[h]])
                BY <3>1, <3>2, FS_Subset
          <3>4. Cardinality(content[batch[h]]) \in Nat
                BY <3>3, FS_CardinalityType
          <3>5. Cardinality(content[batch[h]]) <= BatchMax
                BY <2>1 DEF Small
          <3> QED BY <3>4, <3>5
    <2>3. /\ pc[h] = "arrived"
          /\ UNCHANGED <<hand, content, rejected, dep>>
          /\ \/ Answer(h, "later") \/ Proceed(h, "admitted")
             \/ Answer(h, "never") /\ dep = "gone"
          BY <1>8, <2>2 DEF Resolve
    <2>4. /\ OthersKeep(h)
          /\ answer'[h] = "never" => answer[h] = "never" \/ dep = "gone"
          BY <2>3, HandlersTypedFollows, AnswerEffect, ProceedEffect
          DEF Replies, PcType
    <2> QED BY <2>3, <2>4 DEF OthersKeep
<1>9. ASSUME NEW h \in Handlers, LookUpBatch(h) PROVE RefusalInv'
    BY <1>9 DEF LookUpBatch, Answer, Proceed
<1>10. ASSUME NEW h \in Handlers, CommitBatch(h) PROVE RefusalInv'
    BY <1>10 DEF CommitBatch, Answer, ValidTs
<1>11. CASE RecordEvent
    BY <1>11 DEF RecordEvent, Oldest
<1>12. CASE ClientCrash
    BY <1>12, EmptySmall DEF ClientCrash
<1>13. CASE ClientStart
    BY <1>13 DEF ClientStart
<1>14. CASE ServerCrash
    BY <1>14 DEF ServerCrash
<1>15. CASE PurgeLedger
    BY <1>15 DEF PurgeLedger
<1>16. CASE PauseOrResume
    BY <1>16 DEF PauseOrResume
<1>17. CASE RevokeKeys
    BY <1>17 DEF RevokeKeys
<1>18. CASE RemoveDeployment
    BY <1>18 DEF RemoveDeployment
<1>19. CASE Connectivity
    BY <1>19 DEF Connectivity
<1>20. CASE Tick
    BY <1>20 DEF Tick
<1>21. CASE UNCHANGED vars
    BY <1>21 DEF vars
<1> QED BY <1>1, <1>2, <1>3, <1>4, <1>5, <1>6, <1>7, <1>8, <1>9, <1>10,
           <1>11, <1>12, <1>13, <1>14, <1>15, <1>16, <1>17, <1>18, <1>19,
           <1>20, <1>21, <1>7a
        DEF Next, Sender, Handler

\* While the deployment exists, no segment is refused for good, if a batch of
\* the SDK fits the server's limit (RejectedOnlyWhenGone).
THEOREM OnlyGoneRejects ==
    ASSUME BatchMax <= ServerMax
    PROVE  Spec => []RejectedOnlyWhenGone
<1>1. Init => RefusalInv
      BY EmptySmall, TelemetryAssumption DEF Init, RefusalInv
<1>2. RefusalInv => RejectedOnlyWhenGone
      BY DEF RefusalInv, RejectedOnlyWhenGone
<1>3. TypeOK /\ PlaceInv /\ RefusalInv /\ [Next]_vars => RefusalInv'
      BY RefusalInvStep
<1> QED BY <1>1, <1>2, <1>3, TypeCorrect, PlaceInvHolds, PTL DEF Spec
=============================================================================
