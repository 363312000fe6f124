--------------------------- MODULE McpServerProofs ---------------------------
(***************************************************************************)
(* Proofs about McpServer, for any messages, any number of requests sent   *)
(* ahead, of lives of the server and of commands beside it.                *)
(*                                                                         *)
(* The permission is looked at when a call is taken, and the effect comes  *)
(* several steps later.  What carries over is that a message the server    *)
(* has taken is never changed again: not by a client that sends on, not by *)
(* a check that reads stdin, and not by a death.                           *)
(*                                                                         *)
(* What the answers tell: the calls of a life are handled one at a time,   *)
(* so that each is answered, being handled, or cut off, and a record is    *)
(* written by the call whose claim its answer will name.                   *)
(***************************************************************************)
EXTENDS McpServer, FiniteSetTheorems, SequenceTheorems, TLAPS

LockRecord == [claim : Nat, status : Status, by : Nat \X Nat]

\* A running server is in one of its lives, and has taken some of what was sent.
StdinOK ==
    /\ life \in 0 .. MaxLives
    /\ up \in BOOLEAN /\ (up => life \in Life)
    /\ flags \in [Life -> SUBSET {"write", "execute"}]
    /\ sent \in [Life -> Seq(Messages)]
    /\ swallowed \in [Life -> SUBSET Nat]
    /\ taken \in [Life -> Nat]
    /\ \A l \in Life : taken[l] <= Len(sent[l])

\* A call that may write: one the server has taken, of a tool its life allows, after
\* an initialize that reached the server.  The arguments after it are how many lives
\* there were, their flags, messages and swallowed messages, and the last ones taken.
MayWrite(call, lives, f, s, w, t) ==
    /\ call[1] \in 1 .. lives
    /\ call[2] \in 1 .. t[call[1]]
    /\ s[call[1]][call[2]].kind = "call"
    /\ Permission(s[call[1]][call[2]].tool) \in f[call[1]]
    /\ call[2] \notin w[call[1]]
    /\ \E i \in (1 .. call[2]) \ w[call[1]] : s[call[1]][i].kind = "initialize"

Effects == {"initialize", "lock", "checks", "report"}

\* The life has seen an initialize that no check has swallowed.
SeenInitialize(l, s, w, t) ==
    \E i \in (1 .. t[l]) \ w[l] : s[l][i].kind = "initialize"

AllowedInv ==
    /\ StdinOK
    /\ initialized => up /\ SeenInitialize(life, sent, swallowed, taken)
    /\ pc \in Effects => up /\ MayWrite(Here, life, flags, sent, swallowed, taken)
    /\ pc = "checks" => sent[life][taken[life]].claim \in Claims
    /\ locks \in Seq(LockRecord)
    /\ \E k \in Nat : Claims = 1 .. k
    /\ report # None => MayWrite(report, life, flags, sent, swallowed, taken)
    /\ \A k \in 1 .. Len(locks) :
          locks[k].by # None => MayWrite(locks[k].by, life, flags, sent, swallowed, taken)

-----------------------------------------------------------------------------
(* What was taken stays *)

\* The lives there were and what they have taken, before and after.
Kept ==
    \A l \in 1 .. life :
        /\ flags'[l] = flags[l]
        /\ taken[l] <= taken'[l]
        /\ \A i \in 1 .. taken[l] :
              sent'[l][i] = sent[l][i] /\ (i \in swallowed'[l] <=> i \in swallowed[l])

\* A message of the server's that is taken next.
LEMMA UnreadFacts ==
    ASSUME StdinOK, NEW i \in Unread
    PROVE  /\ up /\ life \in Life /\ i \in Nat /\ i > taken[life] /\ i <= Len(sent[life])
           /\ i \notin swallowed[life] /\ sent[life][i] \in Messages
<1>1. up /\ life \in Life /\ i \in taken[life] + 1 .. Len(sent[life]) /\ i \notin swallowed[life]
    BY DEF Unread, StdinOK
<1>2. taken[life] \in Nat /\ sent[life] \in Seq(Messages)
    BY <1>1 DEF StdinOK
<1>3. Len(sent[life]) \in Nat
    BY <1>2, LenProperties
<1>4. i \in Nat /\ i > taken[life] /\ i <= Len(sent[life]) /\ i \in 1 .. Len(sent[life])
    BY <1>1, <1>2, <1>3
<1> QED
    BY <1>1, <1>2, <1>4, ElementOfSeq

\* A death keeps what was read and drops the rest.
LEMMA DownStep ==
    ASSUME StdinOK, up, NEW read \in Nat, read <= Len(sent[life]), GoDown(read)
    PROVE  /\ up' = FALSE /\ life' = life /\ flags' = flags
           /\ sent' \in [Life -> Seq(Messages)] /\ swallowed' \in [Life -> SUBSET Nat]
           /\ \A l \in Life \ {life} : sent'[l] = sent[l] /\ swallowed'[l] = swallowed[l]
           /\ Len(sent'[life]) = read
           /\ \A i \in 1 .. read :
                 /\ sent'[life][i] = sent[life][i]
                 /\ i \in swallowed'[life] <=> i \in swallowed[life]
<1>1. life \in Life /\ sent[life] \in Seq(Messages)
    BY DEF StdinOK
<1>2. Len(sent[life]) \in Nat /\ \A i \in 1 .. Len(sent[life]) : sent[life][i] \in Messages
    BY <1>1, LenProperties, ElementOfSeq
<1>3. \A i \in 1 .. read : sent[life][i] \in Messages
    BY <1>2
<1> DEFINE rest == SubSeq(sent[life], 1, read)
<1>4. /\ rest \in Seq(Messages) /\ Len(rest) = read
      /\ \A i \in 1 .. read : rest[i] = sent[life][i]
  <2>1. /\ rest \in Seq(Messages)
        /\ Len(rest) = IF 1 <= read THEN read - 1 + 1 ELSE 0
        /\ \A i \in 1 .. read - 1 + 1 : rest[i] = sent[life][1 + i - 1]
    BY <1>3, SubSeqProperties
  <2> HIDE DEF rest
  <2> QED
    BY <2>1
<1>5. /\ sent' = [sent EXCEPT ![life] = rest]
      /\ swallowed' = [swallowed EXCEPT ![life] = @ \cap (1 .. read)]
      /\ up' = FALSE /\ UNCHANGED <<life, flags>>
    BY DEF GoDown
<1> HIDE DEF rest
<1>6. /\ sent' \in [Life -> Seq(Messages)] /\ sent'[life] = rest
      /\ \A l \in Life \ {life} : sent'[l] = sent[l]
    BY <1>1, <1>4, <1>5 DEF StdinOK
<1>7. /\ swallowed' \in [Life -> SUBSET Nat] /\ swallowed'[life] = swallowed[life] \cap (1 .. read)
      /\ \A l \in Life \ {life} : swallowed'[l] = swallowed[l]
    BY <1>1, <1>5 DEF StdinOK
<1> QED
    BY <1>4, <1>5, <1>6, <1>7

\* What the loop does with the message it takes.
LEMMA TakeStep ==
    ASSUME StdinOK, NEW i, Take(i)
    PROVE  /\ i \in Unread /\ pc = "read" /\ taken' = [taken EXCEPT ![life] = i]
           /\ UNCHANGED store
           /\ \/ /\ sent[life][i].kind = "fatal" /\ GoDown(i)
              \/ /\ UNCHANGED <<stdin, up, initialized, pc>>
              \/ /\ UNCHANGED <<stdin, up>> /\ pc' = FirstStep(sent[life][i])
                 /\ initialized' = (initialized \/ sent[life][i].kind = "initialize")
    BY DEF Take, Handle

\* The lives that were are lives.
LEMMA PastLives ==
    ASSUME StdinOK
    PROVE  \A l \in 1 .. life : l \in Life /\ taken[l] \in Nat
    BY McpServerAssumption DEF StdinOK, Life

\* A step that leaves stdin, what is taken and whether the server runs as they are.
LEMMA QuietStep ==
    ASSUME StdinOK, UNCHANGED <<stdin, taken, up>>
    PROVE  StdinOK' /\ Kept
<1>1. StdinOK'
    BY DEF StdinOK, stdin
<1>2. \A l \in 1 .. life : taken[l] <= taken'[l]
    BY PastLives
<1> QED
    BY <1>1, <1>2 DEF Kept, stdin

\* Every step keeps what was taken.
LEMMA StdinStep ==
    ASSUME StdinOK, [Next]_vars
    PROVE  StdinOK' /\ Kept
<1>1. ASSUME NEW f \in SUBSET {"write", "execute"}, Start(f) PROVE StdinOK' /\ Kept
  <2>1. /\ life < MaxLives /\ life' = life + 1 /\ up' = TRUE
        /\ flags' = [flags EXCEPT ![life + 1] = f] /\ UNCHANGED <<sent, swallowed, taken>>
    BY <1>1 DEF Start
  <2>2. life' \in 0 .. MaxLives /\ life' \in Life /\ \A l \in 1 .. life : l # life + 1
    BY <2>1, McpServerAssumption DEF StdinOK, Life
  <2>3. StdinOK'
    BY <2>1, <2>2 DEF StdinOK
  <2>4. \A l \in 1 .. life : flags'[l] = flags[l] /\ taken[l] \in Nat
    BY <2>1, <2>2, PastLives DEF StdinOK
  <2>5. Kept
    BY <2>1, <2>4 DEF Kept
  <2> QED
    BY <2>3, <2>5
<1>2. ASSUME NEW m \in Messages, Send(m) PROVE StdinOK' /\ Kept
  <2>1. /\ up /\ sent' = [sent EXCEPT ![life] = Append(@, m)]
        /\ UNCHANGED <<life, up, flags, swallowed, taken>>
    BY <1>2 DEF Send
  <2>2. life \in Life /\ sent[life] \in Seq(Messages)
    BY <2>1 DEF StdinOK
  <2>3. /\ Append(sent[life], m) \in Seq(Messages) /\ Len(sent[life]) \in Nat
        /\ Len(Append(sent[life], m)) = Len(sent[life]) + 1
        /\ \A i \in 1 .. Len(sent[life]) : Append(sent[life], m)[i] = sent[life][i]
    BY <2>2, AppendProperties, LenProperties
  <2>4. /\ sent' \in [Life -> Seq(Messages)]
        /\ sent'[life] = Append(sent[life], m)
        /\ \A l \in Life \ {life} : sent'[l] = sent[l]
    BY <2>1, <2>2, <2>3 DEF StdinOK
  <2>5. \A l \in Life : taken'[l] <= Len(sent'[l])
    BY <2>1, <2>3, <2>4 DEF StdinOK
  <2>6. StdinOK'
    BY <2>1, <2>4, <2>5 DEF StdinOK
  <2>7. ASSUME NEW l \in 1 .. life, NEW i \in 1 .. taken[l]
        PROVE  sent'[l][i] = sent[l][i]
    <3>1. l \in Life /\ taken[l] \in Nat
      BY PastLives
    <3>2. CASE l = life
      BY <2>3, <2>4, <3>1, <3>2 DEF StdinOK
    <3> QED
      BY <2>4, <3>1, <3>2
  <2>8. \A l \in 1 .. life : taken[l] <= taken'[l]
    BY <2>1, PastLives
  <2>9. Kept
    BY <2>1, <2>7, <2>8 DEF Kept
  <2> QED
    BY <2>6, <2>9
<1>3. ASSUME up, NEW read \in Nat, GoDown(read), taken[life] <= read, read <= Len(sent[life]),
             taken' = [taken EXCEPT ![life] = read]
      PROVE  StdinOK' /\ Kept
  <2>1. /\ up' = FALSE /\ life' = life /\ flags' = flags
        /\ sent' \in [Life -> Seq(Messages)] /\ swallowed' \in [Life -> SUBSET Nat]
        /\ \A l \in Life \ {life} : sent'[l] = sent[l] /\ swallowed'[l] = swallowed[l]
        /\ Len(sent'[life]) = read
        /\ \A i \in 1 .. read :
              sent'[life][i] = sent[life][i] /\ (i \in swallowed'[life] <=> i \in swallowed[life])
    BY <1>3, DownStep
  <2>2. /\ life \in Life /\ taken' \in [Life -> Nat] /\ taken'[life] = read
        /\ \A l \in Life \ {life} : taken'[l] = taken[l]
    BY <1>3 DEF StdinOK
  <2>3. \A l \in Life : taken'[l] <= Len(sent'[l])
    BY <1>3, <2>1, <2>2 DEF StdinOK
  <2>4. StdinOK'
    BY <2>1, <2>2, <2>3 DEF StdinOK
  <2>5. ASSUME NEW l \in 1 .. life
        PROVE  /\ taken[l] <= taken'[l]
               /\ \A i \in 1 .. taken[l] :
                     sent'[l][i] = sent[l][i] /\ (i \in swallowed'[l] <=> i \in swallowed[l])
    <3>1. l \in Life /\ taken[l] \in Nat
      BY PastLives
    <3>2. CASE l = life
      BY <1>3, <2>1, <2>2, <3>1, <3>2
    <3>3. CASE l # life
      BY <2>1, <2>2, <3>1, <3>3
    <3> QED
      BY <3>2, <3>3
  <2>6. Kept
    BY <2>1, <2>5 DEF Kept
  <2> QED
    BY <2>4, <2>6
<1>4. ASSUME NEW i, Take(i) PROVE StdinOK' /\ Kept
  <2>1. /\ i \in Unread /\ taken' = [taken EXCEPT ![life] = i]
        /\ GoDown(i) \/ UNCHANGED <<stdin, up>>
    BY <1>4, TakeStep
  <2>2. up /\ life \in Life /\ i \in Nat /\ i > taken[life] /\ i <= Len(sent[life])
    BY <2>1, UnreadFacts
  <2>3. taken[life] \in Nat /\ taken[life] <= i
    BY <2>2 DEF StdinOK
  <2>4. CASE GoDown(i)
    BY <1>3, <2>1, <2>2, <2>3, <2>4
  <2>5. CASE UNCHANGED <<stdin, up>>
    <3>1. /\ taken' \in [Life -> Nat] /\ taken'[life] = i
          /\ \A l \in Life \ {life} : taken'[l] = taken[l]
      BY <2>1, <2>2 DEF StdinOK
    <3>2. \A l \in Life : taken'[l] <= Len(sent[l])
      BY <2>2, <3>1 DEF StdinOK
    <3>3. StdinOK'
      BY <2>5, <3>1, <3>2 DEF StdinOK, stdin
    <3>4. \A l \in 1 .. life : taken[l] <= taken'[l]
      BY <2>3, <3>1, PastLives
    <3>5. Kept
      BY <2>5, <3>4 DEF Kept, stdin
    <3> QED
      BY <3>3, <3>5
  <2> QED
    BY <2>1, <2>4, <2>5
<1>5. CASE CheckReads
  <2>1. PICK a \in Unread, b \in Unread :
            swallowed' = [swallowed EXCEPT ![life] = @ \cup (a .. b)]
    BY <1>5 DEF CheckReads
  <2>2. UNCHANGED <<life, up, flags, sent, taken>>
    BY <1>5 DEF CheckReads
  <2>3. up /\ life \in Life /\ a \in Nat /\ b \in Nat /\ a > taken[life] /\ taken[life] \in Nat
    BY <2>1, UnreadFacts DEF StdinOK
  <2>4. a .. b \subseteq Nat /\ \A i \in 1 .. taken[life] : i \notin a .. b
    BY <2>3
  <2>5. /\ swallowed' \in [Life -> SUBSET Nat] /\ swallowed'[life] = swallowed[life] \cup (a .. b)
        /\ \A l \in Life \ {life} : swallowed'[l] = swallowed[l]
    BY <2>1, <2>3, <2>4 DEF StdinOK
  <2>6. StdinOK'
    BY <2>2, <2>5 DEF StdinOK
  <2>7. \A l \in 1 .. life : l \in Life /\ taken[l] \in Nat
    BY PastLives
  <2>8. Kept
    BY <2>2, <2>4, <2>5, <2>7 DEF Kept
  <2> QED
    BY <2>6, <2>8
<1>6. CASE Die
  <2>1. up /\ GoDown(taken[life]) /\ taken' = taken
    BY <1>6 DEF Die
  <2>2. life \in Life /\ taken[life] \in Nat /\ taken[life] <= Len(sent[life])
    BY <2>1 DEF StdinOK
  <2>3. taken' = [taken EXCEPT ![life] = taken[life]]
    BY <2>1 DEF StdinOK
  <2>4. taken[life] <= taken[life]
    BY <2>2
  <2> QED
    BY <1>3, <2>1, <2>2, <2>3, <2>4
<1>7. CASE \/ LockInitialize \/ LockAppend \/ SettleAppend \/ WriteReport \/ Answer
           \/ CliLock \/ CliSettle
  <2>1. UNCHANGED <<stdin, taken, up>>
    BY <1>7 DEF LockInitialize, LockAppend, SettleAppend, WriteReport, Answer,
                CliLock, CliSettle
  <2> QED
    BY <2>1, QuietStep
<1>8. CASE UNCHANGED vars
  <2>1. UNCHANGED <<stdin, taken, up>>
    BY <1>8 DEF vars, stdin
  <2> QED
    BY <2>1, QuietStep
<1> QED
    BY <1>1, <1>2, <1>4, <1>5, <1>6, <1>7, <1>8 DEF Next, Serve

-----------------------------------------------------------------------------
(* The effects *)

\* A call that may write may write after any step, for all that is left of its life.
LEMMA MayWriteStep ==
    ASSUME StdinOK, [Next]_vars, NEW call,
           MayWrite(call, life, flags, sent, swallowed, taken)
    PROVE  MayWrite(call, life', flags', sent', swallowed', taken')
<1>1. Kept /\ StdinOK'
    BY StdinStep
<1>2. call[1] \in 1 .. life /\ call[1] \in Life /\ taken[call[1]] \in Nat
    BY PastLives DEF MayWrite
<1>3. 1 .. life \subseteq 1 .. life'
  <2>1. life' = life \/ life' = life + 1
    <3>1. ASSUME NEW i, Take(i) PROVE life' = life
      BY <3>1, TakeStep DEF GoDown, stdin
    <3>2. CASE CheckReads \/ Die \/ \E m \in Messages : Send(m)
      BY <3>2 DEF CheckReads, Die, GoDown, Send
    <3>3. CASE \/ LockInitialize \/ LockAppend \/ SettleAppend \/ WriteReport \/ Answer
               \/ CliLock \/ CliSettle
      BY <3>3 DEF LockInitialize, LockAppend, SettleAppend, WriteReport, Answer,
                  CliLock, CliSettle, stdin
    <3>4. CASE \E f \in SUBSET {"write", "execute"} : Start(f)
      BY <3>4 DEF Start
    <3>5. CASE UNCHANGED vars
      BY <3>5 DEF vars
    <3> QED
      BY <3>1, <3>2, <3>3, <3>4, <3>5 DEF Next, Serve
  <2> QED
    BY <2>1 DEF StdinOK
<1>4. /\ flags'[call[1]] = flags[call[1]] /\ taken[call[1]] <= taken'[call[1]]
      /\ taken'[call[1]] \in Nat
      /\ \A i \in 1 .. taken[call[1]] :
            /\ sent'[call[1]][i] = sent[call[1]][i]
            /\ i \in swallowed'[call[1]] <=> i \in swallowed[call[1]]
    BY <1>1, <1>2 DEF Kept, StdinOK
<1>5. call[2] \in 1 .. taken[call[1]] /\ call[2] \in Nat
    BY <1>2 DEF MayWrite
<1>6. \A i \in 1 .. call[2] : i \in 1 .. taken[call[1]]
    BY <1>2, <1>5
<1>7. call[2] \in 1 .. taken'[call[1]]
    BY <1>2, <1>4, <1>5
<1>8. /\ sent'[call[1]][call[2]] = sent[call[1]][call[2]]
      /\ call[2] \notin swallowed'[call[1]]
    BY <1>4, <1>5 DEF MayWrite
<1>9. PICK i \in (1 .. call[2]) \ swallowed[call[1]] : sent[call[1]][i].kind = "initialize"
    BY DEF MayWrite
<1>10. i \in (1 .. call[2]) \ swallowed'[call[1]] /\ sent'[call[1]][i].kind = "initialize"
    BY <1>4, <1>6, <1>9
<1> QED
    BY <1>2, <1>3, <1>4, <1>7, <1>8, <1>10 DEF MayWrite

\* What an initialize has opened stays open.
LEMMA SeenStep ==
    ASSUME StdinOK, [Next]_vars, up, life' = life,
           SeenInitialize(life, sent, swallowed, taken)
    PROVE  SeenInitialize(life, sent', swallowed', taken')
<1>1. Kept /\ StdinOK'
    BY StdinStep
<1>2. life \in 1 .. life /\ life \in Life /\ taken[life] \in Nat /\ taken'[life] \in Nat
    BY <1>1, McpServerAssumption DEF StdinOK, Life
<1>3. PICK i \in (1 .. taken[life]) \ swallowed[life] : sent[life][i].kind = "initialize"
    BY DEF SeenInitialize
<1>4. /\ taken[life] <= taken'[life] /\ sent'[life][i] = sent[life][i]
      /\ i \notin swallowed'[life]
    BY <1>1, <1>2, <1>3 DEF Kept
<1>5. i \in (1 .. taken'[life]) \ swallowed'[life]
    BY <1>2, <1>3, <1>4
<1> QED
    BY <1>3, <1>4, <1>5 DEF SeenInitialize

\* The claims after one more record.
LEMMA ClaimsOfAppend ==
    ASSUME locks \in Seq(LockRecord), NEW r \in LockRecord, locks' = Append(locks, r)
    PROVE  /\ Claims' = Claims \cup {r.claim} /\ locks' \in Seq(LockRecord)
           /\ \A k \in 1 .. Len(locks') :
                 locks'[k] = r \/ (k \in 1 .. Len(locks) /\ locks'[k] = locks[k])
<1>1. /\ Len(locks') = Len(locks) + 1 /\ Len(locks) \in Nat
      /\ \A k \in 1 .. Len(locks) : locks'[k] = locks[k]
      /\ locks'[Len(locks) + 1] = r /\ locks' \in Seq(LockRecord)
    BY AppendProperties, LenProperties
<1>2. 1 .. Len(locks') = (1 .. Len(locks)) \cup {Len(locks) + 1}
    BY <1>1
<1>3. Claims' = Claims \cup {r.claim}
    BY <1>1, <1>2 DEF Claims
<1> QED
    BY <1>1, <1>2, <1>3

\* What any step does to claim_locks.jsonl: nothing, or the record of the command line or
\* of the call being handled, of a claim there is or of the next one.
LEMMA LocksStep ==
    ASSUME AllowedInv, [Next]_vars
    PROVE  \/ locks' = locks
           \/ \E r \in LockRecord :
                 /\ locks' = Append(locks, r)
                 /\ r.by = None \/ (pc \in Effects /\ r.by = Here)
                 /\ r.claim \in Claims \/ r.claim = NewClaim
<1>0. StdinOK /\ NewClaim \in Nat /\ Claims \subseteq Nat
  <2>1. PICK k \in Nat : Claims = 1 .. k
    BY DEF AllowedInv
  <2>2. Cardinality(Claims) = k
    BY <2>1, FS_Interval
  <2> QED
    BY <2>1, <2>2 DEF AllowedInv, NewClaim
<1>1. ASSUME NEW c \in Nat, NEW s \in Status, NEW call \in Nat \X Nat
      PROVE  /\ Record(c, s, call) \in LockRecord /\ Record(c, s, call).claim = c
             /\ Record(c, s, call).by = call
    BY DEF Record, LockRecord
<1>2. pc \in Effects => Here \in Nat \X Nat
  <2>1. pc \in Effects => life \in Life
    BY DEF AllowedInv, StdinOK
  <2>2. \A l \in Life : l \in Nat /\ taken[l] \in Nat
    BY <1>0, McpServerAssumption DEF StdinOK, Life
  <2> QED
    BY <2>1, <2>2 DEF Here
<1>3. "LOCKED" \in Status /\ "SETTLED" \in Status /\ None \in Nat \X Nat
    BY DEF Status, None
<1>4. CASE LockAppend /\ locks' # locks
  <2>1. pc \in Effects /\ locks' = Append(locks, Record(NewClaim, "LOCKED", Here))
    BY <1>4 DEF LockAppend, Effects
  <2> QED
    BY <1>0, <1>1, <1>2, <1>3, <2>1
<1>5. CASE SettleAppend /\ locks' # locks
  <2>1. /\ pc \in Effects /\ pc = "checks"
        /\ locks' = Append(locks, Record(sent[life][taken[life]].claim, "SETTLED", Here))
    BY <1>5 DEF SettleAppend, Effects, At, Here
  <2>2. sent[life][taken[life]].claim \in Claims
    BY <2>1 DEF AllowedInv
  <2> DEFINE r == Record(sent[life][taken[life]].claim, "SETTLED", Here)
  <2>3. sent[life][taken[life]].claim \in Nat /\ Here \in Nat \X Nat
    BY <1>0, <1>2, <2>1, <2>2
  <2>4. /\ r \in LockRecord /\ r.claim = sent[life][taken[life]].claim /\ r.by = Here
    BY <1>1, <1>3, <2>3
  <2>5. locks' = Append(locks, r)
    BY <2>1
  <2> HIDE DEF r
  <2> QED
    BY <2>1, <2>2, <2>4, <2>5
<1>6. CASE CliLock
  <2>1. locks' = Append(locks, Record(NewClaim, "LOCKED", None))
    BY <1>6 DEF CliLock
  <2> QED
    BY <1>0, <1>1, <1>3, <2>1
<1>7. CASE CliSettle
  <2>1. PICK c \in Claims : locks' = Append(locks, Record(c, "SETTLED", None))
    BY <1>7 DEF CliSettle
  <2> QED
    BY <1>0, <1>1, <1>3, <2>1
<1>8. ASSUME NEW i, Take(i) PROVE locks' = locks
    BY <1>0, <1>8, TakeStep DEF store
<1>9. CASE \/ \E f \in SUBSET {"write", "execute"} : Start(f)
           \/ \E m \in Messages : Send(m)
           \/ LockInitialize \/ WriteReport \/ Answer \/ CheckReads \/ Die
    BY <1>9 DEF Start, Send, LockInitialize, WriteReport, Answer, CheckReads, Die, store
<1>10. CASE UNCHANGED vars
    BY <1>10 DEF vars
<1> QED
    BY <1>4, <1>5, <1>6, <1>7, <1>8, <1>9, <1>10 DEF Next, Serve

\* Which call a report can be of, after any step.
LEMMA ReportStep ==
    ASSUME StdinOK, [Next]_vars
    PROVE  report' = report \/ (pc \in Effects /\ report' = Here)
<1>1. CASE WriteReport
    BY <1>1 DEF WriteReport, Effects
<1>2. ASSUME NEW i, Take(i) PROVE report' = report
    BY <1>2, TakeStep DEF store
<1>3. CASE \/ \E f \in SUBSET {"write", "execute"} : Start(f)
           \/ \E m \in Messages : Send(m)
           \/ LockInitialize \/ LockAppend \/ SettleAppend \/ Answer \/ CheckReads \/ Die
           \/ CliLock \/ CliSettle
    BY <1>3 DEF Start, Send, LockInitialize, LockAppend, SettleAppend, Answer, CheckReads,
                Die, CliLock, CliSettle, store
<1>4. CASE UNCHANGED vars
    BY <1>4 DEF vars
<1> QED
    BY <1>1, <1>2, <1>3, <1>4 DEF Next, Serve

\* A call that is taken and begins to have effects is one that may.
LEMMA TakenMayWrite ==
    ASSUME AllowedInv, NEW i \in Unread, initialized, FirstStep(sent[life][i]) \in Effects
    PROVE  MayWrite(<<life, i>>, life, flags, sent, swallowed, [taken EXCEPT ![life] = i])
<1> DEFINE m == sent[life][i]
<1>0. /\ StdinOK /\ up /\ life \in Life /\ i \in Nat /\ i > taken[life] /\ i \notin swallowed[life]
      /\ taken[life] \in Nat /\ m \in Messages
    BY UnreadFacts DEF AllowedInv, StdinOK
<1>1. m.kind = "call" /\ CanRun(m)
  <2>1. CanRun(m)
    BY DEF FirstStep, Effects
  <2> QED
    BY <2>1 DEF CanRun
<1>2. m \in Calls
    BY <1>0, <1>1, McpServerAssumption DEF Message
<1>3. m.tool \in {"lock_auto", "settle", "xray_generate"}
    BY <1>1 DEF FirstStep, Effects
<1>4. Permission(m.tool) \in flags[life] \cup {"read"}
    BY <1>1 DEF CanRun, Allowed
<1>5. Permission(m.tool) # "read"
    BY <1>3 DEF Permission
<1>6. PICK j \in (1 .. taken[life]) \ swallowed[life] : sent[life][j].kind = "initialize"
    BY DEF AllowedInv, SeenInitialize
<1>7. j \in (1 .. i) \ swallowed[life] /\ i \in 1 .. i
    BY <1>0, <1>6
<1>8. [taken EXCEPT ![life] = i][life] = i
    BY <1>0 DEF StdinOK
<1>9. life \in 1 .. life
    BY <1>0, McpServerAssumption DEF Life
<1> QED
    BY <1>0, <1>1, <1>4, <1>5, <1>6, <1>7, <1>8, <1>9 DEF MayWrite

\* What the server does after any step, if it is something with an effect.
LEMMA HandledMayWrite ==
    ASSUME AllowedInv, [Next]_vars, pc' \in Effects
    PROVE  /\ up' /\ MayWrite(Here', life', flags', sent', swallowed', taken')
           /\ pc' = "checks" => sent'[life'][taken'[life']].claim \in Claims
<1>0. StdinOK /\ Effects = {"initialize", "lock", "checks", "report"}
    BY DEF AllowedInv, Effects
<1>1. ASSUME pc \in Effects, pc' = "checks" => pc = "checks", UNCHANGED <<life, up, taken>>
      PROVE  /\ up' /\ MayWrite(Here', life', flags', sent', swallowed', taken')
             /\ pc' = "checks" => sent'[life'][taken'[life']].claim \in Claims
  <2>1. up /\ MayWrite(Here, life, flags, sent, swallowed, taken) /\ Here' = Here
    BY <1>1 DEF AllowedInv, Here
  <2>2. MayWrite(Here, life', flags', sent', swallowed', taken')
    BY <1>0, <2>1, MayWriteStep
  <2>3. Kept /\ life \in 1 .. life /\ taken[life] \in 1 .. taken[life]
    BY <1>0, <2>1, StdinStep DEF MayWrite, Here
  <2>4. sent'[life][taken[life]] = sent[life][taken[life]]
    BY <2>3 DEF Kept
  <2> QED
    BY <1>1, <2>1, <2>2, <2>4 DEF AllowedInv
<1>2. ASSUME NEW i, Take(i)
      PROVE  /\ up' /\ MayWrite(Here', life', flags', sent', swallowed', taken')
             /\ pc' = "checks" => sent'[life'][taken'[life']].claim \in Claims
  <2>1. /\ i \in Unread /\ pc = "read" /\ taken' = [taken EXCEPT ![life] = i]
        /\ \/ GoDown(i)
           \/ pc' = pc
           \/ /\ UNCHANGED <<stdin, up>> /\ pc' = FirstStep(sent[life][i])
              /\ initialized' = (initialized \/ sent[life][i].kind = "initialize")
    BY <1>0, <1>2, TakeStep
  <2>2. ~GoDown(i) /\ pc' # pc
    BY <1>0, <2>1 DEF GoDown
  <2>3. /\ UNCHANGED <<life, up, flags, sent, swallowed>> /\ pc' = FirstStep(sent[life][i])
    BY <2>1, <2>2 DEF stdin
  <2>4. CanRun(sent[life][i]) /\ initialized
    BY <1>0, <2>3 DEF FirstStep, CanRun
  <2>5. up /\ life \in Life /\ taken'[life] = i
    BY <1>0, <2>1, UnreadFacts DEF StdinOK
  <2>6. MayWrite(<<life, i>>, life, flags, sent, swallowed, taken')
    BY <2>1, <2>3, <2>4, TakenMayWrite
  <2>7. Here' = <<life, i>>
    BY <2>3, <2>5 DEF Here
  <2>8. pc' = "checks" => sent[life][i].claim \in Claims
    BY <2>3 DEF FirstStep
  <2> QED
    BY <2>3, <2>5, <2>6, <2>7, <2>8
<1>3. CASE \/ \E f \in SUBSET {"write", "execute"} : Start(f)
           \/ LockAppend \/ SettleAppend \/ WriteReport \/ Answer \/ Die
  <2>1. ASSUME NEW f \in SUBSET {"write", "execute"}, Start(f) PROVE FALSE
    BY <1>0, <2>1 DEF Start, AllowedInv
  <2>2. CASE LockAppend \/ SettleAppend \/ WriteReport \/ Answer \/ Die
    BY <1>0, <2>2 DEF LockAppend, SettleAppend, WriteReport, Answer, Die, GoDown
  <2> QED
    BY <1>3, <2>1, <2>2
<1>4. CASE LockInitialize
    BY <1>0, <1>1, <1>4 DEF LockInitialize, Raises, stdin
<1>5. CASE CheckReads \/ CliLock \/ CliSettle \/ \E m \in Messages : Send(m)
    BY <1>0, <1>1, <1>5 DEF CheckReads, CliLock, CliSettle, Send, stdin
<1>6. CASE UNCHANGED vars
    BY <1>0, <1>1, <1>6 DEF vars
<1> QED
    BY <1>2, <1>3, <1>4, <1>5, <1>6 DEF Next, Serve

\* Whether the server has seen initialize, after any step.
LEMMA InitializedStep ==
    ASSUME AllowedInv, [Next]_vars, initialized'
    PROVE  up' /\ SeenInitialize(life', sent', swallowed', taken')
<1>0. StdinOK
    BY DEF AllowedInv
<1>1. ASSUME initialized, UNCHANGED <<life, up>>
      PROVE  up' /\ SeenInitialize(life', sent', swallowed', taken')
    BY <1>0, <1>1, SeenStep DEF AllowedInv
<1>2. ASSUME NEW i, Take(i)
      PROVE  up' /\ SeenInitialize(life', sent', swallowed', taken')
  <2>1. /\ i \in Unread /\ taken' = [taken EXCEPT ![life] = i]
        /\ \/ GoDown(i)
           \/ initialized' = initialized /\ UNCHANGED <<stdin, up>>
           \/ /\ UNCHANGED <<stdin, up>>
              /\ initialized' = (initialized \/ sent[life][i].kind = "initialize")
    BY <1>0, <1>2, TakeStep
  <2>2. ~GoDown(i)
    BY DEF GoDown
  <2>3. UNCHANGED <<life, up, sent, swallowed>>
    BY <2>1, <2>2 DEF stdin
  <2>4. CASE initialized
    BY <1>1, <2>3, <2>4
  <2>5. CASE sent[life][i].kind = "initialize"
    <3>1. /\ up /\ life \in Life /\ i \in Nat /\ i > taken[life] /\ taken[life] \in Nat
          /\ i \notin swallowed[life] /\ taken'[life] = i
      BY <1>0, <2>1, UnreadFacts DEF StdinOK
    <3>2. i \in (1 .. taken'[life]) \ swallowed[life]
      BY <3>1
    <3> QED
      BY <2>3, <2>5, <3>1, <3>2 DEF SeenInitialize
  <2> QED
    BY <2>1, <2>2, <2>4, <2>5
<1>3. CASE Die \/ \E f \in SUBSET {"write", "execute"} : Start(f)
    BY <1>3 DEF Die, GoDown, Start
<1>4. CASE \/ LockInitialize \/ LockAppend \/ SettleAppend \/ WriteReport \/ Answer
           \/ CheckReads \/ CliLock \/ CliSettle
    BY <1>1, <1>4 DEF LockInitialize, LockAppend, SettleAppend, WriteReport, Answer,
                      CheckReads, CliLock, CliSettle, stdin
<1>5. CASE \E m \in Messages : Send(m)
    BY <1>1, <1>5 DEF Send
<1>6. CASE UNCHANGED vars
    BY <1>1, <1>6 DEF vars
<1> QED
    BY <1>2, <1>3, <1>4, <1>5, <1>6 DEF Next, Serve

LEMMA AllowedInit == Init => AllowedInv
<1> SUFFICES ASSUME Init PROVE AllowedInv
  OBVIOUS
<1>1. StdinOK
  <2>1. <<>> \in Seq(Messages) /\ Len(<<>>) = 0
    BY EmptySeq
  <2>2. /\ life = 0 /\ up = FALSE
        /\ flags \in [Life -> SUBSET {"write", "execute"}]
        /\ sent = [l \in Life |-> <<>>]
        /\ swallowed \in [Life -> SUBSET Nat] /\ taken = [l \in Life |-> 0]
    BY DEF Init
  <2>3. \A l \in Life : Len(sent[l]) = 0 /\ taken[l] = 0
    BY <2>1, <2>2
  <2>4. sent \in [Life -> Seq(Messages)] /\ taken \in [Life -> Nat]
    BY <2>1, <2>2
  <2> QED
    <3>1. \A l \in Life : taken[l] <= Len(sent[l])
      BY <2>3
    <3>2. life \in 0 .. MaxLives
      BY <2>2, McpServerAssumption
    <3> QED
      BY <2>2, <2>4, <3>1, <3>2 DEF StdinOK
<1>2. Claims = 1 .. 0 /\ locks \in Seq(LockRecord) /\ Len(locks) = 0
  BY EmptySeq DEF Init, Claims
<1>3. pc \notin Effects
  BY DEF Init, Effects
<1>4. report = None /\ ~initialized /\ pc = "read"
  BY DEF Init, None
<1> QED
  BY <1>1, <1>2, <1>3, <1>4 DEF AllowedInv

LEMMA AllowedStep == AllowedInv /\ [Next]_vars => AllowedInv'
<1> SUFFICES ASSUME AllowedInv, [Next]_vars PROVE AllowedInv'
  OBVIOUS
<1>0. StdinOK /\ StdinOK'
  BY StdinStep DEF AllowedInv
<1>1. initialized' => up' /\ SeenInitialize(life', sent', swallowed', taken')
  BY InitializedStep
<1>2. pc' \in Effects => /\ up' /\ MayWrite(Here', life', flags', sent', swallowed', taken')
                         /\ pc' = "checks" => sent'[life'][taken'[life']].claim \in Claims
  BY HandledMayWrite
<1>3. report' # None => MayWrite(report', life', flags', sent', swallowed', taken')
  <2>1. report' # None => MayWrite(report', life, flags, sent, swallowed, taken)
    BY <1>0, ReportStep DEF AllowedInv
  <2> QED
    BY <1>0, <2>1, MayWriteStep
<1>5. \A k \in 1 .. Len(locks) : locks[k].by # None =>
          MayWrite(locks[k].by, life', flags', sent', swallowed', taken')
  BY <1>0, MayWriteStep DEF AllowedInv
<1>6. CASE locks' = locks
  <2>1. Claims' = Claims
    BY <1>6 DEF Claims
  <2>2. "checks" \in Effects
    BY DEF Effects
  <2>3. (\E k \in Nat : Claims = 1 .. k)'
    BY <2>1 DEF AllowedInv
  <2> QED
    BY <1>0, <1>1, <1>2, <1>3, <1>5, <1>6, <2>1, <2>2, <2>3 DEF AllowedInv
<1>7. ASSUME NEW r \in LockRecord, locks' = Append(locks, r),
             r.by = None \/ (pc \in Effects /\ r.by = Here),
             r.claim \in Claims \/ r.claim = NewClaim
      PROVE  AllowedInv'
  <2>1. /\ Claims' = Claims \cup {r.claim} /\ locks' \in Seq(LockRecord)
        /\ \A k \in 1 .. Len(locks') :
              locks'[k] = r \/ (k \in 1 .. Len(locks) /\ locks'[k] = locks[k])
    BY <1>7, ClaimsOfAppend DEF AllowedInv
  <2>2. r.by # None => MayWrite(r.by, life', flags', sent', swallowed', taken')
    BY <1>0, <1>7, MayWriteStep DEF AllowedInv
  <2>3. \A k \in 1 .. Len(locks') : locks'[k].by # None =>
            MayWrite(locks'[k].by, life', flags', sent', swallowed', taken')
    BY <1>5, <2>1, <2>2
  <2>4. (\E k \in Nat : Claims = 1 .. k)'
    <3>1. PICK k \in Nat : Claims = 1 .. k
      BY DEF AllowedInv
    <3>2. Cardinality(Claims) = k
      BY <3>1, FS_Interval
    <3>3. r.claim \in 1 .. k \/ r.claim = k + 1
      BY <1>7, <3>1, <3>2 DEF NewClaim
    <3>4. Claims' = 1 .. k \/ Claims' = 1 .. (k + 1)
      BY <2>1, <3>1, <3>3
    <3> QED
      BY <3>4
  <2>5. "checks" \in Effects /\ Claims \subseteq Claims'
    BY <2>1 DEF Effects
  <2> QED
    BY <1>0, <1>1, <1>2, <1>3, <2>1, <2>3, <2>4, <2>5 DEF AllowedInv
<1> QED
  BY <1>6, <1>7, LocksStep

\* Every record and report of the server goes back to a call of a tool that the flags of
\* that life allow, sent after an initialize that no check has swallowed: wherever the
\* server died, and with whatever flags it was started again.
THEOREM OnlyAllowedWrite == Spec => []OnlyAllowedCallsWrite
<1>1. AllowedInv => OnlyAllowedCallsWrite
  <2> SUFFICES ASSUME AllowedInv,
                      NEW call \in {report} \cup {locks[k].by : k \in 1 .. Len(locks)},
                      call # None
               PROVE  /\ At(call).kind = "call"
                      /\ Permission(At(call).tool) \in flags[call[1]]
                      /\ call[2] \notin swallowed[call[1]]
                      /\ \E i \in (1 .. call[2]) \ swallowed[call[1]] :
                            At(<<call[1], i>>).kind = "initialize"
    BY DEF OnlyAllowedCallsWrite
  <2>1. MayWrite(call, life, flags, sent, swallowed, taken)
    BY DEF AllowedInv
  <2>2. \A l, i : At(<<l, i>>) = sent[l][i]
    BY DEF At
  <2>3. At(call) = sent[call[1]][call[2]]
    BY DEF At
  <2> HIDE DEF At
  <2> QED
    BY <2>1, <2>2, <2>3 DEF MayWrite
<1> QED
    BY <1>1, AllowedInit, AllowedStep, PTL DEF Spec

-----------------------------------------------------------------------------
(* The answers.  A message is owed an answer once it is taken, until the answer  *)
(* is out or a death cuts it off, and the server owes one at a time: that puts   *)
(* the answers in order.  What an answer tells was fixed by the record its call  *)
(* has written, and no record of that call comes after it.                       *)

\* A message the server has taken that wants an answer.
Owed(call, s, w, t) ==
    /\ call[2] \in (1 .. t[call[1]]) \ w[call[1]]
    /\ s[call[1]][call[2]].kind \notin {"notification", "fatal"}

\* What a call answered with claim c has written to claim_locks.jsonl: one record, of
\* that claim, or none if c is 0.
Told(call, c, ls, tool) ==
    IF c = 0 THEN \A k \in 1 .. Len(ls) : ls[k].by # call
    ELSE \E k \in 1 .. Len(ls) :
            /\ \A j \in 1 .. Len(ls) : ls[j].by = call <=> j = k
            /\ ls[k].claim = c
            /\ ls[k].status = "LOCKED" <=> tool = "lock_auto"

Current == sent[life][taken[life]]

ReplyRecord  == [kind : {"result", "toolerror", "rpcerror", "none"}, claim : Nat]
AnswerRecord == [to : Call, reply : ReplyRecord]

TakenInv == \A l \in Life : taken[l] <= MaxMessages /\ (l > life => taken[l] = 0)

\* The message being handled is owed an answer.  Its call has written nothing before its
\* effect, and what the answer will tell after it.
ServingInv ==
    /\ pc \in Effects \cup {"read", "answer"}
    /\ reply \in ReplyRecord
    /\ pc # "read" => up /\ Owed(Here, sent, swallowed, taken)
    /\ pc \in {"initialize", "lock"} => Current.tool = "lock_auto"
    /\ pc = "checks" => Current.tool = "settle"
    /\ pc \in Effects => \A k \in 1 .. Len(locks) : locks[k].by # Here
    /\ pc = "answer" => Told(Here, reply.claim, locks, Current.tool)

\* A life cuts off at most one message, by its end.
CutInv ==
    /\ \A c \in cut : /\ c \in Call /\ c[1] <= life
                      /\ c[2] \in 1 .. taken[c[1]]
                      /\ c[1] = life => ~up
    /\ \A c, d \in cut : c[1] = d[1] => c = d

\* What the answers tell is so.
ToldInv ==
    \A n \in 1 .. Len(answers) :
        Told(answers[n].to, answers[n].reply.claim, locks,
             sent[answers[n].to[1]][answers[n].to[2]].tool)

\* A record that no answer tells of is of the command line, or of a message whose
\* answer is due or was cut off.
AccountedInv ==
    \A k \in 1 .. Len(locks) :
        \/ locks[k].by \in {None} \cup Handling \cup cut
        \/ \E n \in 1 .. Len(answers) : answers[n].to = locks[k].by

AnswersInv ==
    /\ AllowedInv
    /\ TakenInv
    /\ ServingInv
    /\ CutInv
    /\ answers \in Seq(AnswerRecord)
    /\ AnsweredInOrder
    /\ ToldInv
    /\ AccountedInv

\* A call is a life of the server and the place of a message in it.
LEMMA CallIsPair ==
    ASSUME NEW call \in Call
    PROVE  /\ call[1] \in Life /\ call[2] \in 1 .. MaxMessages /\ call = <<call[1], call[2]>>
           /\ call[1] \in Nat /\ call[2] \in Nat /\ call # None
    BY McpServerAssumption DEF Call, Life, None

\* What the loop does with the message it takes, with the answer it gets ready.
LEMMA TakeReplies ==
    ASSUME StdinOK, NEW i \in 1 .. MaxMessages, Take(i)
    PROVE  /\ i \in Unread /\ pc = "read" /\ taken' = [taken EXCEPT ![life] = i]
           /\ UNCHANGED <<answers, cut, store>>
           /\ \/ /\ sent[life][i].kind = "fatal" /\ GoDown(i)
              \/ /\ sent[life][i].kind = "notification"
                 /\ UNCHANGED <<stdin, up, pc, reply>>
              \/ /\ sent[life][i].kind \notin {"fatal", "notification"}
                 /\ UNCHANGED <<stdin, up>> /\ pc' = FirstStep(sent[life][i])
                 /\ reply' = Answered(sent[life][i])
    BY DEF Take, Handle

\* The steps in which nothing is taken.
LEMMA TakenOrNot ==
    ASSUME [Next]_vars
    PROVE  taken' = taken \/ \E i \in 1 .. MaxMessages : Take(i)
<1>1. CASE \E f \in SUBSET {"write", "execute"} : Start(f)
    BY <1>1 DEF Start
<1>2. CASE \E m \in Messages : Send(m)
    BY <1>2 DEF Send
<1>3. CASE \/ LockInitialize \/ LockAppend \/ SettleAppend \/ WriteReport \/ Answer
           \/ CheckReads \/ Die \/ CliLock \/ CliSettle
    BY <1>3 DEF LockInitialize, LockAppend, SettleAppend, WriteReport, Answer, CheckReads,
                Die, CliLock, CliSettle
<1>4. CASE UNCHANGED vars
    BY <1>4 DEF vars
<1> QED
    BY <1>1, <1>2, <1>3, <1>4 DEF Next, Serve

\* What is owed is owed for good, and only the message just taken is owed anew: those
\* passed over had been swallowed.
LEMMA OwedStep ==
    ASSUME StdinOK, TakenInv, [Next]_vars, NEW call \in Call
    PROVE  /\ taken' = taken =>
                 (Owed(call, sent', swallowed', taken') <=> Owed(call, sent, swallowed, taken))
           /\ \A i \in 1 .. MaxMessages : Take(i) =>
                 (Owed(call, sent', swallowed', taken') <=>
                    \/ Owed(call, sent, swallowed, taken)
                    \/ /\ call = <<life, i>>
                       /\ sent[life][i].kind \notin {"notification", "fatal"})
<1> DEFINE l == call[1]
           n == call[2]
<1>1. l \in Life /\ n \in Nat /\ n >= 1 /\ call = <<l, n>> /\ l \in Nat /\ taken[l] \in Nat
    BY CallIsPair DEF StdinOK
<1>2. Kept /\ StdinOK'
    BY StdinStep
<1>3. CASE n <= taken[l]
  <2>1. l \in 1 .. life
    <3>1. ~(l > life) /\ life \in Nat /\ l >= 1
      BY <1>1, <1>3, McpServerAssumption DEF TakenInv, StdinOK, Life
    <3> QED
      BY <1>1, <3>1
  <2>2. /\ n \in 1 .. taken[l] /\ taken[l] <= taken'[l] /\ taken'[l] \in Nat
        /\ sent'[l][n] = sent[l][n] /\ (n \in swallowed'[l] <=> n \in swallowed[l])
    BY <1>1, <1>2, <1>3, <2>1 DEF Kept, StdinOK
  <2>3. n \in 1 .. taken'[l]
    BY <1>1, <2>2
  <2>4. Owed(call, sent', swallowed', taken') <=> Owed(call, sent, swallowed, taken)
    BY <2>2, <2>3 DEF Owed
  <2>5. ASSUME NEW i \in 1 .. MaxMessages, Take(i) PROVE call # <<life, i>>
    <3>1. i > taken[life] /\ i \in Nat
      BY <2>5, TakeReplies, UnreadFacts
    <3> QED
      BY <1>1, <1>3, <3>1
  <2> QED
    BY <2>4, <2>5
<1>4. CASE n > taken[l]
  <2>1. ~Owed(call, sent, swallowed, taken)
    BY <1>1, <1>4 DEF Owed
  <2>2. taken' = taken => ~Owed(call, sent', swallowed', taken')
    BY <1>1, <1>4 DEF Owed
  <2>3. ASSUME NEW i \in 1 .. MaxMessages, Take(i)
        PROVE  Owed(call, sent', swallowed', taken') <=>
                  (call = <<life, i>> /\ sent[life][i].kind \notin {"notification", "fatal"})
    <3>1. /\ i \in Unread /\ taken' = [taken EXCEPT ![life] = i]
          /\ \A j \in Unread : i <= j
          /\ GoDown(i) \/ UNCHANGED <<stdin, up>>
      BY <2>3, TakeReplies DEF Take
    <3>2. /\ up /\ life \in Life /\ i \in Nat /\ i > taken[life] /\ i <= Len(sent[life])
          /\ i \notin swallowed[life] /\ taken[life] \in Nat /\ Len(sent[life]) \in Nat
      BY <3>1, UnreadFacts, LenProperties DEF StdinOK
    <3>3. taken'[life] = i /\ \A k \in Life : k # life => taken'[k] = taken[k]
      BY <3>1, <3>2 DEF StdinOK
    <3>4. CASE l # life
      BY <1>1, <1>4, <3>3, <3>4 DEF Owed
    <3>5. CASE l = life
      <4>1. \A j \in 1 .. i : /\ sent'[life][j] = sent[life][j]
                              /\ j \in swallowed'[life] <=> j \in swallowed[life]
        <5>1. CASE GoDown(i)
          BY <3>2, <5>1, DownStep
        <5>2. CASE UNCHANGED <<stdin, up>>
          BY <5>2 DEF stdin
        <5> QED
          BY <3>1, <5>1, <5>2
      <4>2. n < i => n \in swallowed[life]
        <5> SUFFICES ASSUME n < i, n \notin swallowed[life] PROVE FALSE
          OBVIOUS
        <5>1. n \in taken[life] + 1 .. Len(sent[life])
          BY <1>1, <1>4, <3>2, <3>5
        <5>2. n \in Unread
          BY <3>2, <5>1 DEF Unread
        <5> QED
          BY <1>1, <3>1, <3>2, <5>2
      <4>3. i \in 1 .. i /\ (n <= i => n \in 1 .. i)
        BY <1>1, <3>2
      <4>4. n = i => (Owed(call, sent', swallowed', taken') <=>
                         sent[life][i].kind \notin {"notification", "fatal"})
        BY <3>2, <3>3, <3>5, <4>1, <4>3 DEF Owed
      <4>5. n # i => ~Owed(call, sent', swallowed', taken')
        BY <1>1, <3>2, <3>3, <3>5, <4>1, <4>2, <4>3 DEF Owed
      <4> QED
        BY <1>1, <3>5, <4>4, <4>5
    <3> QED
      BY <3>4, <3>5
  <2> QED
    BY <2>1, <2>2, <2>3, TakenOrNot
<1> QED
    BY <1>1, <1>3, <1>4

LEMMA TakenStep ==
    ASSUME StdinOK, TakenInv, [Next]_vars
    PROVE  TakenInv' /\ life' \in {life, life + 1}
<1>1. ASSUME NEW f \in SUBSET {"write", "execute"}, Start(f) PROVE life' = life + 1 /\ taken' = taken
    BY <1>1 DEF Start
<1>2. CASE life' = life /\ taken' = taken
    BY <1>2 DEF TakenInv
<1>3. ASSUME NEW i \in 1 .. MaxMessages, Take(i) PROVE TakenInv' /\ life' = life
  <2>1. taken' = [taken EXCEPT ![life] = i] /\ life' = life /\ life \in Life /\ life \in Nat
    <3>1. /\ i \in Unread /\ taken' = [taken EXCEPT ![life] = i]
          /\ GoDown(i) \/ UNCHANGED <<stdin, up>>
      BY <1>3, TakeReplies
    <3>2. life' = life
      BY <3>1 DEF GoDown, stdin
    <3>3. life \in Life
      BY <3>1, UnreadFacts
    <3> QED
      BY <3>1, <3>2, <3>3, McpServerAssumption DEF Life
  <2>2. taken'[life] = i /\ i <= MaxMessages /\ \A l \in Life : l # life => taken'[l] = taken[l]
    BY <2>1, McpServerAssumption DEF StdinOK
  <2> QED
    BY <2>1, <2>2 DEF TakenInv
<1>4. ASSUME life' = life + 1, taken' = taken PROVE TakenInv'
  <2>1. life \in Nat /\ \A l \in Life : l \in Nat /\ (l > life + 1 => l > life)
    BY McpServerAssumption DEF StdinOK, Life
  <2> QED
    BY <1>4, <2>1 DEF TakenInv
<1>5. CASE \/ LockInitialize \/ LockAppend \/ SettleAppend \/ WriteReport \/ Answer
           \/ CheckReads \/ Die \/ CliLock \/ CliSettle \/ \E m \in Messages : Send(m)
    BY <1>2, <1>5 DEF LockInitialize, LockAppend, SettleAppend, WriteReport, Answer, CheckReads,
                Die, CliLock, CliSettle, GoDown, Send, stdin
<1>6. CASE UNCHANGED vars
    BY <1>2, <1>6 DEF vars
<1> QED
    BY <1>1, <1>2, <1>3, <1>4, <1>5, <1>6 DEF Next, Serve

-----------------------------------------------------------------------------
(* The records of a call *)

\* A record of another call changes nothing for a call answered before.
LEMMA ToldStays ==
    ASSUME NEW ls \in Seq(LockRecord), NEW r \in LockRecord, NEW call, NEW c, NEW tool,
           Told(call, c, ls, tool), r.by # call
    PROVE  Told(call, c, Append(ls, r), tool)
<1> DEFINE new == Append(ls, r)
<1>1. /\ Len(ls) \in Nat /\ Len(new) = Len(ls) + 1 /\ new[Len(ls) + 1] = r
      /\ \A k \in 1 .. Len(ls) : new[k] = ls[k]
    BY AppendProperties, LenProperties
<1> HIDE DEF new
<1>2. \A k \in 1 .. Len(new) : k \in 1 .. Len(ls) \/ k = Len(ls) + 1
    BY <1>1
<1>3. \A k \in 1 .. Len(ls) : k \in 1 .. Len(new) /\ k # Len(ls) + 1
    BY <1>1
<1>4. CASE c = 0
    BY <1>1, <1>2, <1>4 DEF Told, new
<1>5. CASE c # 0
  <2>1. PICK k \in 1 .. Len(ls) :
            /\ \A j \in 1 .. Len(ls) : ls[j].by = call <=> j = k
            /\ ls[k].claim = c
            /\ ls[k].status = "LOCKED" <=> tool = "lock_auto"
    BY <1>5 DEF Told
  <2>2. \A j \in 1 .. Len(new) : new[j].by = call <=> j = k
    BY <1>1, <1>2, <1>3, <2>1
  <2>3. k \in 1 .. Len(new) /\ new[k] = ls[k]
    BY <1>1, <1>3
  <2> QED
    BY <1>5, <2>1, <2>2, <2>3 DEF Told, new
<1> QED
    BY <1>4, <1>5

\* The first record of a call is what its answer will tell.
LEMMA ToldBegins ==
    ASSUME NEW ls \in Seq(LockRecord), NEW r \in LockRecord, NEW tool,
           \A k \in 1 .. Len(ls) : ls[k].by # r.by,
           r.claim # 0, r.status = "LOCKED" <=> tool = "lock_auto"
    PROVE  Told(r.by, r.claim, Append(ls, r), tool)
<1> DEFINE new == Append(ls, r)
<1>1. /\ Len(ls) \in Nat /\ Len(new) = Len(ls) + 1 /\ new[Len(ls) + 1] = r
      /\ \A k \in 1 .. Len(ls) : new[k] = ls[k]
    BY AppendProperties, LenProperties
<1> HIDE DEF new
<1>2. \A k \in 1 .. Len(new) : k \in 1 .. Len(ls) \/ k = Len(ls) + 1
    BY <1>1
<1>3. Len(ls) + 1 \in 1 .. Len(new) /\ \A k \in 1 .. Len(ls) : k # Len(ls) + 1
    BY <1>1
<1>4. \A j \in 1 .. Len(new) : new[j].by = r.by <=> j = Len(ls) + 1
    BY <1>1, <1>2, <1>3
<1> QED
    BY <1>1, <1>3, <1>4 DEF Told, new

\* The next claim has a number, and so does the claim of the message that is settled.
LEMMA NextClaim ==
    ASSUME AllowedInv
    PROVE  NewClaim \in Nat /\ NewClaim # 0 /\ Claims \subseteq Nat /\ 0 \notin Claims
<1>1. PICK k \in Nat : Claims = 1 .. k
    BY DEF AllowedInv
<1>2. Cardinality(Claims) = k
    BY <1>1, FS_Interval
<1> QED
    BY <1>1, <1>2 DEF NewClaim

\* A step that appends a record, and what it makes of the handling.
LEMMA EffectStep ==
    ASSUME AllowedInv, ServingInv, LockAppend \/ SettleAppend, ~Raises
    PROVE  \E r \in LockRecord :
              /\ locks' = Append(locks, r) /\ r.by = Here /\ r.claim # 0
              /\ r.status = "LOCKED" <=> Current.tool = "lock_auto"
              /\ reply' = Reply("result", r.claim) /\ pc \in Effects /\ pc' = "answer"
              /\ UNCHANGED <<stdin, up, taken, answers, cut>>
<1>1. StdinOK /\ NewClaim \in Nat /\ NewClaim # 0 /\ Claims \subseteq Nat /\ 0 \notin Claims
    BY NextClaim DEF AllowedInv
<1>2. pc \in {"lock", "checks"} /\ pc \in Effects
    BY DEF LockAppend, SettleAppend, Effects
<1>3. up /\ life \in Life /\ life \in Nat /\ taken[life] \in Nat
    BY <1>1, <1>2, McpServerAssumption DEF AllowedInv, StdinOK, Life
<1>4. Here \in Nat \X Nat
    BY <1>3 DEF Here
<1>5. CASE LockAppend
  <2> DEFINE r == Record(NewClaim, "LOCKED", Here)
  <2>1. r \in LockRecord /\ r.by = Here /\ r.claim = NewClaim /\ r.status = "LOCKED"
    BY <1>1, <1>4 DEF Record, LockRecord, Status
  <2>2. Current.tool = "lock_auto"
    BY <1>5 DEF LockAppend, ServingInv
  <2>3. /\ locks' = Append(locks, r) /\ reply' = Reply("result", NewClaim) /\ pc' = "answer"
        /\ UNCHANGED <<stdin, up, taken, answers, cut>>
    BY <1>5 DEF LockAppend
  <2> HIDE DEF r
  <2> QED
    BY <1>1, <1>2, <2>1, <2>2, <2>3
<1>6. CASE SettleAppend
  <2> DEFINE c == At(Here).claim
             r == Record(c, "SETTLED", Here)
  <2>1. c \in Claims
    BY <1>6 DEF SettleAppend, AllowedInv, At, Here
  <2>2. r \in LockRecord /\ r.by = Here /\ r.claim = c /\ r.status = "SETTLED"
    BY <1>1, <1>4, <2>1 DEF Record, LockRecord, Status
  <2>3. Current.tool = "settle"
    BY <1>6 DEF SettleAppend, ServingInv
  <2>4. /\ locks' = Append(locks, r) /\ reply' = Reply("result", c) /\ pc' = "answer"
        /\ UNCHANGED <<stdin, up, taken, answers, cut>>
    BY <1>6 DEF SettleAppend
  <2> HIDE DEF r, c
  <2> QED
    BY <1>1, <1>2, <2>1, <2>2, <2>3, <2>4
<1> QED
    BY <1>5, <1>6

-----------------------------------------------------------------------------
(* The steps *)

\* A tool that raises has written nothing.
LEMMA RaisesStep ==
    ASSUME LockInitialize \/ LockAppend \/ SettleAppend, Raises
    PROVE  /\ pc \in Effects /\ pc' = "answer" /\ reply' = Reply("toolerror", 0)
           /\ UNCHANGED <<stdin, up, taken, answers, cut, locks>>
<1>1. \A c : Reply("result", c) # Reply("toolerror", 0)
  <2>1. \A c : Reply("result", c).kind = "result" /\ Reply("toolerror", 0).kind = "toolerror"
    BY DEF Reply
  <2> QED
    BY <2>1
<1>2. reply' = Reply("toolerror", 0) /\ pc' = "answer"
    BY DEF Raises
<1> QED
    BY <1>1, <1>2 DEF LockInitialize, LockAppend, SettleAppend, Effects

\* The message being handled stays what it is while it is handled.
LEMMA CurrentStays ==
    ASSUME StdinOK, TakenInv, ServingInv, [Next]_vars, pc # "read", UNCHANGED <<life, taken>>
    PROVE  /\ Here' = Here /\ Current' = Current /\ Here \in Call
           /\ Owed(Here, sent', swallowed', taken')
<1>1. up /\ Owed(Here, sent, swallowed, taken) /\ life \in Life /\ life \in Nat /\ life >= 1
    BY McpServerAssumption DEF ServingInv, StdinOK, Life
<1>2. taken[life] \in 1 .. taken[life] /\ taken[life] \in Nat /\ taken[life] <= MaxMessages
    BY <1>1 DEF Owed, Here, StdinOK, TakenInv
<1>3. Here' = Here
    BY DEF Here
<1>4. Here \in Call
    BY <1>1, <1>2, McpServerAssumption DEF Here, Call
<1>5. sent'[life][taken[life]] = sent[life][taken[life]]
    BY <1>1, <1>2, StdinStep DEF Kept
<1>6. Owed(Here, sent', swallowed', taken')
    BY <1>1, <1>4, OwedStep
<1> QED
    BY <1>3, <1>4, <1>5, <1>6 DEF Current

\* The command line appends a record that is of no call.
LEMMA CliStep ==
    ASSUME AllowedInv, CliLock \/ CliSettle
    PROVE  /\ \E r \in LockRecord : locks' = Append(locks, r) /\ r.by = None
           /\ UNCHANGED <<stdin, up, taken, pc, reply, answers, cut>>
<1>1. NewClaim \in Nat /\ Claims \subseteq Nat
    BY NextClaim
<1>2. \A c \in Nat, s \in Status : /\ Record(c, s, None) \in LockRecord
                                   /\ Record(c, s, None).by = None
    BY DEF Record, LockRecord, None
<1> QED
    BY <1>1, <1>2 DEF CliLock, CliSettle, Status

\* The call that is taken has written nothing: the records are of calls taken before.
LEMMA NewCallWroteNothing ==
    ASSUME AllowedInv, NEW i \in Unread
    PROVE  \A k \in 1 .. Len(locks) : locks[k].by # <<life, i>>
<1>1. life \in Life /\ i > taken[life] /\ i \in Nat /\ taken[life] \in Nat
    BY UnreadFacts DEF AllowedInv, StdinOK
<1>2. life # 0
    BY <1>1, McpServerAssumption DEF Life
<1>3. SUFFICES ASSUME NEW k \in 1 .. Len(locks), locks[k].by = <<life, i>> PROVE FALSE
    OBVIOUS
<1>4. locks[k].by # None
    BY <1>2, <1>3 DEF None
<1>5. MayWrite(<<life, i>>, life, flags, sent, swallowed, taken)
    BY <1>3, <1>4 DEF AllowedInv
<1> QED
    BY <1>1, <1>5 DEF MayWrite

\* What a message that is taken turns the server to.
LEMMA FirstStepFacts ==
    ASSUME NEW m
    PROVE  /\ FirstStep(m) \in Effects \cup {"answer"}
           /\ FirstStep(m) \in {"initialize", "lock"} => m.tool = "lock_auto"
           /\ FirstStep(m) = "checks" => m.tool = "settle"
           /\ Answered(m) \in ReplyRecord /\ Answered(m).claim = 0
<1>1. /\ FirstStep(m) \in Effects \cup {"answer"}
      /\ FirstStep(m) \in {"initialize", "lock"} => m.tool = "lock_auto"
      /\ FirstStep(m) = "checks" => m.tool = "settle"
    BY DEF FirstStep, Effects
<1>2. \E kind \in {"result", "toolerror", "rpcerror"} : Answered(m) = Reply(kind, 0)
    BY DEF Answered
<1> QED
    BY <1>1, <1>2 DEF Reply, ReplyRecord

LEMMA ServingStep ==
    ASSUME AnswersInv, [Next]_vars
    PROVE  ServingInv'
<1>0. StdinOK /\ AllowedInv /\ TakenInv /\ ServingInv /\ locks \in Seq(LockRecord)
      /\ (pc # "read" => Here \in Nat \X Nat /\ Here # None)
  <2>1. StdinOK /\ AllowedInv /\ TakenInv /\ ServingInv /\ locks \in Seq(LockRecord)
    BY DEF AnswersInv, AllowedInv
  <2>2. pc # "read" => life \in Life /\ life # 0 /\ life \in Nat /\ taken[life] \in Nat
    BY <2>1, McpServerAssumption DEF ServingInv, StdinOK, Life
  <2> QED
    BY <2>1, <2>2 DEF Here, None
<1>1. ASSUME UNCHANGED <<life, up, taken, pc, reply>>,
             locks' = locks \/ \E r \in LockRecord : locks' = Append(locks, r) /\ r.by = None
      PROVE  ServingInv'
  <2>1. CASE pc = "read"
    BY <1>0, <1>1, <2>1 DEF ServingInv, Effects
  <2>2. CASE pc # "read"
    <3>1. Here' = Here /\ Current' = Current /\ Owed(Here, sent', swallowed', taken')
      BY <1>0, <1>1, <2>2, CurrentStays
    <3>2. pc \in Effects => \A k \in 1 .. Len(locks') : locks'[k].by # Here
      BY <1>0, <1>1, <2>2, ClaimsOfAppend DEF ServingInv
    <3>3. pc = "answer" => Told(Here, reply.claim, locks', Current.tool)
      BY <1>0, <1>1, <2>2, ToldStays DEF ServingInv
    <3> QED
      BY <1>0, <1>1, <3>1, <3>2, <3>3 DEF ServingInv
  <2> QED
    BY <2>1, <2>2
<1>2. ASSUME pc' = "read", reply' \in ReplyRecord PROVE ServingInv'
    BY <1>2 DEF ServingInv, Effects
<1>3. Reply("none", 0) \in ReplyRecord
    BY DEF Reply, ReplyRecord
<1>4. CASE Die \/ Answer
    BY <1>2, <1>3, <1>4 DEF Die, GoDown, Answer
<1>5. ASSUME NEW f \in SUBSET {"write", "execute"}, Start(f) PROVE ServingInv'
  <2>1. pc = "read"
    BY <1>0, <1>5 DEF Start, ServingInv
  <2> QED
    BY <1>0, <1>2, <1>5, <2>1 DEF Start, ServingInv
<1>6. CASE CheckReads \/ \E m \in Messages : Send(m)
    BY <1>1, <1>6 DEF CheckReads, Send, store
<1>7. CASE CliLock \/ CliSettle
    BY <1>0, <1>1, <1>7, CliStep DEF stdin
<1>8. CASE UNCHANGED vars
    BY <1>1, <1>8 DEF vars
<1>9. CASE LockInitialize \/ WriteReport \/ ((LockAppend \/ SettleAppend) /\ Raises)
  <2>1. /\ pc \in Effects /\ pc # "read" /\ UNCHANGED <<life, up, taken, locks>>
        /\ \/ pc = "initialize" /\ pc' = "lock" /\ reply' = reply
           \/ pc' = "answer" /\ \E kind \in {"result", "toolerror"} : reply' = Reply(kind, 0)
    <3>1. CASE LockInitialize \/ WriteReport
      BY <3>1 DEF LockInitialize, WriteReport, Raises, Effects, stdin
    <3>2. CASE (LockAppend \/ SettleAppend) /\ Raises
      BY <3>2, RaisesStep DEF Effects, stdin
    <3> QED
      BY <1>9, <3>1, <3>2
  <2>2. Here' = Here /\ Current' = Current /\ Owed(Here, sent', swallowed', taken')
    BY <1>0, <2>1, CurrentStays
  <2>3. \A k \in 1 .. Len(locks) : locks[k].by # Here
    BY <1>0, <2>1 DEF ServingInv
  <2>4. up /\ reply' \in ReplyRecord
    BY <1>0, <2>1 DEF ServingInv, Reply, ReplyRecord
  <2>5. pc' = "answer" => reply'.claim = 0
    BY <2>1 DEF Reply
  <2>6. pc' = "answer" => Told(Here, reply'.claim, locks, Current.tool)
    BY <2>3, <2>5 DEF Told
  <2>7. pc' = "lock" => Current.tool = "lock_auto"
    BY <1>0, <2>1 DEF ServingInv
  <2> QED
    BY <2>1, <2>2, <2>3, <2>4, <2>6, <2>7 DEF ServingInv, Effects
<1>10. CASE (LockAppend \/ SettleAppend) /\ ~Raises
  <2>1. PICK r \in LockRecord :
              /\ locks' = Append(locks, r) /\ r.by = Here /\ r.claim # 0
              /\ r.status = "LOCKED" <=> Current.tool = "lock_auto"
              /\ reply' = Reply("result", r.claim) /\ pc \in Effects /\ pc' = "answer"
              /\ UNCHANGED <<stdin, up, taken, answers, cut>>
    BY <1>0, <1>10, EffectStep
  <2>2. pc # "read" /\ UNCHANGED <<life, taken>>
    BY <2>1 DEF Effects, stdin
  <2>3. Here' = Here /\ Current' = Current /\ Owed(Here, sent', swallowed', taken')
    BY <1>0, <2>2, CurrentStays
  <2>4. reply'.claim = r.claim /\ reply' \in ReplyRecord
    BY <2>1 DEF Reply, ReplyRecord, LockRecord
  <2>5. Told(r.by, r.claim, Append(locks, r), Current.tool)
    BY <1>0, <2>1, ToldBegins DEF ServingInv
  <2>6. Told(Here, reply'.claim, locks', Current.tool)
    BY <2>1, <2>4, <2>5
  <2>7. up
    BY <1>0, <2>2 DEF ServingInv
  <2> QED
    BY <2>1, <2>3, <2>4, <2>6, <2>7 DEF ServingInv, Effects
<1>11. ASSUME NEW i \in 1 .. MaxMessages, Take(i) PROVE ServingInv'
  <2>1. /\ i \in Unread /\ pc = "read" /\ taken' = [taken EXCEPT ![life] = i]
        /\ UNCHANGED <<answers, cut, store>>
        /\ \/ GoDown(i)
           \/ UNCHANGED <<stdin, up, pc, reply>>
           \/ /\ sent[life][i].kind \notin {"fatal", "notification"}
              /\ UNCHANGED <<stdin, up>> /\ pc' = FirstStep(sent[life][i])
              /\ reply' = Answered(sent[life][i])
    BY <1>0, <1>11, TakeReplies
  <2>2. CASE GoDown(i) \/ UNCHANGED <<stdin, up, pc, reply>>
    BY <1>0, <1>2, <1>3, <2>1, <2>2 DEF GoDown, ServingInv
  <2>3. CASE /\ sent[life][i].kind \notin {"fatal", "notification"}
             /\ UNCHANGED <<stdin, up>> /\ pc' = FirstStep(sent[life][i])
             /\ reply' = Answered(sent[life][i])
    <3> DEFINE m == sent[life][i]
    <3>1. /\ up /\ life \in Life /\ taken'[life] = i /\ <<life, i>> \in Call
          /\ UNCHANGED <<life, up, flags, sent, swallowed, locks>>
      BY <1>0, <2>1, <2>3, UnreadFacts DEF StdinOK, stdin, store, Call
    <3>2. Here' = <<life, i>> /\ Current' = m
      BY <3>1 DEF Here, Current
    <3>3. Owed(<<life, i>>, sent', swallowed', taken')
      BY <1>0, <1>11, <2>3, <3>1, OwedStep
    <3>4. \A k \in 1 .. Len(locks) : locks[k].by # <<life, i>>
      BY <1>0, <2>1, NewCallWroteNothing
    <3>5. /\ pc' \in Effects \cup {"answer"}
          /\ pc' \in {"initialize", "lock"} => m.tool = "lock_auto"
          /\ pc' = "checks" => m.tool = "settle"
          /\ reply' \in ReplyRecord /\ reply'.claim = 0
      BY <2>3, FirstStepFacts
    <3>6. Told(<<life, i>>, reply'.claim, locks, m.tool)
      BY <3>4, <3>5 DEF Told
    <3> HIDE DEF m
    <3> QED
      BY <3>1, <3>2, <3>3, <3>4, <3>5, <3>6 DEF ServingInv
  <2> QED
    BY <2>1, <2>2, <2>3
<1> QED
    BY <1>4, <1>5, <1>6, <1>7, <1>8, <1>9, <1>10, <1>11 DEF Next, Serve

\* A server is only brought up by the start of a new life.
LEMMA LifeStep ==
    ASSUME StdinOK, [Next]_vars
    PROVE  \/ life' = life /\ (up' => up)
           \/ /\ \E f \in SUBSET {"write", "execute"} : Start(f)
              /\ life' = life + 1
<1>1. ASSUME NEW i \in 1 .. MaxMessages, Take(i) PROVE life' = life /\ (up' => up)
    BY <1>1, TakeReplies DEF GoDown, stdin
<1>2. CASE \E f \in SUBSET {"write", "execute"} : Start(f)
    BY <1>2 DEF Start
<1>3. CASE \/ LockInitialize \/ LockAppend \/ SettleAppend \/ WriteReport \/ Answer
           \/ CheckReads \/ Die \/ CliLock \/ CliSettle \/ \E m \in Messages : Send(m)
    BY <1>3 DEF LockInitialize, LockAppend, SettleAppend, WriteReport, Answer, CheckReads,
                Die, CliLock, CliSettle, GoDown, Send, stdin
<1>4. CASE UNCHANGED vars
    BY <1>4 DEF vars
<1> QED
    BY <1>1, <1>2, <1>3, <1>4 DEF Next, Serve

\* The message being handled is not among those cut off: its life goes on.
LEMMA HereIsNotCut ==
    ASSUME AnswersInv, pc # "read"
    PROVE  Here \notin cut /\ Here \in Call /\ Owed(Here, sent, swallowed, taken)
<1>1. up /\ Owed(Here, sent, swallowed, taken) /\ life \in Life /\ Here[1] = life
    BY DEF AnswersInv, AllowedInv, ServingInv, StdinOK, Here
<1>2. Here \notin cut
    BY <1>1 DEF AnswersInv, CutInv
<1>3. taken[life] \in 1 .. taken[life] /\ taken[life] \in Nat /\ taken[life] <= MaxMessages
    BY <1>1 DEF Owed, Here, StdinOK, TakenInv, AnswersInv, AllowedInv
<1>4. Here \in Call
    BY <1>1, <1>3, McpServerAssumption DEF Here, Call
<1> QED
    BY <1>1, <1>2, <1>4

LEMMA CutStep ==
    ASSUME AnswersInv, [Next]_vars
    PROVE  CutInv'
<1>0. /\ AllowedInv /\ StdinOK /\ TakenInv /\ CutInv /\ Kept /\ StdinOK' /\ life \in Nat
      /\ life' = life \/ life' = life + 1
  <2>1. AllowedInv /\ StdinOK /\ TakenInv /\ CutInv
    BY DEF AnswersInv, AllowedInv
  <2>2. life \in Nat
    BY <2>1, McpServerAssumption DEF StdinOK
  <2> QED
    BY <2>1, <2>2, StdinStep, TakenStep
<1>1. ASSUME NEW c \in Call, c[1] <= life, c[2] \in 1 .. taken[c[1]]
      PROVE  c[1] <= life' /\ c[2] \in 1 .. taken'[c[1]]
  <2>1. c[1] \in 1 .. life /\ c[1] \in Life /\ c[1] \in Nat
    BY <1>0, <1>1, CallIsPair, McpServerAssumption DEF Life
  <2>2. taken[c[1]] <= taken'[c[1]] /\ taken[c[1]] \in Nat /\ taken'[c[1]] \in Nat
    BY <1>0, <2>1 DEF Kept, StdinOK
  <2> QED
    BY <1>0, <1>1, <2>1, <2>2
<1>2. CASE cut' = cut
  <2>1. ASSUME NEW c \in cut, c[1] = life' PROVE ~up'
    <3>1. c \in Call /\ c[1] <= life /\ c[1] \in Nat
      BY <1>0, CallIsPair DEF CutInv
    <3>2. life' = life
      BY <1>0, <2>1, <3>1
    <3>3. ~up
      BY <1>0, <2>1, <3>2 DEF CutInv
    <3> QED
      BY <1>0, <3>2, <3>3, LifeStep
  <2> QED
    BY <1>0, <1>1, <1>2, <2>1 DEF CutInv
<1>3. CASE Die
  <2>1. /\ up /\ up' = FALSE /\ UNCHANGED <<life, taken>>
        /\ cut' = IF pc = "read" THEN cut ELSE cut \cup {Here}
    BY <1>3 DEF Die, GoDown
  <2>2. CASE pc = "read"
    BY <1>0, <2>1, <2>2 DEF CutInv
  <2>3. CASE pc # "read"
    <3>1. Here \in Call /\ Owed(Here, sent, swallowed, taken)
      BY <2>3, HereIsNotCut
    <3>2. Here[1] = life /\ Here[1] <= life /\ Here[2] \in 1 .. taken[Here[1]]
      BY <1>0, <3>1 DEF Owed, Here
    <3>3. \A c \in cut : c[1] # life
      BY <1>0, <2>1 DEF CutInv
    <3> HIDE DEF Here
    <3> QED
      BY <1>0, <2>1, <2>3, <3>1, <3>2, <3>3 DEF CutInv
  <2> QED
    BY <2>2, <2>3
<1>4. ASSUME NEW i \in 1 .. MaxMessages, Take(i) PROVE cut' = cut
    BY <1>4 DEF Take
<1>5. CASE \/ \E f \in SUBSET {"write", "execute"} : Start(f)
           \/ \E m \in Messages : Send(m)
           \/ LockInitialize \/ LockAppend \/ SettleAppend \/ WriteReport \/ Answer
           \/ CheckReads \/ CliLock \/ CliSettle
    BY <1>2, <1>5 DEF Start, Send, LockInitialize, LockAppend, SettleAppend, WriteReport,
                Answer, CheckReads, CliLock, CliSettle
<1>6. CASE UNCHANGED vars
    BY <1>2, <1>6 DEF vars
<1> QED
    BY <1>2, <1>3, <1>4, <1>5, <1>6 DEF Next, Serve

\* What a step does to the messages that are owed an answer: one is taken, one is
\* answered, one is cut off, or nothing happens to them.
LEMMA HandlingStep ==
    ASSUME AnswersInv, [Next]_vars
    PROVE  \/ UNCHANGED <<answers, taken, cut>> /\ Handling' = Handling
           \/ \E i \in 1 .. MaxMessages :
                 /\ Take(i) /\ UNCHANGED <<answers, cut>> /\ Handling = {}
                 /\ Handling' = IF sent[life][i].kind \in {"notification", "fatal"}
                                THEN {} ELSE {<<life, i>>}
           \/ /\ pc # "read" /\ UNCHANGED <<taken, cut, locks>>
              /\ Handling = {Here} /\ Handling' = {}
              /\ answers' = Append(answers, [to |-> Here, reply |-> reply]) /\ pc = "answer"
           \/ UNCHANGED <<answers, taken>> /\ cut' = cut \cup Handling /\ Handling' = {}
<1>0. StdinOK /\ AllowedInv /\ TakenInv /\ ServingInv
    BY DEF AnswersInv, AllowedInv
<1>1. ASSUME NEW f \in SUBSET {"write", "execute"}, Start(f)
      PROVE  UNCHANGED <<answers, taken, cut>> /\ Handling' = Handling
  <2>1. pc = "read" /\ pc' = "read" /\ UNCHANGED <<answers, taken, cut>>
    BY <1>0, <1>1 DEF Start, ServingInv
  <2> QED
    BY <2>1 DEF Handling
<1>2. CASE CheckReads \/ CliLock \/ CliSettle \/ \E m \in Messages : Send(m)
  <2>1. UNCHANGED <<answers, taken, cut, life, pc>>
    BY <1>2 DEF CheckReads, CliLock, CliSettle, Send, stdin
  <2> QED
    BY <2>1 DEF Handling, Here
<1>3. CASE LockInitialize \/ LockAppend \/ SettleAppend \/ WriteReport
  <2>1. pc # "read" /\ pc' # "read" /\ UNCHANGED <<answers, taken, cut, life>>
    BY <1>3 DEF LockInitialize, LockAppend, SettleAppend, WriteReport, Raises, stdin
  <2> QED
    BY <2>1 DEF Handling, Here
<1>4. CASE Answer
    BY <1>4 DEF Answer, Handling, store
<1>5. CASE Die
    BY <1>5 DEF Die, GoDown, Handling
<1>6. ASSUME NEW i \in 1 .. MaxMessages, Take(i)
      PROVE  /\ UNCHANGED <<answers, cut>> /\ Handling = {}
             /\ Handling' = IF sent[life][i].kind \in {"notification", "fatal"}
                            THEN {} ELSE {<<life, i>>}
  <2>1. /\ i \in Unread /\ pc = "read" /\ taken' = [taken EXCEPT ![life] = i]
        /\ UNCHANGED <<answers, cut, store>>
        /\ \/ /\ sent[life][i].kind = "fatal" /\ GoDown(i)
           \/ /\ sent[life][i].kind = "notification" /\ UNCHANGED <<stdin, up, pc, reply>>
           \/ /\ sent[life][i].kind \notin {"fatal", "notification"}
              /\ UNCHANGED <<stdin, up>> /\ pc' = FirstStep(sent[life][i])
    BY <1>0, <1>6, TakeReplies
  <2>2. taken'[life] = i
    BY <1>0, <2>1, UnreadFacts DEF StdinOK
  <2>3. FirstStep(sent[life][i]) # "read"
    BY FirstStepFacts DEF Effects
  <2> QED
    BY <2>1, <2>2, <2>3 DEF Handling, Here, GoDown, stdin
<1>7. CASE UNCHANGED vars
    BY <1>7 DEF vars, Handling, Here
<1> QED
    BY <1>1, <1>2, <1>3, <1>4, <1>5, <1>6, <1>7 DEF Next, Serve

\* The answers stay in order and complete.
LEMMA OrderStep ==
    ASSUME AnswersInv, [Next]_vars
    PROVE  answers' \in Seq(AnswerRecord) /\ AnsweredInOrder'
<1> DEFINE A  == {answers[n].to : n \in 1 .. Len(answers)}
           A2 == {answers'[n].to : n \in 1 .. Len(answers')}
           D  == {call \in Call : /\ Owed(call, sent, swallowed, taken)
                                  /\ call \notin cut \cup Handling}
           D2 == {call \in Call : /\ Owed(call, sent', swallowed', taken')
                                  /\ call \notin cut' \cup Handling'}
           Ordered == \A m, n \in 1 .. Len(answers) :
                          m < n /\ answers[m].to[1] = answers[n].to[1]
                              => answers[m].to[2] < answers[n].to[2]
           Ordered2 == \A m, n \in 1 .. Len(answers') :
                          m < n /\ answers'[m].to[1] = answers'[n].to[1]
                              => answers'[m].to[2] < answers'[n].to[2]
<1>0. StdinOK /\ TakenInv /\ ServingInv /\ answers \in Seq(AnswerRecord)
    BY DEF AnswersInv, AllowedInv
<1>1. Ordered /\ A = D
    BY DEF AnswersInv, AnsweredInOrder, Due, At, Owed
<1>2. Ordered2 /\ A2 = D2 => AnsweredInOrder'
    BY DEF AnsweredInOrder, Due, At, Owed
<1>3. ASSUME answers' = answers PROVE Ordered2 /\ A2 = A /\ answers' \in Seq(AnswerRecord)
    BY <1>0, <1>1, <1>3
<1> HIDE DEF Ordered2, A, A2
<1>4. ASSUME NEW call \in Call, taken' = taken
      PROVE  Owed(call, sent', swallowed', taken') <=> Owed(call, sent, swallowed, taken)
    BY <1>0, <1>4, OwedStep
<1>5. CASE UNCHANGED <<answers, taken, cut>> /\ Handling' = Handling
  <2>1. D2 = D
    BY <1>4, <1>5
  <2> QED
    BY <1>1, <1>2, <1>3, <1>5, <2>1
<1>6. CASE UNCHANGED <<answers, taken>> /\ cut' = cut \cup Handling /\ Handling' = {}
  <2>1. D2 = D
    BY <1>4, <1>6
  <2> QED
    BY <1>1, <1>2, <1>3, <1>6, <2>1
<1>7. ASSUME NEW i \in 1 .. MaxMessages, Take(i), UNCHANGED <<answers, cut>>, Handling = {},
             Handling' = IF sent[life][i].kind \in {"notification", "fatal"}
                         THEN {} ELSE {<<life, i>>}
      PROVE  answers' \in Seq(AnswerRecord) /\ AnsweredInOrder'
  <2>1. /\ ~Owed(<<life, i>>, sent, swallowed, taken)
    <3>1. i > taken[life] /\ i \in Nat /\ taken[life] \in Nat
      BY <1>0, <1>7, TakeReplies, UnreadFacts DEF StdinOK
    <3> QED
      BY <3>1 DEF Owed
  <2>2. ASSUME NEW call \in Call
        PROVE  Owed(call, sent', swallowed', taken') <=>
                  \/ Owed(call, sent, swallowed, taken)
                  \/ /\ call = <<life, i>>
                     /\ sent[life][i].kind \notin {"notification", "fatal"}
    BY <1>0, <1>7, OwedStep
  <2>3. D2 = D
    BY <1>7, <2>1, <2>2
  <2> QED
    BY <1>1, <1>2, <1>3, <1>7, <2>3
<1>8. CASE /\ pc # "read" /\ UNCHANGED <<taken, cut>>
           /\ Handling = {Here} /\ Handling' = {}
           /\ answers' = Append(answers, [to |-> Here, reply |-> reply])
  <2> DEFINE a == [to |-> Here, reply |-> reply]
  <2>1. Here \notin cut /\ Here \in Call /\ Owed(Here, sent, swallowed, taken)
    BY <1>8, HereIsNotCut
  <2>2. a \in AnswerRecord /\ a.to = Here
    BY <1>0, <2>1 DEF AnswerRecord, ServingInv
  <2> HIDE DEF a
  <2>3. /\ answers' \in Seq(AnswerRecord) /\ Len(answers) \in Nat
        /\ Len(answers') = Len(answers) + 1 /\ answers'[Len(answers) + 1] = a
        /\ \A n \in 1 .. Len(answers) : answers'[n] = answers[n]
    BY <1>0, <1>8, <2>2, AppendProperties, LenProperties DEF a
  <2>4. \A n \in 1 .. Len(answers') : n \in 1 .. Len(answers) \/ n = Len(answers) + 1
    BY <2>3
  <2>5. 1 .. Len(answers) \subseteq 1 .. Len(answers') /\ Len(answers) + 1 \in 1 .. Len(answers')
    BY <2>3
  <2>6. A2 = A \cup {Here}
    BY <2>2, <2>3, <2>4, <2>5 DEF A, A2
  <2>7. D2 = D \cup {Here}
    BY <1>4, <1>8, <2>1
  <2>8. ASSUME NEW m \in 1 .. Len(answers), answers[m].to[1] = life
        PROVE  answers[m].to[2] < taken[life]
    <3>1. answers[m].to \in D
      BY <1>1 DEF A
    <3> DEFINE call == answers[m].to
    <3>2. call \in Call /\ Owed(call, sent, swallowed, taken) /\ call # Here
      BY <1>8, <3>1
    <3>3. call = <<life, call[2]>> /\ call[2] \in Nat
      BY <2>8, <3>2, CallIsPair
    <3>4. call[2] \in 1 .. taken[life] /\ call[2] # taken[life]
      BY <2>8, <3>2, <3>3 DEF Owed, Here
    <3>5. taken[life] \in Nat
      BY <1>0, <1>8 DEF ServingInv, StdinOK
    <3> HIDE DEF call
    <3> QED
      BY <3>3, <3>4, <3>5 DEF call
  <2>9. Ordered2
    <3> SUFFICES ASSUME NEW m \in 1 .. Len(answers'), NEW n \in 1 .. Len(answers'),
                        m < n, answers'[m].to[1] = answers'[n].to[1]
                 PROVE  answers'[m].to[2] < answers'[n].to[2]
      BY DEF Ordered2
    <3>1. m \in 1 .. Len(answers)
      BY <2>3, <2>4
    <3>2. CASE n \in 1 .. Len(answers)
      BY <1>1, <2>3, <3>1, <3>2
    <3>3. CASE n = Len(answers) + 1
      <4>1. answers'[n].to = Here /\ Here[1] = life /\ Here[2] = taken[life]
        BY <2>2, <2>3, <3>3 DEF Here
      <4> QED
        BY <2>3, <2>8, <3>1, <4>1
    <3> QED
      BY <2>4, <3>2, <3>3
  <2> QED
    BY <1>1, <1>2, <2>3, <2>6, <2>7, <2>9
<1> QED
    BY <1>5, <1>6, <1>7, <1>8, HandlingStep

\* The records a step appends are of no call that was answered.
LEMMA ToldStep ==
    ASSUME AnswersInv, [Next]_vars
    PROVE  ToldInv'
<1>0. /\ StdinOK /\ AllowedInv /\ TakenInv /\ ServingInv /\ answers \in Seq(AnswerRecord)
      /\ locks \in Seq(LockRecord) /\ Kept
  <2>1. /\ StdinOK /\ AllowedInv /\ TakenInv /\ ServingInv /\ answers \in Seq(AnswerRecord)
        /\ locks \in Seq(LockRecord)
    BY DEF AnswersInv, AllowedInv
  <2> QED
    BY <2>1, StdinStep
<1>1. ASSUME NEW n \in 1 .. Len(answers)
      PROVE  /\ answers[n].to \in Call /\ answers[n].to \notin Handling
             /\ Told(answers[n].to, answers[n].reply.claim, locks',
                     sent'[answers[n].to[1]][answers[n].to[2]].tool)
  <2> DEFINE call == answers[n].to
             c    == answers[n].reply.claim
             tool == sent[call[1]][call[2]].tool
  <2>1. call \in Call /\ Owed(call, sent, swallowed, taken) /\ call \notin Handling
    BY DEF AnswersInv, AnsweredInOrder, Due, At, Owed
  <2>2. Told(call, c, locks, tool)
    BY DEF AnswersInv, ToldInv
  <2>3. call[1] \in 1 .. life /\ call[2] \in 1 .. taken[call[1]]
    <3>1. call[2] \in 1 .. taken[call[1]] /\ call[1] \in Life
      BY <2>1, CallIsPair DEF Owed
    <3>2. taken[call[1]] # 0
      BY <3>1
    <3> HIDE DEF call
    <3>3. ~(call[1] > life)
      BY <1>0, <3>1, <3>2 DEF TakenInv
    <3>4. call[1] >= 1 /\ call[1] \in Nat /\ life \in Nat
      BY <1>0, <3>1, McpServerAssumption DEF Life, StdinOK
    <3> QED
      BY <3>1, <3>3, <3>4
  <2>4. sent'[call[1]][call[2]] = sent[call[1]][call[2]]
    BY <1>0, <2>3 DEF Kept
  <2>5. Told(call, c, locks', tool)
    <3>1. CASE locks' = locks
      BY <2>2, <3>1
    <3>2. ASSUME NEW r \in LockRecord, locks' = Append(locks, r),
                 r.by = None \/ (pc \in Effects /\ r.by = Here)
          PROVE  Told(call, c, locks', tool)
      <4>1. call # None
        BY <2>1, CallIsPair
      <4>2. pc \in Effects => call # Here
        BY <2>1 DEF Handling, Effects
      <4> HIDE DEF call, c, tool
      <4> QED
        BY <1>0, <2>2, <3>2, <4>1, <4>2, ToldStays
    <3> QED
      BY <1>0, <3>1, <3>2, LocksStep
  <2> QED
    BY <2>1, <2>4, <2>5
<1>2. CASE answers' = answers
    BY <1>1, <1>2 DEF ToldInv
<1>3. CASE /\ pc # "read" /\ UNCHANGED <<taken, cut, locks>> /\ pc = "answer"
           /\ answers' = Append(answers, [to |-> Here, reply |-> reply])
  <2> DEFINE a == [to |-> Here, reply |-> reply]
  <2>1. Here \in Call
    BY <1>3, HereIsNotCut
  <2>2. a \in AnswerRecord /\ a.to = Here /\ a.reply = reply
    BY <1>0, <2>1 DEF AnswerRecord, ServingInv
  <2> HIDE DEF a
  <2>3. /\ Len(answers) \in Nat /\ Len(answers') = Len(answers) + 1
        /\ answers'[Len(answers) + 1] = a
        /\ \A n \in 1 .. Len(answers) : answers'[n] = answers[n]
    BY <1>0, <1>3, <2>2, AppendProperties, LenProperties DEF a
  <2>4. \A n \in 1 .. Len(answers') : n \in 1 .. Len(answers) \/ n = Len(answers) + 1
    BY <2>3
  <2>5. Told(Here, reply.claim, locks, Current.tool)
    BY <1>0, <1>3 DEF ServingInv
  <2>6. sent'[Here[1]][Here[2]].tool = Current.tool
    <3>1. Here[1] = life /\ Here[2] = taken[life] /\ life \in 1 .. life
      BY <1>0, <1>3, McpServerAssumption DEF Here, ServingInv, StdinOK, Life
    <3>2. taken[life] \in 1 .. taken[life]
      BY <1>0, <1>3, <3>1 DEF ServingInv, Owed
    <3> QED
      BY <1>0, <3>1, <3>2 DEF Kept, Current
  <2> QED
    BY <1>1, <1>3, <2>2, <2>3, <2>4, <2>5, <2>6 DEF ToldInv
<1> QED
    BY <1>2, <1>3, HandlingStep

LEMMA AccountedStep ==
    ASSUME AnswersInv, [Next]_vars
    PROVE  AccountedInv'
<1> DEFINE A  == {answers[n].to : n \in 1 .. Len(answers)}
           A2 == {answers'[n].to : n \in 1 .. Len(answers')}
<1>0. AllowedInv /\ answers \in Seq(AnswerRecord) /\ locks \in Seq(LockRecord)
    BY DEF AnswersInv, AllowedInv
<1>1. Handling \cup cut \cup A \subseteq Handling' \cup cut' \cup A2
  <2>1. CASE answers' = answers
    BY <2>1, HandlingStep
  <2>2. CASE /\ pc # "read" /\ UNCHANGED cut /\ Handling = {Here}
             /\ answers' = Append(answers, [to |-> Here, reply |-> reply])
    <3> DEFINE a == [to |-> Here, reply |-> reply]
    <3>1. a \in AnswerRecord /\ a.to = Here
      BY <2>2, HereIsNotCut DEF AnswerRecord, AnswersInv, ServingInv
    <3> HIDE DEF a
    <3>2. /\ Len(answers) \in Nat /\ Len(answers') = Len(answers) + 1
          /\ answers'[Len(answers) + 1] = a
          /\ \A n \in 1 .. Len(answers) : answers'[n] = answers[n]
      BY <1>0, <2>2, <3>1, AppendProperties, LenProperties DEF a
    <3>3. 1 .. Len(answers) \subseteq 1 .. Len(answers') /\ Len(answers) + 1 \in 1 .. Len(answers')
      BY <3>2
    <3> QED
      BY <2>2, <3>1, <3>2, <3>3
  <2> QED
    BY <2>1, <2>2, HandlingStep
<1>2. \A k \in 1 .. Len(locks) : locks[k].by \in {None} \cup Handling \cup cut \cup A
    BY DEF AnswersInv, AccountedInv
<1>3. SUFFICES \A k \in 1 .. Len(locks') :
                  locks'[k].by \in {None} \cup Handling' \cup cut' \cup A2
    BY DEF AccountedInv
<1> HIDE DEF A, A2
<1>4. CASE locks' = locks
    BY <1>1, <1>2, <1>4
<1>5. ASSUME NEW r \in LockRecord, locks' = Append(locks, r),
             r.by = None \/ (pc \in Effects /\ r.by = Here)
      PROVE  \A k \in 1 .. Len(locks') :
                  locks'[k].by \in {None} \cup Handling' \cup cut' \cup A2
  <2>1. r.by \in {None} \cup Handling
    BY <1>5 DEF Handling, Effects
  <2>2. \A k \in 1 .. Len(locks') :
            locks'[k] = r \/ (k \in 1 .. Len(locks) /\ locks'[k] = locks[k])
    BY <1>0, <1>5, ClaimsOfAppend
  <2> QED
    BY <1>1, <1>2, <2>1, <2>2
<1> QED
    BY <1>0, <1>4, <1>5, LocksStep

-----------------------------------------------------------------------------
(* What the answers are worth *)

LEMMA AnswersInit == Init => AnswersInv
<1> SUFFICES ASSUME Init PROVE AnswersInv
    OBVIOUS
<1>1. AllowedInv
    BY AllowedInit
<1>2. TakenInv
    BY McpServerAssumption DEF Init, TakenInv
<1>3. ServingInv
    BY DEF Init, ServingInv, Effects, Reply, ReplyRecord
<1>4. CutInv
    BY DEF Init, CutInv
<1>5. answers = <<>> /\ answers \in Seq(AnswerRecord) /\ Len(answers) = 0
    BY EmptySeq DEF Init
<1>6. \A call \in Call : call[2] \notin (1 .. taken[call[1]]) \ swallowed[call[1]]
    BY CallIsPair DEF Init
<1>7. AnsweredInOrder
    BY <1>5, <1>6 DEF AnsweredInOrder
<1>8. ToldInv
    BY <1>5 DEF ToldInv
<1>9. AccountedInv
    BY EmptySeq DEF Init, AccountedInv
<1> QED
    BY <1>1, <1>2, <1>3, <1>4, <1>5, <1>7, <1>8, <1>9 DEF AnswersInv

LEMMA AnswersStep == AnswersInv /\ [Next]_vars => AnswersInv'
<1> SUFFICES ASSUME AnswersInv, [Next]_vars PROVE AnswersInv'
    OBVIOUS
<1>1. AllowedInv' /\ TakenInv'
    BY AllowedStep, TakenStep DEF AnswersInv, AllowedInv
<1>2. ServingInv' /\ CutInv'
    BY ServingStep, CutStep
<1>3. answers' \in Seq(AnswerRecord) /\ AnsweredInOrder'
    BY OrderStep
<1>4. ToldInv' /\ AccountedInv'
    BY ToldStep, AccountedStep
<1> QED
    BY <1>1, <1>2, <1>3, <1>4 DEF AnswersInv

\* The answers of a life come in the order of its requests and leave none out, wherever
\* checks read the stdin and the server is killed.
THEOREM InOrder == Spec => []AnsweredInOrder
    BY AnswersInit, AnswersStep, PTL DEF Spec, AnswersInv

\* An answer tells what its call has written, and what no answer tells is of the message
\* being handled or of the one a death cut off.
THEOREM AnswersTell == Spec => []AnswersTellTheEffects
<1>1. ASSUME AnswersInv PROVE AnswersTellTheEffects
  <2>1. ASSUME NEW n \in 1 .. Len(answers)
        PROVE  LET written == WrittenBy(answers[n].to)
                   told    == answers[n].reply
               IN  IF told.claim = 0 THEN written = {}
                   ELSE /\ Cardinality(written) = 1
                        /\ \A k \in written :
                              /\ locks[k].claim = told.claim
                              /\ locks[k].status = "LOCKED" <=>
                                    At(answers[n].to).tool = "lock_auto"
    <3> DEFINE call == answers[n].to
               c    == answers[n].reply.claim
    <3>1. Told(call, c, locks, sent[call[1]][call[2]].tool)
      BY <1>1 DEF AnswersInv, ToldInv
    <3>2. At(call).tool = sent[call[1]][call[2]].tool
      BY DEF At
    <3> HIDE DEF call
    <3>3. CASE c = 0
      <4>1. WrittenBy(call) = {}
        BY <3>1, <3>3 DEF Told, WrittenBy
      <4> QED
        BY <3>3, <4>1 DEF call
    <3>4. CASE c # 0
      <4> HIDE DEF c
      <4>1. PICK k \in 1 .. Len(locks) :
                /\ \A j \in 1 .. Len(locks) : locks[j].by = call <=> j = k
                /\ locks[k].claim = c
                /\ locks[k].status = "LOCKED" <=> At(call).tool = "lock_auto"
        BY <3>1, <3>2, <3>4 DEF Told
      <4>2. WrittenBy(call) = {k}
        BY <4>1 DEF WrittenBy
      <4>3. Cardinality({k}) = 1
        BY FS_Singleton
      <4> QED
        BY <3>4, <4>1, <4>2, <4>3 DEF call, c
    <3> QED
      BY <3>3, <3>4
  <2>2. \A k \in 1 .. Len(locks) :
           \/ locks[k].by \in {None} \cup Handling \cup cut
           \/ \E n \in 1 .. Len(answers) : answers[n].to = locks[k].by
    BY <1>1 DEF AnswersInv, AccountedInv
  <2>3. \A c, d \in cut : c[1] = d[1] => c = d
    BY <1>1 DEF AnswersInv, CutInv
  <2> QED
    BY <2>1, <2>2, <2>3 DEF AnswersTellTheEffects
<1> QED
    BY <1>1, AnswersInit, AnswersStep, PTL DEF Spec
=============================================================================
