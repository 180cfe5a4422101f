----------------------- MODULE SecretRotation_proofs -----------------------
(***************************************************************************)
(* Theorems about SecretRotation, for every value of its constants, in     *)
(* three parts.                                                            *)
(*                                                                         *)
(* Types and locks.  The inductive invariant has two parts beside the      *)
(* types: the rows and the steps of the workers agree (Registry), and the  *)
(* locks are where the workers believe them (LockInv).                     *)
(*                                                                         *)
(* Custody.  The secret of a remote account is never lost, and while no    *)
(* worker outlasts its lock the rotation implements SecretCustody.  The    *)
(* argument is the ledger of an account: the secrets its records hold, or  *)
(* the first secret before the first record.  Every secret in use, on the  *)
(* account row, on the remote system or in the memory of a worker, is in   *)
(* the ledger, and the ledger only grows, by the candidate of a new change *)
(* record.                                                                 *)
(*                                                                         *)
(* Results.  What the rows and counts of an execution say: a success is    *)
(* complete and means that both sides agree, a closed row stays closed, a  *)
(* pending record has somebody who will resolve it, and a secret of the    *)
(* account that is not the one of the host shows in a record.              *)
(***************************************************************************)
EXTENDS SecretRotation, TLAPS

-----------------------------------------------------------------------------
(* Types and locks.                                                        *)

\* Steps of an account that has no record of this execution yet.
Unrecorded == {"out", "todo", "filtered", "locked", "freed"}

\* Where a worker has not looked at its accounts, or no longer does.
Blank == {"idle", "created", "load", "gone"}

\* Executions: a row exists from Create on; a retry reuses records of a change.
Executions ==
    \A e \in Execution :
        /\ exe[e].status = "none" <=> pc[e] = "idle"
        /\ exe[e].status = "none" => exe[e].kind = "change" /\ exe[e].src = e
        /\ exe[e].kind # "retry" => exe[e].src = e
        /\ exe[e].kind = "retry" =>
              /\ exe[exe[e].src].kind = "change" /\ exe[exe[e].src].status # "none"
              /\ \A a \in exe[e].targets : rec[exe[e].src][a].status # "none"

\* Records: none is half written, and those of a change hold both secrets.
Records ==
    \A i \in Execution, a \in Account :
        /\ rec[i][a].status = "none" => rec[i][a] = NoRecord
        /\ rec[i][a].status # "none" => exe[i].status # "none" /\ exe[i].kind # "retry"
        /\ rec[i][a].status # "none" /\ exe[i].kind = "change"
              => rec[i][a].old \in Secret /\ rec[i][a].new \in Secret

\* Workers: a step beyond the lock has a record, a step before it has none.
Workers ==
    \A e \in Execution, a \in Account :
        /\ pc[e] \in Blank => step[e][a] = "out"
        /\ step[e][a] # "out" => a \in exe[e].targets
        /\ step[e][a] \notin Unrecorded => Rec(e, a).status # "none"
        /\ exe[e].kind # "retry" /\ (pc[e] \in {"idle", "created", "load"}
                                     \/ step[e][a] \in {"todo", "locked"})
              => rec[e][a].status = "none"

Registry == Executions /\ Records /\ Workers

\* Recovery works only on executions whose worker is gone, so that a lock in
\* the hands of a live worker is deleted by nobody else.
LockInv ==
    ~Overrun => /\ LockHeldWhileWorking
                /\ \A e \in Execution : cleaning[e] # {} => Gone(e)

IInv == TypeOK /\ Registry /\ LockInv

LEMMA ExeStatusType ==
    ASSUME NEW r \in ExeRow, NEW x \in {"none"} \cup Open \cup Terminal
    PROVE  [r EXCEPT !.status = x] \in ExeRow
  BY DEF ExeRow

LEMMA RecStatusType ==
    ASSUME NEW r \in RecRow, NEW x \in RecStatus
    PROVE  [r EXCEPT !.status = x] \in RecRow
  BY DEF RecRow

LEMMA SavedType ==
    ASSUME TypeOK, NEW a \in Account, NEW mem \in Secret, NEW s \in Secret
    PROVE  Saved(a, mem, s) \in AcctRow
  BY DEF TypeOK, Saved, AcctRow

(* What the pieces shared by the actions keep of the types.                *)
LEMMA ClearType ==
    ASSUME TypeOK, NEW e \in Execution, NEW a \in Account, Clear(e, a)
    PROVE  /\ lock' \in [Account -> Execution \cup {None}]
           /\ task' \in [Account -> Execution \cup {None}]
  BY DEF TypeOK, Clear

LEMMA GotoType ==
    ASSUME TypeOK, NEW e \in Execution, NEW a \in Account, NEW next \in Step, Goto(e, a, next)
    PROVE  step' \in [Execution -> [Account -> Step]]
  BY DEF TypeOK, Goto

LEMMA CountType ==
    ASSUME TypeOK, NEW e \in Execution, NEW a \in Account, NEW how \in Tally, Count(e, a, how)
    PROVE  tally' \in [Execution -> [Account -> Tally]]
  BY DEF TypeOK, Count

LEMMA MarkType ==
    ASSUME TypeOK, NEW e \in Execution, NEW a \in Account, NEW status \in RecStatus,
           Mark(e, a, status)
    PROVE  rec' \in [Execution -> [Account -> RecRow]]
  <1>1. exe[e].src \in Execution
    BY DEF TypeOK, ExeRow
  <1>2. [rec[exe[e].src][a] EXCEPT !.status = status] \in RecRow
    BY <1>1, RecStatusType DEF TypeOK
  <1> QED
    BY <1>1, <1>2 DEF TypeOK, Mark

LEMMA RecordWithType ==
    ASSUME TypeOK, NEW e \in Execution, NEW a \in Account, NEW s \in Secret, RecordWith(e, a, s)
    PROVE  rec' \in [Execution -> [Account -> RecRow]]
  <1>1. Rec(e, a) \in RecRow /\ loaded[e][a] \in Copy /\ exe[e].src \in Execution
    BY DEF TypeOK, Rec, ExeRow
  <1>2. [Rec(e, a) EXCEPT !.status = "pending"] \in RecRow
    BY <1>1, RecStatusType DEF RecStatus
  <1>3. [NoRecord EXCEPT !.status = "pending"] \in RecRow
    BY DEF NoRecord, RecRow, RecStatus, Verdict
  <1>4. [status |-> "pending", old |-> loaded[e][a].secret, new |-> s,
         version |-> loaded[e][a].version, verified |-> "no"] \in RecRow
    BY <1>1 DEF RecRow, RecStatus, Verdict, Copy
  <1> QED
    BY <1>1, <1>2, <1>3, <1>4 DEF TypeOK, RecordWith, Rec

LEMMA ForgetType ==
    ASSUME TypeOK, NEW e \in Execution, Forget(e)
    PROVE  /\ pc' \in [Execution -> PC]
           /\ outcome' \in [Execution -> Terminal]
           /\ step' \in [Execution -> [Account -> Step]]
           /\ cb' \in [Execution -> [Account -> Report]]
           /\ loaded' \in [Execution -> [Account -> Copy]]
           /\ tally' \in [Execution -> [Account -> Tally]]
  BY ConstantsAssumption DEF TypeOK, Forget, PC, Terminal, Step, Report, Copy, Tally

LEMMA SecretsType ==
    ASSUME TypeOK, NEW e \in Execution, NEW a \in Account
    PROVE  /\ Rec(e, a) \in RecRow
           /\ Mem(e, a) \in Secret /\ acct[a].secret \in Secret /\ remote[a] \in Secret
           /\ loaded[e][a].secret \in Secret
           /\ exe[e].src \in Execution /\ exe[e].targets \subseteq Account
           /\ Touched(a) \in AcctRow
           /\ Saved(a, Mem(e, a), acct[a].secret) \in AcctRow
  <1>1. /\ Rec(e, a) \in RecRow
        /\ Mem(e, a) \in Secret /\ acct[a].secret \in Secret /\ remote[a] \in Secret
        /\ loaded[e][a].secret \in Secret
        /\ exe[e].src \in Execution /\ exe[e].targets \subseteq Account
    BY DEF TypeOK, Rec, Mem, ExeRow, AcctRow, Copy
  <1> QED
    BY <1>1, SavedType DEF Touched

-----------------------------------------------------------------------------
LEMMA InitType == Init => TypeOK
  BY ConstantsAssumption
  DEF Init, TypeOK, ExeRow, RecRow, AcctRow, Copy, Open, Terminal, RecStatus,
      Verdict, PC, Step, Report, Tally, NoRecord

\* The steps a worker takes before it has an account ready to run.
LEMMA PrepareType ==
    ASSUME TypeOK, NEW e \in Execution, NEW a \in Account, Prepare(e, a)
    PROVE  TypeOK'
  <1> USE DEF rows, redis
  <1>1. CASE FilterOut(e, a)
    BY <1>1, GotoType DEF FilterOut, TypeOK, Step
  <1>2. CASE Acquire(e, a)
    <2>1. step' \in [Execution -> [Account -> Step]]
      BY <1>2, GotoType DEF Acquire, Step
    <2> QED
      BY <1>2, <2>1 DEF Acquire, TypeOK
  <1>3. CASE Reject(e, a) \/ PrepareFails(e, a)
    <2>1. step' \in [Execution -> [Account -> Step]]
      BY <1>3, GotoType DEF Reject, PrepareFails, Step
    <2>2. tally' \in [Execution -> [Account -> Tally]]
      BY <1>3, CountType DEF Reject, PrepareFails, Tally
    <2> QED
      BY <1>3, <2>1, <2>2, ClearType DEF Reject, PrepareFails, TypeOK
  <1>4. ASSUME NEW s \in Secret, CreateRecord(e, a, s) \/ RecordThenFail(e, a, s)
        PROVE  TypeOK'
    <2>1. step' \in [Execution -> [Account -> Step]]
      BY <1>4, GotoType DEF CreateRecord, RecordThenFail, Step
    <2>2. rec' \in [Execution -> [Account -> RecRow]]
      BY <1>4, RecordWithType DEF CreateRecord, RecordThenFail
    <2>3. /\ lock' \in [Account -> Execution \cup {None}]
          /\ task' \in [Account -> Execution \cup {None}]
      BY <1>4, ClearType DEF CreateRecord, RecordThenFail, TypeOK
    <2> QED
      BY <1>4, <2>1, <2>2, <2>3 DEF CreateRecord, RecordThenFail, TypeOK
  <1> QED
    BY <1>1, <1>2, <1>3, <1>4 DEF Prepare

\* A worker that has an account of a change or a retry beyond the lock has a
\* candidate for it.
LEMMA CandidateKnown ==
    ASSUME TypeOK, Registry, NEW e \in Execution, NEW a \in Account,
           exe[e].kind # "push", step[e][a] \notin Unrecorded
    PROVE  Rec(e, a).new \in Secret
  <1>1. Rec(e, a).status # "none"
    BY DEF Registry, Workers
  <1>2. exe[e].src \in Execution /\ exe[e].kind \in {"change", "retry"}
    BY DEF TypeOK, ExeRow
  <1>3. exe[exe[e].src].kind = "change"
    BY <1>2 DEF Registry, Executions
  <1> QED
    BY <1>1, <1>2, <1>3 DEF Registry, Records, Rec

\* The steps that write a result back.
LEMMA SettleType ==
    ASSUME TypeOK, Registry, NEW e \in Execution, NEW a \in Account, Settle(e, a)
    PROVE  TypeOK'
  <1> USE DEF rows, redis
  <1>1. CASE Free(e, a)
    BY <1>1, GotoType, ClearType DEF Free, TypeOK, Step
  <1>2. CASE ~Free(e, a)
    <2>1. HostSuccess(e, a) \/ HostError(e, a) \/ HostIncomplete(e, a)
      BY <1>2 DEF Settle
    <2>2. step' \in [Execution -> [Account -> Step]]
      BY <2>1, GotoType DEF HostSuccess, HostError, HostIncomplete, Step
    <2>3. tally' \in [Execution -> [Account -> Tally]]
      BY <2>1, CountType DEF HostSuccess, HostError, HostIncomplete, Tally
    <2>4. rec' \in [Execution -> [Account -> RecRow]]
      BY <2>1, MarkType DEF HostSuccess, HostError, HostIncomplete, SaveFails, RecStatus, TypeOK
    <2>5. acct' \in [Account -> AcctRow]
      <3>1. \E v \in AcctRow : acct' \in {acct, [acct EXCEPT ![a] = v]}
        <4>1. CASE HostSuccess(e, a) /\ acct' # acct
          <5>1. CASE exe[e].kind # "push" /\ cb[e][a] # "unknown"
            <6>1. Saved(a, Rec(e, a).new, Rec(e, a).new) \in AcctRow
              BY <4>1, <5>1, CandidateKnown, SavedType DEF HostSuccess, Unrecorded
            <6> QED
              BY <4>1, <5>1, <6>1 DEF HostSuccess, SaveFails
          <5>2. CASE ~(exe[e].kind # "push" /\ cb[e][a] # "unknown")
            BY <4>1, <5>2, SecretsType DEF HostSuccess, SaveFails
          <5> QED
            BY <5>1, <5>2
        <4>2. CASE HostError(e, a) \/ HostIncomplete(e, a) \/ acct' = acct
          BY <4>2, SecretsType DEF HostError, HostIncomplete, SaveFails
        <4> QED
          BY <2>1, <4>1, <4>2
      <3> QED
        BY <3>1 DEF TypeOK
    <2>6. cb' \in [Execution -> [Account -> Report]]
      <3>1. cb' = [cb EXCEPT ![e][a] = "none"]
        BY <2>1 DEF HostSuccess, HostError, HostIncomplete
      <3> QED
        BY <3>1 DEF TypeOK, Report
    <2>7. outcome' \in [Execution -> Terminal]
      BY <2>1 DEF HostSuccess, HostError, HostIncomplete, SaveFails, Terminal, TypeOK
    <2> QED
      BY <2>1, <2>2, <2>3, <2>4, <2>5, <2>6, <2>7 DEF HostSuccess, HostError, HostIncomplete, TypeOK
  <1> QED
    BY <1>1, <1>2

\* Everything else a worker does.
LEMMA WorkType ==
    ASSUME TypeOK, Registry, NEW e \in Execution, Work(e)
    PROVE  TypeOK'
  <1> USE DEF rows, redis
  <1>1. CASE PreRun(e)
    <2>1. [exe[e] EXCEPT !.status = "running"] \in ExeRow
      BY ExeStatusType DEF TypeOK, Open
    <2> QED
      BY <1>1, <2>1 DEF TypeOK, PreRun, PC
  <1>2. CASE LoadAccounts(e)
    <2>1. \A a \in Account : [secret |-> acct[a].secret, version |-> acct[a].version] \in Copy
      BY DEF TypeOK, AcctRow, Copy
    <2> QED
      BY <1>2, <2>1 DEF TypeOK, LoadAccounts, PC, Step
  <1>3. CASE Prepared(e) \/ NoMoreBatches(e)
    BY <1>3 DEF Prepared, NoMoreBatches, TypeOK, PC
  <1>4. CASE Finalize(e)
    <2>1. acct' \in [Account -> AcctRow]
      <3>1. \A a \in Account : Touched(a) \in AcctRow /\ acct[a] \in AcctRow
        BY SecretsType DEF TypeOK
      <3> QED
        BY <1>4, <3>1, SMTT(90) DEF Finalize, TypeOK
    <2>2. rec' \in [Execution -> [Account -> RecRow]]
      <3>1. \A a \in Account : Rec(e, a) \in RecRow
        BY SecretsType
      <3>2. \A a \in Account : [Rec(e, a) EXCEPT !.status = "unverified"] \in RecRow
        BY <3>1, RecStatusType DEF RecStatus
      <3> DEFINE P == {a \in Account : step[e][a] = "cleared"}
                 closed == [a \in Account |-> IF a \in P /\ Rec(e, a).status = "pending"
                              THEN [Rec(e, a) EXCEPT !.status = "unverified"] ELSE Rec(e, a)]
      <3>3. closed \in [Account -> RecRow]
        BY <3>1, <3>2
      <3>4. exe[e].src \in Execution /\ rec \in [Execution -> [Account -> RecRow]]
        BY DEF TypeOK, ExeRow
      <3>5. rec' \in {rec, [rec EXCEPT ![exe[e].src] = closed]}
        BY <1>4 DEF Finalize, Rec
      <3> HIDE DEF closed
      <3> QED
        BY <3>3, <3>4, <3>5
    <2>3. \E f \in Terminal : outcome' = [outcome EXCEPT ![e] = f]
      <3>1. outcome[e] \in Terminal /\ {"failed", "error"} \subseteq Terminal
        BY DEF TypeOK, Terminal
      <3> QED
        BY <1>4, <3>1 DEF Finalize
    <2> QED
      BY <1>4, <2>1, <2>2, <2>3 DEF Finalize, TypeOK, PC
  <1>5. CASE SaveExecution(e)
    <2>1. outcome[e] \in Terminal /\ "failed" \in Terminal /\ exe[e] \in ExeRow
      BY DEF TypeOK, Terminal
    <2>2. PICK final \in Terminal :
             /\ outcome' = [outcome EXCEPT ![e] = final]
             /\ exe' \in {exe, [exe EXCEPT ![e].status = final]}
      BY <1>5, <2>1 DEF SaveExecution
    <2>3. [exe[e] EXCEPT !.status = final] \in ExeRow
      BY <2>1, ExeStatusType
    <2>4. [exe EXCEPT ![e].status = final] \in [Execution -> ExeRow]
      BY <2>3 DEF TypeOK
    <2>5. exe' \in [Execution -> ExeRow] /\ outcome' \in [Execution -> Terminal]
      BY <2>2, <2>4 DEF TypeOK
    <2> QED
      BY <1>5, <2>5 DEF SaveExecution, TypeOK, PC
  <1>6. CASE ReleaseAll(e)
    BY <1>6, ForgetType DEF ReleaseAll, TypeOK
  <1>7. ASSUME NEW a \in Account, FinalizeClear(e, a)
        PROVE  TypeOK'
    BY <1>7, GotoType, CountType, ClearType DEF FinalizeClear, TypeOK, Step, Tally
  <1>8. ASSUME NEW B \in SUBSET Account, StartBatch(e, B)
        PROVE  TypeOK'
    BY <1>8 DEF StartBatch, TypeOK, Step, PC
  <1>9. ASSUME NEW a \in Account, NEW changed \in BOOLEAN, NEW report \in Report,
               RunHost(e, a, changed, report)
        PROVE  TypeOK'
    <2>1. Sent(e, a) \in Secret
      BY <1>9, CandidateKnown, SecretsType DEF RunHost, Sent, Unrecorded
    <2> QED
      BY <1>9, <2>1, GotoType DEF RunHost, TypeOK, Step
  <1>10. ASSUME NEW how \in Terminal, Abort(e, how) \/ Stop(e, how)
         PROVE  TypeOK'
    BY <1>10, ZenonT(60) DEF Abort, Stop, TypeOK, PC
  <1>11. ASSUME NEW how \in Terminal, EndBatch(e, how)
         PROVE  TypeOK'
    BY <1>11 DEF EndBatch, TypeOK, PC, Step
  <1>12. ASSUME NEW how \in Terminal, NEW next \in PC, RunnerEnds(e, next, how)
         PROVE  TypeOK'
    BY <1>12 DEF RunnerEnds, TypeOK
  <1> QED
    BY <1>1, <1>2, <1>3, <1>4, <1>5, <1>6, <1>7, <1>8, <1>9, <1>10, <1>11, <1>12,
       PrepareType, SettleType DEF Work

\* What is done about executions that are not working, and by operators.
LEMMA OutsideType ==
    ASSUME TypeOK, Registry, NEW e \in Execution
    PROVE  /\ \A k \in Kinds, src \in Execution, T \in SUBSET Account :
                 Create(e, k, src, T) => TypeOK'
           /\ Crash(e) \/ Recovery(e) \/ RecoverStops(e) => TypeOK'
  <1> USE DEF rows, redis, memory
  <1>1. ASSUME NEW k \in Kinds, NEW src \in Execution, NEW T \in SUBSET Account,
               Create(e, k, src, T)
        PROVE  TypeOK'
    <2>1. [status |-> "pending", kind |-> k, src |-> src, targets |-> T] \in ExeRow
      BY ConstantsAssumption DEF ExeRow, Open
    <2> QED
      BY <1>1, <2>1 DEF Create, TypeOK, PC
  <1>2. CASE Crash(e)
    BY <1>2, ForgetType DEF Crash, TypeOK
  <1>3. ASSUME NEW how \in {"canceled", "error"}, Recover(e, how)
        PROVE  TypeOK'
    <2>1. rec' \in [Execution -> [Account -> RecRow]]
      <3>1. \A i \in Execution, a \in Account : rec[i][a] \in RecRow /\ Closed(rec[i][a]) \in RecRow
        <4>1. SUFFICES ASSUME NEW i \in Execution, NEW a \in Account
                       PROVE  rec[i][a] \in RecRow /\ Closed(rec[i][a]) \in RecRow
          OBVIOUS
        <4>2. rec[i][a] \in RecRow
          BY DEF TypeOK
        <4> QED
          BY <4>2, RecStatusType DEF Closed, RecStatus
      <3> QED
        BY <1>3, <3>1 DEF Recover
    <2>2. acct' \in [Account -> AcctRow]
      <3>1. \A a \in Account : Touched(a) \in AcctRow /\ acct[a] \in AcctRow
        BY SecretsType DEF TypeOK
      <3> QED
        BY <1>3, <3>1 DEF Recover
    <2>3. exe' \in [Execution -> ExeRow]
      <3>1. [exe[e] EXCEPT !.status = how] \in ExeRow
        BY ExeStatusType DEF TypeOK, Terminal
      <3> QED
        BY <1>3, <3>1 DEF Recover, TypeOK
    <2>4. cleaning' \in [Execution -> SUBSET Account]
      <3>1. exe[e].targets \subseteq Account
        BY DEF TypeOK, ExeRow
      <3> QED
        BY <1>3, <3>1 DEF Recover, TypeOK
    <2> QED
      BY <1>3, <2>1, <2>2, <2>3, <2>4 DEF Recover, TypeOK
  <1>4. ASSUME NEW a \in Account, RecoverClear(e, a)
        PROVE  TypeOK'
    BY <1>4, ClearType DEF RecoverClear, TypeOK
  <1>5. CASE RecoverStops(e)
    BY <1>5 DEF RecoverStops, TypeOK
  <1> QED
    BY <1>1, <1>2, <1>3, <1>4, <1>5 DEF Recovery

LEMMA RequestType ==
    ASSUME TypeOK, Registry, NEW i \in Execution, NEW a \in Account, Request(i, a)
    PROVE  TypeOK'
  <1> USE DEF rows, redis, memory
  <1>0. rec[i][a] \in RecRow
    BY DEF TypeOK
  <1>1. ASSUME NEW v \in Verdict, rec' = [rec EXCEPT ![i][a].verified = v]
        PROVE  rec' \in [Execution -> [Account -> RecRow]]
    <2>1. [rec[i][a] EXCEPT !.verified = v] \in RecRow
      BY <1>0 DEF RecRow
    <2> QED
      BY <1>1, <2>1 DEF TypeOK
  <1>2. CASE VerifyStart(i, a)
    BY <1>1, <1>2 DEF VerifyStart, TypeOK, Verdict
  <1>3. ASSUME NEW v \in {"success", "no"}, VerifyEnd(i, a, v)
        PROVE  TypeOK'
    BY <1>1, <1>3 DEF VerifyEnd, TypeOK, Verdict
  <1>4. ASSUME NEW force \in Forces, Restore(i, a, force)
        PROVE  TypeOK'
    <2>1. [rec[i][a] EXCEPT !.status = "success"] \in RecRow
      BY <1>0, RecStatusType DEF RecStatus
    <2>2. rec[i][a].new \in Secret
      BY <1>0, <1>4 DEF Restore, RecRow
    <2>3. Saved(a, rec[i][a].new, rec[i][a].new) \in AcctRow
      BY <2>2, SavedType
    <2> QED
      BY <1>4, <2>1, <2>3 DEF Restore, TypeOK
  <1> QED
    BY <1>2, <1>3, <1>4 DEF Request

LEMMA TypeNext == TypeOK /\ Registry /\ [Next]_vars => TypeOK'
  <1> SUFFICES ASSUME TypeOK, Registry, [Next]_vars  PROVE TypeOK'
    OBVIOUS
  <1>1. CASE UNCHANGED vars
    BY <1>1 DEF vars, rows, redis, memory, TypeOK
  <1>2. CASE \E a \in Account : LockExpires(a) \/ TaskExpires(a)
    BY <1>2, ZenonT(60) DEF LockExpires, TaskExpires, rows, redis, memory, TypeOK
  <1> QED
    BY <1>1, <1>2, WorkType, OutsideType, RequestType DEF Next


-----------------------------------------------------------------------------
(* Registry.  All but four actions leave it alone for the same reasons.     *)

RecKept ==
    \A i \in Execution, a \in Account :
        /\ rec'[i][a].status = "none" <=> rec[i][a].status = "none"
        /\ rec[i][a].status = "none" => rec'[i][a] = rec[i][a]
        /\ rec'[i][a].old = rec[i][a].old
        /\ rec'[i][a].new = rec[i][a].new

ExeKept ==
    \A e \in Execution :
        /\ exe'[e].status = "none" <=> exe[e].status = "none"
        /\ exe'[e].kind = exe[e].kind
        /\ exe'[e].src = exe[e].src
        /\ exe'[e].targets = exe[e].targets

WorkersKept ==
    \A e \in Execution :
        /\ pc'[e] = "idle" <=> pc[e] = "idle"
        /\ pc'[e] \in {"idle", "created", "load"} => pc[e] \in {"idle", "created", "load"}
        /\ \A a \in Account :
              /\ pc'[e] \in Blank => step'[e][a] = "out"
              /\ step'[e][a] # "out" => step[e][a] # "out"
              /\ step'[e][a] \notin Unrecorded => step[e][a] \notin Unrecorded
              /\ step'[e][a] \in {"todo", "locked"} => step[e][a] \in {"todo", "locked"}

LEMMA Steady ==
    ASSUME TypeOK, Registry, RecKept, ExeKept, WorkersKept
    PROVE  Registry'
  <1>0. \A e \in Execution : exe[e].src \in Execution /\ exe[e].targets \subseteq Account
    BY DEF TypeOK, ExeRow
  <1>1. Executions'
    BY <1>0 DEF Registry, Executions, RecKept, ExeKept, WorkersKept
  <1>2. Records'
    BY DEF Registry, Records, RecKept, ExeKept
  <1>3. Workers'
    BY <1>0 DEF Registry, Workers, Rec, RecKept, ExeKept, WorkersKept
  <1> QED
    BY <1>1, <1>2, <1>3 DEF Registry

LEMMA SameKept ==
    /\ UNCHANGED rec => RecKept
    /\ UNCHANGED exe => ExeKept
    /\ Registry /\ UNCHANGED <<pc, step>> => WorkersKept
  BY DEF RecKept, ExeKept, WorkersKept, Registry, Workers, Unrecorded

LEMMA RecStatusKept ==
    ASSUME NEW r \in RecRow, NEW x, NEW q, q = [r EXCEPT !.status = x]
    PROVE  q.status = x /\ q.old = r.old /\ q.new = r.new
  BY DEF RecRow

LEMMA StatusKept ==
    ASSUME TypeOK, NEW e \in Execution, NEW x \in Open \cup Terminal,
           exe' \in {exe, [exe EXCEPT ![e].status = x]}, exe[e].status # "none"
    PROVE  ExeKept
  <1>1. exe \in [Execution -> ExeRow] /\ x # "none"
    BY DEF TypeOK, Open, Terminal
  <1>2. CASE exe' = [exe EXCEPT ![e].status = x]
    <2>1. exe' = [exe EXCEPT ![e] = [exe[e] EXCEPT !.status = x]]
      BY <1>2
    <2> QED
      BY <1>1, <2>1 DEF ExeRow, ExeKept
  <1>3. CASE exe' = exe
    BY <1>3, SameKept
  <1> QED
    BY <1>2, <1>3

LEMMA MarkKept ==
    ASSUME TypeOK, NEW e \in Execution, NEW a \in Account, NEW status \in RecStatus \ {"none"},
           Rec(e, a).status # "none", Mark(e, a, status)
    PROVE  RecKept
  BY DEF TypeOK, ExeRow, RecRow, Rec, Mark, RecKept

LEMMA GotoKept ==
    ASSUME TypeOK, Registry, NEW e \in Execution, NEW a \in Account, NEW next \in Step,
           Goto(e, a, next), UNCHANGED pc, pc[e] \notin Blank, step[e][a] # "out",
           next \in Unrecorded \/ step[e][a] \notin Unrecorded,
           next \in {"todo", "locked"} => step[e][a] \in {"todo", "locked"}
    PROVE  WorkersKept
  BY DEF TypeOK, Registry, Workers, Goto, WorkersKept

LEMMA PcKept ==
    ASSUME TypeOK, Registry, NEW e \in Execution, NEW next \in PC \ Blank,
           pc' = [pc EXCEPT ![e] = next], UNCHANGED step, pc[e] # "idle"
    PROVE  WorkersKept
  BY DEF TypeOK, Registry, Workers, WorkersKept, Blank

LEMMA ForgetKept ==
    ASSUME TypeOK, Registry, NEW e \in Execution, Forget(e), pc[e] # "idle"
    PROVE  WorkersKept
  BY DEF TypeOK, Registry, Workers, WorkersKept, Forget, Blank, Unrecorded

LEMMA PrepareRegistry ==
    ASSUME TypeOK, Registry, NEW e \in Execution, NEW a \in Account,
           FilterOut(e, a) \/ Acquire(e, a) \/ Reject(e, a) \/ PrepareFails(e, a)
    PROVE  Registry'
  <1>1. PICK next \in {"filtered", "locked", "freed"} : Goto(e, a, next)
    BY DEF FilterOut, Acquire, Reject, PrepareFails
  <1>2. WorkersKept
    BY <1>1, GotoKept DEF FilterOut, Acquire, Reject, PrepareFails, Blank, Unrecorded, Step
  <1>3. RecKept /\ ExeKept
    BY SameKept DEF FilterOut, Acquire, Reject, PrepareFails, rows
  <1> QED
    BY <1>2, <1>3, Steady

LEMMA SettleKept ==
    ASSUME TypeOK, Registry, NEW e \in Execution, NEW a \in Account,
           Settle(e, a) \/ FinalizeClear(e, a)
    PROVE  RecKept /\ step[e][a] \notin Unrecorded /\ step[e][a] # "out"
  <1>1. step[e][a] \notin Unrecorded /\ step[e][a] # "out"
    BY DEF Settle, HostSuccess, HostError, HostIncomplete, Free, FinalizeClear, Unrecorded, Unresolved
  <1>2. UNCHANGED rec \/ \E status \in {"success", "failed", "unverified"} : Mark(e, a, status)
    BY DEF Settle, HostSuccess, HostError, HostIncomplete, Free, FinalizeClear, SaveFails, rows
  <1>3. Rec(e, a).status # "none"
    BY <1>1 DEF Registry, Workers
  <1> QED
    BY <1>1, <1>2, <1>3, MarkKept, SameKept DEF RecStatus

LEMMA SettleRegistry ==
    ASSUME TypeOK, Registry, NEW e \in Execution, NEW a \in Account,
           Settle(e, a) \/ FinalizeClear(e, a)
    PROVE  Registry'
  <1>1. pc[e] \notin Blank
    BY SMTT(60) DEF Settle, HostSuccess, HostError, HostIncomplete, Free, Alive, FinalizeClear, Blank,
           Registry, Workers
  <1>2. WorkersKept
    <2>1. PICK next \in {"settled", "freed", "cleared"} : Goto(e, a, next)
      BY DEF Settle, HostSuccess, HostError, HostIncomplete, Free, FinalizeClear
    <2> QED
      BY <1>1, <2>1, GotoKept, SettleKept
      DEF Settle, HostSuccess, HostError, HostIncomplete, Free, FinalizeClear, Step
  <1>3. ExeKept
    BY SameKept DEF Settle, HostSuccess, HostError, HostIncomplete, Free, FinalizeClear, rows
  <1> QED
    BY <1>2, <1>3, SettleKept, Steady

LEMMA FinalizeKept ==
    ASSUME TypeOK, NEW e \in Execution, Finalize(e)
    PROVE  RecKept
  <1>1. exe[e].src \in Execution
    BY SMTT(60) DEF TypeOK, ExeRow
  <1> DEFINE src == exe[e].src
             close(r) == [r EXCEPT !.status = "unverified"]
             closed == [a \in Account |-> IF step[e][a] = "cleared" /\ rec[src][a].status = "pending"
                                          THEN close(rec[src][a]) ELSE rec[src][a]]
  <1>2. UNCHANGED rec \/ rec' = [rec EXCEPT ![src] = closed]
    BY DEF Finalize
  <1> HIDE DEF src
  <1>3. \A i \in Execution : i # src => rec'[i] = rec[i]
    BY <1>2 DEF TypeOK
  <1>4. \A a \in Account :
           \/ rec'[src][a] = rec[src][a]
           \/ /\ rec[src][a].status = "pending"
              /\ rec'[src][a] = [rec[src][a] EXCEPT !.status = "unverified"]
    <2>1. src \in Execution
      BY <1>1 DEF src
    <2>2. \A a \in Account : closed[a] = rec[src][a] \/
             (rec[src][a].status = "pending" /\ closed[a] = close(rec[src][a]))
      OBVIOUS
    <2> HIDE DEF closed
    <2>3. rec'[src] = rec[src] \/ rec'[src] = closed
      BY <1>2, <2>1 DEF TypeOK
    <2> QED
      BY <2>2, <2>3
  <1>5. ASSUME NEW a \in Account, rec[src][a].status = "pending",
               rec'[src][a] = close(rec[src][a])
        PROVE  /\ rec'[src][a].status = "unverified"
               /\ rec'[src][a].old = rec[src][a].old /\ rec'[src][a].new = rec[src][a].new
    <2>1. rec[src][a] \in RecRow
      BY <1>1 DEF TypeOK, src
    <2> QED
      BY <1>5, <2>1, RecStatusKept
  <1>6. \A a \in Account :
           \/ rec'[src][a] = rec[src][a]
           \/ /\ rec[src][a].status = "pending" /\ rec'[src][a].status = "unverified"
              /\ rec'[src][a].old = rec[src][a].old /\ rec'[src][a].new = rec[src][a].new
    BY <1>4, <1>5
  <1> QED
    BY <1>3, <1>6 DEF RecKept

LEMMA RetryKept ==
    ASSUME TypeOK, Registry, NEW e \in Execution, NEW a \in Account, NEW s \in Secret,
           RecordWith(e, a, s), exe[e].kind = "retry", step[e][a] # "out"
    PROVE  RecKept /\ Rec(e, a).status # "none"
  <1>1. exe[e].src \in Execution /\ a \in exe[e].targets
    BY DEF TypeOK, ExeRow, Registry, Workers
  <1>2. Mark(e, a, "pending")
    BY <1>1 DEF RecordWith, Mark, TypeOK
  <1>3. Rec(e, a).status # "none"
    BY <1>1 DEF Registry, Executions, Rec
  <1> QED
    BY <1>2, <1>3, MarkKept DEF RecStatus

LEMMA WorkRegistry ==
    ASSUME TypeOK, Registry, NEW e \in Execution, Work(e)
    PROVE  Registry'
  <1> USE DEF rows, redis
  <1>0. Registry /\ TypeOK
    OBVIOUS
  <1>1. CASE PreRun(e)
    <2>1. exe[e].status # "none" /\ pc[e] = "created"
      BY <1>1 DEF PreRun, Registry, Executions
    <2>2. ExeKept
      BY <1>1, <2>1, StatusKept DEF PreRun, Open
    <2>3. WorkersKept
      BY <1>1, <2>1 DEF PreRun, TypeOK, Registry, Workers, WorkersKept, Blank
    <2> QED
      BY <1>1, <2>2, <2>3, SameKept, Steady DEF PreRun
  <1>2. CASE LoadAccounts(e)
    <2>1. RecKept /\ ExeKept
      BY <1>2, SameKept DEF LoadAccounts
    <2>2. Executions' /\ Records'
      BY <1>2 DEF LoadAccounts, TypeOK, Registry, Executions, Records
    <2>3. \A a \in Account : exe[e].kind # "retry" => rec[e][a].status = "none"
      BY <1>2 DEF LoadAccounts, Registry, Workers
    <2>4. Workers'
      BY <1>2, <2>3 DEF LoadAccounts, TypeOK, Registry, Workers, Blank, Unrecorded, Rec
    <2> QED
      BY <2>2, <2>4 DEF Registry
  <1>3. CASE \E next \in PC \ Blank : pc' = [pc EXCEPT ![e] = next] /\ UNCHANGED <<exe, rec, step>>
                                     /\ pc[e] # "idle"
    BY <1>3, PcKept, SameKept, Steady
  <1>4. CASE Prepared(e) \/ NoMoreBatches(e) \/ \E how \in Terminal :
                \/ Abort(e, how) \/ Stop(e, how) \/ \E next \in PC : RunnerEnds(e, next, how)
    <2> QED
      BY <1>3, <1>4 DEF Prepared, NoMoreBatches, Abort, Stop, RunnerEnds, PC, Blank
  <1>5. CASE Finalize(e)
    <2>2. WorkersKept
      BY <1>5, PcKept DEF Finalize, PC, Blank
    <2> QED
      BY <1>5, <2>2, FinalizeKept, SameKept, Steady DEF Finalize
  <1>6. CASE SaveExecution(e)
    <2>1. exe[e].status # "none"
      BY <1>6 DEF SaveExecution, Registry, Executions
    <2>2. outcome[e] \in Terminal /\ "failed" \in Terminal
      BY DEF TypeOK, Terminal
    <2>3. \E x \in Terminal : exe' \in {exe, [exe EXCEPT ![e].status = x]}
      BY <1>6, <2>2 DEF SaveExecution
    <2>4. ExeKept
      BY <2>1, <2>3, StatusKept
    <2>5. WorkersKept
      BY <1>6, PcKept DEF SaveExecution, PC, Blank
    <2> QED
      BY <1>6, <2>4, <2>5, SameKept, Steady DEF SaveExecution
  <1>7. CASE ReleaseAll(e)
    BY <1>7, ForgetKept, SameKept, Steady DEF ReleaseAll
  <1>8. ASSUME NEW B \in SUBSET Account, StartBatch(e, B)
        PROVE  Registry'
    <2>1. WorkersKept
      BY <1>8 DEF StartBatch, TypeOK, Registry, Workers, WorkersKept, Blank, Unrecorded
    <2> QED
      BY <1>8, <2>1, SameKept, Steady DEF StartBatch
  <1>9. ASSUME NEW a \in Account, NEW changed \in BOOLEAN, NEW report \in Report,
               RunHost(e, a, changed, report)
        PROVE  Registry'
    <2>1. WorkersKept
      BY <1>9, GotoKept DEF RunHost, Blank, Unrecorded, Step
    <2> QED
      BY <1>9, <2>1, SameKept, Steady DEF RunHost
  <1>10. ASSUME NEW how \in Terminal, EndBatch(e, how)
         PROVE  Registry'
    <2>1. WorkersKept
      BY <1>10 DEF EndBatch, TypeOK, Registry, Workers, WorkersKept, Blank, Unrecorded
    <2> QED
      BY <1>10, <2>1, SameKept, Steady DEF EndBatch
  <1>11. ASSUME NEW a \in Account, NEW s \in Secret, CreateRecord(e, a, s) \/ RecordThenFail(e, a, s)
         PROVE  Registry'
    <2>1. PICK next \in {"ready", "broken"} : Goto(e, a, next)
      BY <1>11 DEF CreateRecord, RecordThenFail
    <2>2. /\ RecordWith(e, a, s) /\ UNCHANGED <<exe, pc>>
          /\ pc[e] = "prepare" /\ step[e][a] = "locked"
      BY <1>11 DEF CreateRecord, RecordThenFail
    <2>3. exe[e].src \in Execution /\ a \in exe[e].targets /\ exe[e].status # "none"
      BY <2>2 DEF TypeOK, ExeRow, Registry, Executions, Workers
    <2>4. CASE exe[e].kind = "retry"
      <3>3. RecKept /\ Rec(e, a).status # "none"
        BY <2>2, <2>4, RetryKept
      <3>4. Executions'
        BY <2>2, <3>3 DEF Registry, Executions, RecKept, TypeOK, ExeRow
      <3>6. Records'
        BY <2>2, <3>3 DEF Registry, Records, RecKept
      <3>5. Workers'
        BY <2>1, <2>2, <2>3, <2>4, <3>3 DEF Registry, Workers, Rec, RecKept, Goto, TypeOK, ExeRow,
           Unrecorded, Blank
      <3> QED
        BY <3>4, <3>5, <3>6 DEF Registry
    <2>5. CASE exe[e].kind # "retry"
      <3>1. exe[e].src = e /\ rec[e][a].status = "none"
        BY <2>2, <2>5 DEF Registry, Executions, Workers
      <3>2. PICK row : /\ rec' = [rec EXCEPT ![e][a] = row]
                       /\ row.status = "pending"
                       /\ exe[e].kind = "change" => row.old \in Secret /\ row.new \in Secret
        <4>1. loaded[e][a].secret \in Secret
          BY SecretsType
        <4> DEFINE pushed == [NoRecord EXCEPT !.status = "pending"]
                   changed == [status |-> "pending", old |-> loaded[e][a].secret, new |-> s,
                               version |-> loaded[e][a].version, verified |-> "no"]
        <4>2. pushed.status = "pending"
          BY DEF NoRecord
        <4>3. rec' = IF exe[e].kind = "push" THEN [rec EXCEPT ![e][a] = pushed]
                                             ELSE [rec EXCEPT ![e][a] = changed]
          BY <2>2, <2>5, <3>1 DEF RecordWith
        <4>4. CASE exe[e].kind = "push"
          BY <4>2, <4>3, <4>4
        <4>5. CASE exe[e].kind # "push"
          <5>1. changed.status = "pending" /\ changed.old \in Secret /\ changed.new \in Secret
            BY <4>1
          <5> QED
            BY <4>3, <4>5, <5>1
        <4> QED
          BY <4>4, <4>5
      <3>3. \A i \in Execution, b \in Account :
               /\ i = e /\ b = a => rec'[i][b] = row
               /\ ~(i = e /\ b = a) => rec'[i][b] = rec[i][b]
        BY <3>2 DEF TypeOK
      <3>4. Executions'
        BY <2>2, <3>2, <3>3 DEF Registry, Executions, TypeOK, ExeRow
      <3>5. Records'
        BY <2>2, <2>3, <2>5, <3>2, <3>3 DEF Registry, Records
      <3>6. Workers'
        BY <2>1, <2>2, <2>3, <3>1, <3>2, <3>3
        DEF Registry, Workers, Rec, Goto, TypeOK, ExeRow, Unrecorded, Blank
      <3> QED
        BY <3>4, <3>5, <3>6 DEF Registry
    <2> QED
      BY <2>4, <2>5
  <1> QED
    BY <1>1, <1>2, <1>4, <1>5, <1>6, <1>7, <1>8, <1>9, <1>10, <1>11,
       PrepareRegistry, SettleRegistry DEF Work, Prepare


LEMMA RecoverKept ==
    ASSUME TypeOK, NEW e \in Execution, NEW how, Recover(e, how)
    PROVE  RecKept
  <1>1. \A i \in Execution, a \in Account :
           \/ rec'[i][a] = rec[i][a]
           \/ rec[i][a].status = "pending" /\ rec'[i][a] = Closed(rec[i][a])
    BY DEF Recover, LeftPending
  <1>2. ASSUME NEW r \in RecRow
        PROVE  Closed(r).status = "unverified" /\ Closed(r).old = r.old /\ Closed(r).new = r.new
    BY RecStatusKept DEF Closed
  <1>3. \A i \in Execution, a \in Account : rec[i][a] \in RecRow
    BY DEF TypeOK
  <1> QED
    BY <1>1, <1>2, <1>3 DEF RecKept

LEMMA OutsideRegistry ==
    ASSUME TypeOK, Registry, NEW e \in Execution
    PROVE  /\ \A k \in Kinds, src \in Execution, T \in SUBSET Account :
                 Create(e, k, src, T) => Registry'
           /\ Crash(e) \/ Recovery(e) \/ RecoverStops(e) => Registry'
  <1> USE DEF rows, redis, memory
  <1>1. ASSUME NEW k \in Kinds, NEW src \in Execution, NEW T \in SUBSET Account,
               Create(e, k, src, T)
        PROVE  Registry'
    <2>1. /\ exe'[e] = [status |-> "pending", kind |-> k, src |-> src, targets |-> T]
          /\ \A i \in Execution : i # e => exe'[i] = exe[i]
          /\ pc'[e] = "created"
          /\ \A i \in Execution : i # e => pc'[i] = pc[i]
          /\ UNCHANGED <<rec, step>>
      BY <1>1 DEF Create, TypeOK
    <2>2. /\ exe[e].status = "none" /\ exe[e].kind = "change" /\ pc[e] = "idle"
          /\ \A a \in Account : rec[e][a].status = "none" /\ step[e][a] = "out"
      BY <1>1 DEF Create, Registry, Executions, Records, Workers, Blank
    <2>3. \A i \in Execution : exe[i].src \in Execution
      BY DEF TypeOK, ExeRow
    <2>4. /\ k # "retry" => src = e
          /\ k = "retry" => /\ src # e /\ exe[src].kind = "change" /\ exe[src].status # "none"
                            /\ \A a \in T : rec[src][a].status # "none"
      BY <1>1, <2>2 DEF Create, Registry, Records
    <2>5. Executions'
      BY <2>1, <2>2, <2>3, <2>4 DEF Registry, Executions
    <2>6. Records'
      BY <2>1, <2>2 DEF Registry, Records
    <2>7. Workers'
      BY <2>1, <2>2, <2>3 DEF Registry, Workers, Rec, Blank, Unrecorded
    <2> QED
      BY <2>5, <2>6, <2>7 DEF Registry
  <1>2. CASE Crash(e)
    <2>1. pc[e] # "idle"
      BY <1>2 DEF Crash, Alive
    <2> QED
      BY <1>2, <2>1, ForgetKept, SameKept, Steady DEF Crash
  <1>3. ASSUME NEW how \in {"canceled", "error"}, Recover(e, how)
        PROVE  Registry'
    <2>1. ExeKept
      BY <1>3, StatusKept DEF Recover, Interrupted, Open, Terminal
    <2> QED
      BY <1>3, <2>1, RecoverKept, SameKept, Steady DEF Recover
  <1>4. CASE (\E a \in Account : RecoverClear(e, a)) \/ RecoverStops(e)
    BY <1>4, SameKept, Steady DEF RecoverClear, RecoverStops
  <1> QED
    BY <1>1, <1>2, <1>3, <1>4 DEF Recovery

LEMMA RequestKept ==
    ASSUME TypeOK, Registry, NEW i \in Execution, NEW a \in Account, Request(i, a)
    PROVE  RecKept
  <1>1. rec[i][a].new # None => rec[i][a].status # "none"
    BY DEF Registry, Records, NoRecord
  <1>2. rec[i][a].verified = "pending" => rec[i][a].status # "none"
    BY DEF Registry, Records, NoRecord
  <1>3. rec[i][a] \in RecRow
    BY DEF TypeOK
  <1>4. ASSUME NEW r, rec' = [rec EXCEPT ![i][a] = r], rec[i][a].status # "none",
               r.status # "none", r.old = rec[i][a].old, r.new = rec[i][a].new
        PROVE  RecKept
    BY <1>4 DEF TypeOK, RecKept
  <1>5. CASE \E v \in Verdict : rec' = [rec EXCEPT ![i][a] = [rec[i][a] EXCEPT !.verified = v]]
                               /\ rec[i][a].status # "none"
    <2>1. PICK v \in Verdict : rec' = [rec EXCEPT ![i][a] = [rec[i][a] EXCEPT !.verified = v]]
      BY <1>5
    <2> DEFINE r == [rec[i][a] EXCEPT !.verified = v]
    <2>2. r.status = rec[i][a].status /\ r.old = rec[i][a].old /\ r.new = rec[i][a].new
      BY <1>3 DEF RecRow
    <2> HIDE DEF r
    <2> QED
      BY <1>4, <1>5, <2>1, <2>2 DEF r
  <1>6. CASE rec' = [rec EXCEPT ![i][a] = [rec[i][a] EXCEPT !.status = "success"]]
             /\ rec[i][a].status # "none"
    <2> DEFINE r == [rec[i][a] EXCEPT !.status = "success"]
    <2>1. r.status = "success" /\ r.old = rec[i][a].old /\ r.new = rec[i][a].new
      BY <1>3, RecStatusKept
    <2>2. rec' = [rec EXCEPT ![i][a] = r]
      BY <1>6
    <2> HIDE DEF r
    <2> QED
      BY <1>4, <1>6, <2>1, <2>2
  <1> QED
    BY <1>1, <1>2, <1>5, <1>6 DEF Request, VerifyStart, VerifyEnd, Restore, Verdict

LEMMA RequestRegistry ==
    ASSUME TypeOK, Registry, NEW i \in Execution, NEW a \in Account, Request(i, a)
    PROVE  Registry'
  BY RequestKept, SameKept, Steady DEF Request, VerifyStart, VerifyEnd, Restore, memory

LEMMA RegistryNext == TypeOK /\ Registry /\ [Next]_vars => Registry'
  <1> SUFFICES ASSUME TypeOK, Registry, [Next]_vars  PROVE Registry'
    OBVIOUS
  <1>1. CASE UNCHANGED vars \/ \E a \in Account : LockExpires(a) \/ TaskExpires(a)
    <2>1. UNCHANGED <<exe, rec, pc, step>>
      BY <1>1 DEF vars, LockExpires, TaskExpires, rows, memory
    <2> QED
      BY <2>1, SameKept, Steady
  <1> QED
    BY <1>1, WorkRegistry, OutsideRegistry, RequestRegistry DEF Next

LEMMA RegistryInit == Init => Registry
  BY DEF Init, Registry, Executions, Records, Workers, NoRecord, Blank, Unrecorded, Rec

\* In every state, whatever crashes, recoveries, failing saves and operators
\* do, the database rows and what the workers remember have the types the
\* code gives them; above all, a change or retry that is past the preparation
\* of an account always finds a candidate secret in its record.
THEOREM TypesHold == Spec => []TypeOK
  <1>1. Init => TypeOK /\ Registry
    BY InitType, RegistryInit
  <1>2. TypeOK /\ Registry /\ [Next]_vars => (TypeOK /\ Registry)'
    BY TypeNext, RegistryNext
  <1> QED
    BY <1>1, <1>2, PTL DEF Spec


-----------------------------------------------------------------------------
(* LockInv.  A worker with an account in its hands is never blank, so that   *)
(* Held says the same as LockHeldWhileWorking.                               *)

Held == \A e \in Execution, a \in Account : step[e][a] \in Holding => lock[a] = e

CleaningGone == \A e \in Execution : cleaning[e] # {} => Gone(e)

LEMMA HeldIsLocked ==
    ASSUME Registry, LockInv, ~Overrun
    PROVE  Held /\ CleaningGone
  <1>1. \A e \in Execution, a \in Account : step[e][a] \in Holding => Alive(e)
    BY DEF Registry, Workers, Blank, Alive, Holding
  <1> QED
    BY <1>1 DEF LockInv, LockHeldWhileWorking, Held, CleaningGone

\* A worker acts alone: on its own memory, and not after its end.
LEMMA WorkerAlone ==
    ASSUME TypeOK, Registry, NEW e \in Execution, Work(e) \/ Crash(e)
    PROVE  /\ Alive(e) /\ UNCHANGED cleaning
           /\ \A i \in Execution : i # e => pc'[i] = pc[i] /\ step'[i] = step[i]
                                            /\ loaded'[i] = loaded[i]
  <1>1. Alive(e) /\ UNCHANGED cleaning
    <2>1. \A a \in Account : step[e][a] \in Unresolved => Alive(e)
      BY SMTT(60) DEF Registry, Workers, Blank, Alive, Unresolved
    <2> QED
      BY <2>1 DEF Work, Crash, PreRun, LoadAccounts, Prepared, NoMoreBatches, Finalize, SaveExecution,
         ReleaseAll, Prepare, FilterOut, Acquire, Reject, PrepareFails, CreateRecord, RecordThenFail,
         Settle, HostSuccess, HostError, HostIncomplete, Free, FinalizeClear, StartBatch, RunHost,
         Abort, Stop, EndBatch, RunnerEnds, Alive
  <1>2. /\ \E x : pc' \in {pc, [pc EXCEPT ![e] = x]}
        /\ \E x : step' \in {step, [step EXCEPT ![e] = x]}
        /\ \E x : loaded' \in {loaded, [loaded EXCEPT ![e] = x]}
    <2>1. ASSUME NEW a \in Account, NEW next, Goto(e, a, next)
          PROVE  \E x : step' \in {step, [step EXCEPT ![e] = x]}
      <3>1. step' = [step EXCEPT ![e] = [step[e] EXCEPT ![a] = next]]
        BY <2>1 DEF Goto
      <3> QED
        BY <3>1
    <2> QED
      BY <2>1, ZenonT(60) DEF Work, Crash, Forget, PreRun, LoadAccounts, Prepared, NoMoreBatches, Finalize, SaveExecution,
         ReleaseAll, Prepare, FilterOut, Acquire, Reject, PrepareFails, CreateRecord, RecordThenFail,
         Settle, HostSuccess, HostError, HostIncomplete, Free, FinalizeClear, StartBatch, RunHost,
         Abort, Stop, EndBatch, RunnerEnds
  <1> QED
    BY <1>1, <1>2, SMTT(60) DEF TypeOK


LEMMA WorkHeld ==
    ASSUME TypeOK, Registry, Held, NEW e \in Execution, Work(e) \/ Crash(e)
    PROVE  Held'
  <1>0. \A i \in Execution : i # e => step'[i] = step[i]
    BY WorkerAlone
  <1> SUFFICES ASSUME NEW i \in Execution, NEW a \in Account, step'[i][a] \in Holding
               PROVE  lock'[a] = i
    BY DEF Held
  <1>1. CASE i # e
    <2>1. lock[a] = i
      BY <1>0, <1>1 DEF Held
    <2>2. \A b \in Account, k \in Execution : Clear(k, b) /\ k # i => lock'[a] = i
      BY <2>1, SMTT(60) DEF Clear, TypeOK
    <2>3. UNCHANGED lock \/ (\E b \in Account : Clear(e, b) \/ Acquire(e, b)) \/ ReleaseAll(e)
      BY DEF Work, Crash, PreRun, LoadAccounts, Prepared, NoMoreBatches, Finalize, SaveExecution,
         Prepare, FilterOut, Reject, PrepareFails, CreateRecord, RecordThenFail,
         Settle, HostSuccess, HostError, HostIncomplete, Free, FinalizeClear, StartBatch, RunHost,
         Abort, Stop, EndBatch, RunnerEnds, redis
    <2>4. ASSUME NEW b \in Account, Acquire(e, b)  PROVE lock'[a] = i
      BY <2>1, <2>4, ConstantsAssumption DEF Acquire, TypeOK
    <2>5. CASE ReleaseAll(e)
      BY <1>1, <2>1, <2>5 DEF ReleaseAll
    <2> QED
      BY <1>1, <2>1, <2>2, <2>3, <2>4, <2>5
  <1>2. CASE i = e
    <2>1. CASE UNCHANGED lock /\ step[e][a] \in Holding
      BY <1>2, <2>1 DEF Held
    <2>2. ASSUME NEW b \in Account, NEW next \in {"freed", "broken", "cleared"},
                 Clear(e, b), Goto(e, b, next)
          PROVE  lock'[a] = i
      BY <1>2, <2>2 DEF Clear, Goto, Held, Holding, TypeOK
    <2>3. ASSUME NEW b \in Account, Prepare(e, b)
          PROVE  lock'[a] = i
      <3>1. CASE Acquire(e, b)
        BY <1>2, <3>1 DEF Acquire, Goto, Held, TypeOK
      <3>2. CASE FilterOut(e, b) \/ \E s \in Secret : CreateRecord(e, b, s)
        BY <1>2, <3>2 DEF FilterOut, CreateRecord, Goto, Held, Holding, TypeOK, redis
      <3>3. CASE Reject(e, b) \/ PrepareFails(e, b) \/ \E s \in Secret : RecordThenFail(e, b, s)
        BY <2>2, <3>3 DEF Reject, PrepareFails, RecordThenFail
      <3> QED
        BY <2>3, <3>1, <3>2, <3>3 DEF Prepare
    <2>4. ASSUME NEW b \in Account, Settle(e, b) \/ FinalizeClear(e, b)
          PROVE  lock'[a] = i
      <3>1. CASE HostSuccess(e, b) \/ HostError(e, b) \/ HostIncomplete(e, b)
        BY <1>2, <3>1 DEF HostSuccess, HostError, HostIncomplete, Goto, Held, Holding, TypeOK, redis
      <3>2. CASE Free(e, b) \/ FinalizeClear(e, b)
        BY <2>2, <3>2 DEF Free, FinalizeClear
      <3> QED
        BY <2>4, <3>1, <3>2 DEF Settle
    <2>5. CASE \/ LoadAccounts(e) \/ ReleaseAll(e) \/ Crash(e)
      <3>1. step'[e][a] \in {"todo", "out"}
        BY <2>5, SMTT(60) DEF LoadAccounts, ReleaseAll, Crash, Forget, TypeOK
      <3> QED
        BY <1>2, <3>1 DEF Holding
    <2>6. CASE \/ PreRun(e) \/ Prepared(e) \/ NoMoreBatches(e) \/ Finalize(e) \/ SaveExecution(e)
               \/ \E how \in Terminal : \/ Abort(e, how) \/ Stop(e, how)
                                        \/ \E next \in PC : RunnerEnds(e, next, how)
      BY <1>2, <2>1, <2>6 DEF PreRun, Prepared, NoMoreBatches, Finalize, SaveExecution,
         Abort, Stop, RunnerEnds, redis
    <2>7. ASSUME NEW B \in SUBSET Account, StartBatch(e, B)
          PROVE  lock'[a] = i
      BY <1>2, <2>7 DEF StartBatch, Held, Holding, TypeOK, redis
    <2>8. ASSUME NEW b \in Account, NEW changed \in BOOLEAN, NEW report \in Report,
                 RunHost(e, b, changed, report)
          PROVE  lock'[a] = i
      BY <1>2, <2>8 DEF RunHost, Goto, Held, Holding, TypeOK, redis
    <2>9. ASSUME NEW how \in Terminal, EndBatch(e, how)
          PROVE  lock'[a] = i
      BY <1>2, <2>9 DEF EndBatch, Held, Holding, TypeOK, redis
    <2> QED
      BY <2>3, <2>4, <2>5, <2>6, <2>7, <2>8, <2>9 DEF Work
  <1> QED
    BY <1>1, <1>2

LEMMA LockNext == TypeOK /\ Registry /\ LockInv /\ [Next]_vars => LockInv'
  <1> SUFFICES ASSUME TypeOK, Registry, Held, CleaningGone, ~Overrun, [Next]_vars
               PROVE  Held' /\ CleaningGone'
    BY HeldIsLocked DEF LockInv, LockHeldWhileWorking, Held, CleaningGone
  <1> USE DEF rows, redis, memory
  <1>1. ASSUME NEW e \in Execution, Work(e) \/ Crash(e)
        PROVE  Held' /\ CleaningGone'
    BY <1>1, WorkHeld, WorkerAlone DEF CleaningGone, Gone, Alive
  <1>2. ASSUME NEW e \in Execution, NEW k \in Kinds, NEW src \in Execution,
               NEW T \in SUBSET Account, Create(e, k, src, T)
        PROVE  Held' /\ CleaningGone'
    <2>1. pc[e] = "idle"
      BY <1>2 DEF Create, Registry, Executions
    <2> QED
      BY <1>2, <2>1 DEF Create, Held, CleaningGone, Gone, TypeOK
  <1>3. ASSUME NEW e \in Execution, Recovery(e) \/ RecoverStops(e)
        PROVE  Held' /\ CleaningGone'
    <2>1. CleaningGone' /\ UNCHANGED step
      BY <1>3 DEF Recovery, Recover, RecoverClear, RecoverStops, Interrupted, CleaningGone, Gone, TypeOK
    <2>2. UNCHANGED lock \/ \E a \in Account : Clear(e, a) /\ Gone(e)
      BY <1>3 DEF Recovery, Recover, RecoverClear, RecoverStops, CleaningGone
    <2>3. Gone(e) => \A a \in Account : step[e][a] \notin Holding
      BY DEF Registry, Workers, Blank, Gone, Holding
    <2> QED
      BY <2>1, <2>2, <2>3 DEF Held, Clear, TypeOK
  <1>4. ASSUME NEW a \in Account, LockExpires(a) \/ TaskExpires(a)
        PROVE  Held' /\ CleaningGone'
    <2>1. \A e \in Execution : Gone(e) => step[e][a] \notin Holding
      BY DEF Registry, Workers, Blank, Gone, Holding
    <2> QED
      BY <1>4, <2>1 DEF LockExpires, TaskExpires, Held, CleaningGone, Gone, TypeOK
  <1>5. CASE UNCHANGED <<step, lock, pc, cleaning>>
    BY <1>5 DEF Held, CleaningGone, Gone
  <1>6. ASSUME NEW i \in Execution, NEW a \in Account, Request(i, a)
        PROVE  UNCHANGED <<step, lock, pc, cleaning>>
    BY <1>6 DEF Request, VerifyStart, VerifyEnd, Restore
  <1> QED
    BY <1>1, <1>2, <1>3, <1>4, <1>5, <1>6 DEF Next, vars

\* IInv holds at the start and every step of every process keeps it.
LEMMA Invariance ==
    /\ Init => IInv
    /\ IInv /\ [Next]_vars => IInv'
  <1>1. Init => LockInv
    BY DEF Init, LockInv, LockHeldWhileWorking, Holding, Alive
  <1> QED
    BY <1>1, InitType, RegistryInit, TypeNext, RegistryNext, LockNext DEF IInv

\* acquire_account_lock and clear_account_queue_status keep two executions
\* off one account as long as no worker outlasts its lock: no other worker,
\* no recovery and no expiry deletes the lock a live worker relies on, for
\* any number of accounts and executions.
THEOREM LocksHold == Spec => []LockHeldWhileWorking
  <1>1. IInv => LockHeldWhileWorking
    BY DEF IInv, LockInv, LockHeldWhileWorking
  <1> QED
    BY <1>1, Invariance, PTL DEF Spec

-----------------------------------------------------------------------------
(* Custody.                                                                *)

\* The secrets written in the records of an account.
Written(a) == {s \in Secret : \E i \in Execution : s \in {rec[i][a].old, rec[i][a].new}}

Ledger(a) == IF Written(a) = {} THEN {InitSecret} ELSE Written(a)

\* Every secret in use is in the ledger of its account.
SecretsWritten ==
    \A a \in Account :
        /\ InitSecret \in Ledger(a)
        /\ acct[a].secret \in Ledger(a)
        /\ remote[a] \in Ledger(a)
        /\ \A e \in Execution : loaded[e][a].secret \in Ledger(a)

LEMMA LedgerIsKnown ==
    ASSUME SecretsWritten, NEW a \in Account
    PROVE  Known(a) = Ledger(a)
  <1>1. acct[a].secret \in Ledger(a)
    BY DEF SecretsWritten
  <1>2. Known(a) = {acct[a].secret} \cup Written(a)
    BY DEF Known, Written
  <1> QED
    BY <1>1, <1>2 DEF Ledger

-----------------------------------------------------------------------------
(* How the ledger moves.                                                   *)

LEMMA LedgerKept ==
    ASSUME RecKept, NEW a \in Account
    PROVE  Ledger(a)' = Ledger(a)
  <1>1. Written(a)' = Written(a)
    BY DEF RecKept, Written
  <1> QED
    BY <1>1 DEF Ledger

\* A step that makes a record for a change or a push.
NewRecord(e, a, s) ==
    /\ CreateRecord(e, a, s) \/ RecordThenFail(e, a, s)
    /\ exe[e].kind # "retry"

LEMMA OnlyNewRecords ==
    ASSUME TypeOK, Registry, [Next]_vars
    PROVE  RecKept \/ \E e \in Execution, a \in Account, s \in Secret : NewRecord(e, a, s)
  <1>1. ASSUME NEW e \in Execution, NEW a \in Account, NEW s \in Secret,
               CreateRecord(e, a, s) \/ RecordThenFail(e, a, s)
        PROVE  RecKept \/ NewRecord(e, a, s)
    BY <1>1, RetryKept DEF CreateRecord, RecordThenFail, NewRecord
  <1>2. ASSUME NEW e \in Execution, Work(e)
        PROVE  RecKept \/ \E a \in Account, s \in Secret : NewRecord(e, a, s)
    <2>1. CASE Finalize(e)
      BY <2>1, FinalizeKept
    <2>2. CASE \E a \in Account : Settle(e, a) \/ FinalizeClear(e, a)
      BY <2>2, SettleKept
    <2>3. CASE \E a \in Account, s \in Secret : CreateRecord(e, a, s) \/ RecordThenFail(e, a, s)
      BY <1>1, <2>3
    <2>4. CASE UNCHANGED rec
      BY <2>4, SameKept
    <2> QED
      BY <1>2, <2>1, <2>2, <2>3, <2>4
      DEF Work, PreRun, LoadAccounts, Prepared, NoMoreBatches, SaveExecution, ReleaseAll,
          Prepare, FilterOut, Acquire, Reject, PrepareFails, StartBatch, RunHost,
          Abort, Stop, EndBatch, RunnerEnds, rows
  <1>3. ASSUME NEW e \in Execution, NEW k \in Kinds, NEW src \in Execution,
               NEW T \in SUBSET Account, Create(e, k, src, T)
        PROVE  RecKept
    BY <1>3, SameKept DEF Create
  <1>4. ASSUME NEW e \in Execution, Crash(e) \/ Recovery(e) \/ RecoverStops(e)
        PROVE  RecKept
    BY <1>4, SameKept, RecoverKept DEF Crash, Recovery, RecoverClear, RecoverStops, rows
  <1>5. ASSUME NEW a \in Account, LockExpires(a) \/ TaskExpires(a)
        PROVE  RecKept
    BY <1>5, SameKept DEF LockExpires, TaskExpires, rows
  <1>6. CASE UNCHANGED vars
    BY <1>6, SameKept DEF vars, rows
  <1> QED
    BY <1>2, <1>3, <1>4, <1>5, <1>6, RequestKept DEF Next

\* A change writes its candidate into the ledger, a push writes nothing.
LEMMA LedgerGrows ==
    ASSUME TypeOK, Registry, SecretsWritten, NEW e \in Execution, NEW a \in Account,
           NEW s \in Secret, NewRecord(e, a, s), NEW b \in Account
    PROVE  Ledger(b)' = IF b = a /\ exe[e].kind = "change" THEN Ledger(b) \cup {s} ELSE Ledger(b)
  <1>1. exe[e].src = e /\ rec[e][a].status = "none" /\ rec[e][a] = NoRecord
    BY DEF NewRecord, CreateRecord, RecordThenFail, Registry, Executions, Records, Workers
  <1>2. loaded[e][a].secret \in Ledger(a) /\ loaded[e][a].secret \in Secret
    BY SecretsType DEF SecretsWritten
  <1>3. RecordWith(e, a, s) /\ exe[e].kind # "retry"
    BY DEF NewRecord, CreateRecord, RecordThenFail
  <1>4. \A i \in Execution, c \in Account : ~(i = e /\ c = a) => rec'[i][c] = rec[i][c]
    BY <1>1, <1>3 DEF RecordWith, TypeOK
  <1>5. rec[e][a].old \notin Secret /\ rec[e][a].new \notin Secret
    BY <1>1, ConstantsAssumption DEF NoRecord
  <1>6. CASE b # a
    <2>1. Written(b)' = Written(b)
      BY <1>4, <1>6 DEF Written
    <2> QED
      BY <1>6, <2>1 DEF Ledger
  <1>7. CASE b = a /\ exe[e].kind = "change"
    <2>1. rec'[e][a].old = loaded[e][a].secret /\ rec'[e][a].new = s
      BY <1>1, <1>3, <1>7 DEF RecordWith, TypeOK
    <2>2. Written(a)' = Written(a) \cup {loaded[e][a].secret, s}
      BY <1>2, <1>4, <1>5, <2>1 DEF Written
    <2> QED
      BY <1>2, <1>7, <2>2 DEF Ledger
  <1>8. CASE b = a /\ exe[e].kind # "change"
    <2>1. exe[e].kind = "push"
      BY <1>3, <1>8 DEF TypeOK, ExeRow
    <2>2. rec'[e][a] = [NoRecord EXCEPT !.status = "pending"]
      BY <1>1, <1>3, <2>1 DEF RecordWith, TypeOK
    <2>3. rec'[e][a].old = None /\ rec'[e][a].new = None
      BY <2>2 DEF NoRecord
    <2>4. Written(a)' = Written(a)
      BY <1>4, <1>5, <2>3, ConstantsAssumption DEF Written
    <2> QED
      BY <1>8, <2>4 DEF Ledger
  <1> QED
    BY <1>6, <1>7, <1>8


-----------------------------------------------------------------------------
(* Every secret in use is in the ledger.                                   *)

LEMMA CandidateWritten ==
    ASSUME TypeOK, Registry, NEW e \in Execution, NEW a \in Account,
           exe[e].kind # "push", step[e][a] \notin Unrecorded
    PROVE  Rec(e, a).new \in Ledger(a)
  <1>1. Rec(e, a).new \in Secret /\ exe[e].src \in Execution
    BY CandidateKnown, SecretsType
  <1>2. Rec(e, a).new \in Written(a)
    BY <1>1 DEF Written, Rec
  <1> QED
    BY <1>2 DEF Ledger

LEMMA SavedSecret ==
    \A a, mem, s : Saved(a, mem, s).secret = s
  BY DEF Saved

\* A worker and a recovery store only secrets of the ledger on the accounts.
LEMMA AccountsWritten ==
    ASSUME TypeOK, Registry, SecretsWritten, NEW e \in Execution,
           Work(e) \/ Crash(e) \/ Recovery(e) \/ RecoverStops(e), NEW b \in Account
    PROVE  acct'[b].secret \in Ledger(b)
  <1>1. acct[b].secret \in Ledger(b) /\ Touched(b).secret = acct[b].secret
    BY SavedSecret DEF SecretsWritten, Touched
  <1>2. CASE UNCHANGED acct
    BY <1>1, <1>2
  <1>3. ASSUME NEW a \in Account, NEW v, acct' = [acct EXCEPT ![a] = v], v.secret \in Ledger(a)
        PROVE  acct'[b].secret \in Ledger(b)
    BY <1>1, <1>3 DEF TypeOK
  <1>4. ASSUME NEW a \in Account, HostSuccess(e, a)
        PROVE  acct'[b].secret \in Ledger(b)
    <2>1. CASE exe[e].kind # "push" /\ cb[e][a] # "unknown" /\ acct' # acct
      <3>1. Rec(e, a).new \in Ledger(a)
        BY <1>4, <2>1, CandidateWritten DEF HostSuccess, Unrecorded
      <3>2. acct' = [acct EXCEPT ![a] = Saved(a, Rec(e, a).new, Rec(e, a).new)]
        BY <1>4, <2>1 DEF HostSuccess, SaveFails
      <3> QED
        BY <1>3, <3>1, <3>2, SavedSecret
    <2>2. CASE ~(exe[e].kind # "push" /\ cb[e][a] # "unknown") /\ acct' # acct
      <3>1. acct' = [acct EXCEPT ![a] = Saved(a, Mem(e, a), acct[a].secret)]
        BY <1>4, <2>2 DEF HostSuccess, SaveFails
      <3>2. acct[a].secret \in Ledger(a)
        BY DEF SecretsWritten
      <3> QED
        BY <1>3, <3>1, <3>2, SavedSecret, ZenonT(60)
    <2> QED
      BY <1>2, <2>1, <2>2
  <1>5. ASSUME NEW a \in Account, HostError(e, a) \/ HostIncomplete(e, a)
        PROVE  acct'[b].secret \in Ledger(b)
    <2>1. acct[a].secret \in Ledger(a)
      BY DEF SecretsWritten
    <2>2. \/ acct' = acct
          \/ \E mem : acct' = [acct EXCEPT ![a] = Saved(a, mem, acct[a].secret)]
      BY <1>5 DEF HostError, HostIncomplete, SaveFails, Touched
    <2> QED
      BY <1>2, <1>3, <2>1, <2>2, SavedSecret
  <1>6. ASSUME acct' = acct \/ \E P : acct' = [a \in Account |-> IF a \in P THEN Touched(a) ELSE acct[a]]
        PROVE  acct'[b].secret \in Ledger(b)
    BY <1>1, <1>6
  <1>7. CASE Finalize(e) \/ Recovery(e)
    BY <1>6, <1>7 DEF Finalize, Recovery, Recover, RecoverClear, rows
  <1> QED
    BY <1>2, <1>4, <1>5, <1>7
    DEF Work, Crash, RecoverStops, PreRun, LoadAccounts, Prepared, NoMoreBatches, SaveExecution,
        ReleaseAll, Prepare, FilterOut, Acquire, Reject, PrepareFails, CreateRecord, RecordThenFail,
        Settle, Free, FinalizeClear, StartBatch, RunHost, Abort, Stop, EndBatch, RunnerEnds, rows

\* What is sent to a host is in the ledger, and what a worker loads.
LEMMA RemoteWritten ==
    ASSUME TypeOK, Registry, SecretsWritten, NEW e \in Execution, Work(e) \/ Crash(e)
    PROVE  /\ \A b \in Account : remote'[b] \in Ledger(b)
           /\ \A b \in Account, i \in Execution : loaded'[i][b].secret \in Ledger(b)
  <1>1. ASSUME NEW a \in Account, NEW changed \in BOOLEAN, NEW report \in Report,
               RunHost(e, a, changed, report), NEW b \in Account
        PROVE  remote'[b] \in Ledger(b)
    <2>1. Sent(e, a) \in Ledger(a)
      BY <1>1, CandidateWritten DEF RunHost, Sent, Unrecorded, SecretsWritten
    <2> QED
      BY <1>1, <2>1 DEF RunHost, TypeOK, SecretsWritten
  <1>2. UNCHANGED remote \/ \E a \in Account, changed \in BOOLEAN, report \in Report :
                                RunHost(e, a, changed, report)
    BY DEF Work, Crash, PreRun, LoadAccounts, Prepared, NoMoreBatches, Finalize, SaveExecution,
       ReleaseAll, Prepare, FilterOut, Acquire, Reject, PrepareFails, CreateRecord, RecordThenFail,
       Settle, HostSuccess, HostError, HostIncomplete, Free, FinalizeClear, StartBatch,
       Abort, Stop, EndBatch, RunnerEnds
  <1>3. UNCHANGED loaded \/ LoadAccounts(e) \/ Forget(e)
    BY DEF Work, Crash, PreRun, Prepared, NoMoreBatches, Finalize, SaveExecution,
       ReleaseAll, Prepare, FilterOut, Acquire, Reject, PrepareFails, CreateRecord, RecordThenFail,
       Settle, HostSuccess, HostError, HostIncomplete, Free, FinalizeClear, StartBatch, RunHost,
       Abort, Stop, EndBatch, RunnerEnds
  <1>4. \A b \in Account : remote'[b] \in Ledger(b)
    BY <1>1, <1>2 DEF SecretsWritten
  <1>5. ASSUME NEW b \in Account, NEW i \in Execution
        PROVE  loaded'[i][b].secret \in Ledger(b)
    <2>1. CASE UNCHANGED loaded
      BY <2>1 DEF SecretsWritten
    <2>2. CASE LoadAccounts(e)
      BY <2>2 DEF LoadAccounts, SecretsWritten, TypeOK
    <2>3. CASE Forget(e)
      BY <2>3 DEF Forget, SecretsWritten, TypeOK
    <2> QED
      BY <1>3, <2>1, <2>2, <2>3
  <1> QED
    BY <1>4, <1>5


LEMMA WrittenNext == TypeOK /\ Registry /\ SecretsWritten /\ [Next]_vars => SecretsWritten'
  <1> SUFFICES ASSUME TypeOK, Registry, SecretsWritten, [Next]_vars,
                      NEW b \in Account
               PROVE  /\ InitSecret \in Ledger(b)'
                      /\ acct'[b].secret \in Ledger(b)'
                      /\ remote'[b] \in Ledger(b)'
                      /\ \A e \in Execution : loaded'[e][b].secret \in Ledger(b)'
    BY DEF SecretsWritten
  <1>1. Ledger(b) \subseteq Ledger(b)'
    BY OnlyNewRecords, LedgerKept, LedgerGrows
  <1>2. acct'[b].secret \in Ledger(b)
    <2>1. CASE \E e \in Execution : Work(e) \/ Crash(e) \/ Recovery(e) \/ RecoverStops(e)
      BY <2>1, AccountsWritten
    <2>2. CASE UNCHANGED acct
      BY <2>2 DEF SecretsWritten
    <2>3. ASSUME NEW i \in Execution, NEW a \in Account, Request(i, a)
          PROVE  acct'[b].secret \in Ledger(b)
      <3>1. CASE \E force \in Forces : Restore(i, a, force) /\ acct' # acct
        <4>1. /\ rec[i][a].new # None
              /\ acct' = [acct EXCEPT ![a] = Saved(a, rec[i][a].new, rec[i][a].new)]
          BY <3>1 DEF Restore
        <4>2. rec[i][a].new \in Ledger(a)
          <5>1. rec[i][a].new \in Secret
            BY <4>1 DEF TypeOK, RecRow
          <5> QED
            BY <5>1 DEF Written, Ledger
        <4> QED
          BY <4>1, <4>2, SavedSecret DEF TypeOK, SecretsWritten
      <3> QED
        BY <2>2, <2>3, <3>1 DEF Request, VerifyStart, VerifyEnd
    <2>4. (\E e \in Execution, k \in Kinds, src \in Execution, T \in SUBSET Account :
              Create(e, k, src, T)) \/ (\E a \in Account : LockExpires(a) \/ TaskExpires(a))
          \/ UNCHANGED vars => UNCHANGED acct
      BY SMTT(60) DEF Create, LockExpires, TaskExpires, vars, rows
    <2> QED
      BY <2>1, <2>2, <2>3, <2>4 DEF Next
  <1>3. remote'[b] \in Ledger(b) /\ \A e \in Execution : loaded'[e][b].secret \in Ledger(b)
    <2>1. CASE \E e \in Execution : Work(e) \/ Crash(e)
      BY <2>1, RemoteWritten
    <2>2. CASE UNCHANGED <<remote, loaded>>
      BY <2>2 DEF SecretsWritten
    <2>3. CASE \/ \E e \in Execution, k \in Kinds, src \in Execution, T \in SUBSET Account :
                    Create(e, k, src, T)
               \/ \E x \in Account : LockExpires(x) \/ TaskExpires(x)
               \/ UNCHANGED vars
      BY <2>2, <2>3, SMTT(60) DEF Create, LockExpires, TaskExpires, vars, memory
    <2>4. CASE \E e \in Execution : Recovery(e) \/ RecoverStops(e)
      BY <2>2, <2>4, SMTT(60) DEF Recovery, Recover, RecoverClear, RecoverStops, memory
    <2>5. CASE \E i \in Execution, x \in Account : Request(i, x)
      BY <2>2, <2>5, SMTT(60) DEF Request, VerifyStart, VerifyEnd, Restore, memory
    <2> QED
      BY <2>1, <2>3, <2>4, <2>5 DEF Next
  <1> QED
    BY <1>1, <1>2, <1>3 DEF SecretsWritten

LEMMA WrittenInit == Init => SecretsWritten
  <1> SUFFICES ASSUME Init, NEW a \in Account  PROVE Ledger(a) = {InitSecret}
    BY DEF Init, SecretsWritten
  <1>1. Written(a) = {}
    BY ConstantsAssumption DEF Init, Written, NoRecord
  <1> QED
    BY <1>1 DEF Ledger

\* create_record keeps its word for any number of accounts, executions and
\* secrets, and also when live workers outlast their locks: the secret the
\* remote system accepts is never lost to the database.
THEOREM SecretsSurvive == Spec => []RemoteRecoverable
  <1>1. Init => IInv /\ SecretsWritten
    BY Invariance, WrittenInit
  <1>2. IInv /\ SecretsWritten /\ [Next]_vars => (IInv /\ SecretsWritten)'
    BY Invariance, WrittenNext DEF IInv
  <1>3. SecretsWritten => RemoteRecoverable
    BY LedgerIsKnown DEF SecretsWritten, RemoteRecoverable
  <1> QED
    BY <1>1, <1>2, <1>3, PTL DEF Spec

-----------------------------------------------------------------------------
(* The refinement.                                                         *)

Released(A) == lock' = [a \in Account |-> IF a \in A THEN None ELSE lock[a]]

LEMMA ClearReleases ==
    ASSUME TypeOK, NEW e \in Execution, NEW a \in Account, Clear(e, a)
    PROVE  \E A \in SUBSET {a} : Released(A)
  <1>1. CASE lock[a] = e
    <2>1. Released({a})
      BY <1>1 DEF Clear, TypeOK, Released
    <2> QED
      BY <2>1
  <1>2. CASE lock[a] # e
    <2>1. Released({})
      BY <1>2 DEF Clear, TypeOK, Released
    <2> QED
      BY <2>1
  <1> QED
    BY <1>1, <1>2

LEMMA LockMoves ==
    ASSUME TypeOK, [Next]_vars
    PROVE  \/ UNCHANGED lock
           \/ \E e \in Execution, a \in Account : Acquire(e, a)
           \/ \E A \in SUBSET Account : Released(A)
  <1>1. ASSUME NEW e \in Execution, NEW a \in Account, Clear(e, a)
        PROVE  \E A \in SUBSET Account : Released(A)
    BY <1>1, ClearReleases
  <1>2. ASSUME NEW e \in Execution, ReleaseAll(e)
        PROVE  \E A \in SUBSET Account : Released(A)
    <2> DEFINE A == {a \in Account : step[e][a] \in Holding /\ lock[a] = e}
    <2>1. Released(A)
      BY <1>2 DEF ReleaseAll, Released
    <2> QED
      BY <2>1
  <1>3. ASSUME NEW a \in Account, LockExpires(a)
        PROVE  \E A \in SUBSET Account : Released(A)
    <2>1. Released({a})
      BY <1>3 DEF LockExpires, Released, TypeOK
    <2> QED
      BY <2>1
  <1>4. ASSUME NEW e \in Execution, Work(e)
        PROVE  \/ UNCHANGED lock
               \/ ReleaseAll(e)
               \/ \E a \in Account : Clear(e, a) \/ Acquire(e, a)
    BY <1>4 DEF Work, PreRun, LoadAccounts, Prepared, NoMoreBatches, Finalize, SaveExecution,
       Prepare, FilterOut, Reject, PrepareFails, CreateRecord, RecordThenFail,
       Settle, HostSuccess, HostError, HostIncomplete, Free, FinalizeClear, StartBatch, RunHost,
       Abort, Stop, EndBatch, RunnerEnds, redis
  <1>5. ASSUME NEW e \in Execution, Crash(e) \/ Recovery(e) \/ RecoverStops(e)
        PROVE  UNCHANGED lock \/ \E a \in Account : Clear(e, a)
    BY <1>5 DEF Crash, Recovery, Recover, RecoverClear, RecoverStops, redis
  <1>6. ASSUME NEW i \in Execution, NEW a \in Account, Request(i, a)
        PROVE  UNCHANGED lock
    BY <1>6 DEF Request, VerifyStart, VerifyEnd, Restore, redis
  <1>7. ASSUME NEW e \in Execution, NEW k \in Kinds, NEW src \in Execution,
               NEW T \in SUBSET Account, Create(e, k, src, T)
        PROVE  UNCHANGED lock
    BY <1>7 DEF Create, redis
  <1>8. UNCHANGED vars \/ (\E a \in Account : TaskExpires(a)) => UNCHANGED lock
    BY DEF vars, redis, TaskExpires
  <1> QED
    BY <1>1, <1>2, <1>3, <1>4, <1>5, <1>6, <1>7, <1>8 DEF Next

LEMMA RemoteMoves ==
    ASSUME [Next]_vars
    PROVE  \/ UNCHANGED remote
           \/ \E e \in Execution, a \in Account, report \in Report : RunHost(e, a, TRUE, report)
  <1>1. ASSUME NEW e \in Execution, NEW a \in Account, NEW changed \in BOOLEAN,
               NEW report \in Report, RunHost(e, a, changed, report)
        PROVE  UNCHANGED remote \/ RunHost(e, a, TRUE, report)
    BY <1>1 DEF RunHost
  <1>2. ASSUME NEW e \in Execution, Work(e)
        PROVE  \/ UNCHANGED remote
               \/ \E a \in Account, changed \in BOOLEAN, report \in Report :
                     RunHost(e, a, changed, report)
    BY <1>2 DEF Work, PreRun, LoadAccounts, Prepared, NoMoreBatches, Finalize, SaveExecution, ReleaseAll,
       Prepare, FilterOut, Acquire, Reject, PrepareFails, CreateRecord, RecordThenFail,
       Settle, HostSuccess, HostError, HostIncomplete, Free, FinalizeClear, StartBatch,
       Abort, Stop, EndBatch, RunnerEnds
  <1>3. ASSUME NEW e \in Execution, NEW k \in Kinds, NEW src \in Execution,
               NEW T \in SUBSET Account, Create(e, k, src, T)
        PROVE  UNCHANGED remote
    BY <1>3 DEF Create
  <1>4. ASSUME NEW e \in Execution, Crash(e) \/ Recovery(e) \/ RecoverStops(e)
        PROVE  UNCHANGED remote
    BY <1>4 DEF Crash, Recovery, Recover, RecoverClear, RecoverStops
  <1>5. ASSUME NEW i \in Execution, NEW a \in Account, Request(i, a)
        PROVE  UNCHANGED remote
    BY <1>5 DEF Request, VerifyStart, VerifyEnd, Restore
  <1>6. UNCHANGED vars \/ (\E a \in Account : LockExpires(a) \/ TaskExpires(a)) => UNCHANGED remote
    BY DEF vars, LockExpires, TaskExpires
  <1> QED
    BY <1>1, <1>2, <1>3, <1>4, <1>5, <1>6, ConstantsAssumption, ZenonT(60) DEF Next


LEMMA CustodyStep ==
    ASSUME ~Overrun, IInv, SecretsWritten, SecretsWritten', [Next]_vars
    PROVE  [Custody!CustodyNext]_(Custody!cvars)
  <1> USE DEF IInv
  <1> DEFINE known == [a \in Account |-> Known(a)]
  <1>1. Held
    BY HeldIsLocked
  <1>2. \A a \in Account : Known(a) = Ledger(a)
    BY LedgerIsKnown
  <1>3. \A a \in Account : Known(a)' = Ledger(a)'
    <2>1. \A a \in Account : Known(a)' = {acct'[a].secret} \cup Written(a)'
      BY DEF Known, Written
    <2> QED
      BY <2>1 DEF SecretsWritten, Ledger
  <1>4. ASSUME NEW e \in Execution, NEW a \in Account, step[e][a] \in Holding
        PROVE  lock[a] # None
    BY <1>1, <1>4, ConstantsAssumption DEF Held
  <1>5. ASSUME NEW A \in SUBSET Account, Released(A), UNCHANGED <<known, remote>>
        PROVE  Custody!CustodyNext
    BY <1>5 DEF Custody!CustodyNext, Custody!Release, Released
  <1>6. ASSUME NEW e \in Execution, NEW a \in Account, NEW s \in Secret, NewRecord(e, a, s)
        PROVE  Custody!CustodyNext \/ UNCHANGED Custody!cvars
    <2>1. UNCHANGED remote /\ step[e][a] \in Holding
      BY <1>6 DEF NewRecord, CreateRecord, RecordThenFail, Holding
    <2>2. UNCHANGED lock \/ \E A \in SUBSET {a} : Released(A)
      BY <1>6, ClearReleases DEF NewRecord, CreateRecord, RecordThenFail
    <2>3. CASE exe[e].kind = "change"
      <3>1. known' = [known EXCEPT ![a] = @ \cup {s}]
        <4>1. \A b \in Account : Ledger(b)' = IF b = a THEN Ledger(b) \cup {s} ELSE Ledger(b)
          BY <1>6, <2>3, LedgerGrows
        <4>2. \A b \in Account : Known(b)' = IF b = a THEN Known(b) \cup {s} ELSE Known(b)
          BY <1>2, <1>3, <4>1
        <4>3. known' = [b \in Account |-> IF b = a THEN Known(b) \cup {s} ELSE Known(b)]
          BY <4>2
        <4> QED
          BY <4>3
      <3>2. lock' \in {lock, [lock EXCEPT ![a] = None]}
        <4>1. ASSUME NEW A \in SUBSET {a}, Released(A)
              PROVE  lock' \in {lock, [lock EXCEPT ![a] = None]}
          <5>1. CASE A = {}
            BY <4>1, <5>1 DEF Released, TypeOK
          <5>2. CASE A = {a}
            BY <4>1, <5>2 DEF Released, TypeOK
          <5> QED
            BY <5>1, <5>2
        <4> QED
          BY <2>2, <4>1
      <3> QED
        BY <1>4, <2>1, <3>1, <3>2 DEF Custody!CustodyNext, Custody!WriteDown
    <2>4. CASE exe[e].kind # "change"
      <3>1. UNCHANGED known
        BY <1>2, <1>3, <1>6, <2>4, LedgerGrows
      <3> QED
        BY <1>5, <2>1, <2>2, <3>1 DEF Custody!cvars
    <2> QED
      BY <2>3, <2>4
  <1>7. CASE RecKept
    <2>1. UNCHANGED known
      BY <1>2, <1>3, <1>7, LedgerKept
    <2>2. ASSUME NEW e \in Execution, NEW a \in Account, NEW report \in Report,
                 RunHost(e, a, TRUE, report)
          PROVE  Custody!CustodyNext
      <3>1. step[e][a] \in Holding /\ UNCHANGED lock /\ remote' = [remote EXCEPT ![a] = Sent(e, a)]
        BY <2>2 DEF RunHost, Holding, redis
      <3>2. Sent(e, a) \in known[a] /\ Sent(e, a) \in Secret
        <4>1. Sent(e, a) \in Ledger(a)
          BY <2>2, CandidateWritten DEF RunHost, Sent, Unrecorded, SecretsWritten
        <4>2. Sent(e, a) \in Secret
          BY <2>2, CandidateKnown, SecretsType DEF RunHost, Sent, Unrecorded
        <4> QED
          BY <1>2, <4>1, <4>2
      <3> QED
        BY <1>4, <2>1, <3>1, <3>2 DEF Custody!CustodyNext, Custody!Apply
    <2>3. ASSUME NEW e \in Execution, NEW a \in Account, Acquire(e, a)
          PROVE  Custody!CustodyNext
      BY <2>1, <2>3 DEF Acquire, Custody!CustodyNext, Custody!Take
    <2>4. (\E e \in Execution, a \in Account, report \in Report : RunHost(e, a, TRUE, report))
          \/ UNCHANGED remote
      BY RemoteMoves
    <2>5. CASE UNCHANGED remote
      BY <1>5, <2>1, <2>3, <2>5, LockMoves DEF Custody!cvars
    <2> QED
      BY <2>2, <2>4, <2>5
  <1> QED
    BY <1>6, <1>7, OnlyNewRecords

\* While no worker outlasts its lock, rotation implements the custody of the
\* remote secret: every candidate is written down by the holder of the account
\* before it is applied, only the holder applies a secret, and what is written
\* down stays written, whatever fails, dies or is recovered.
THEOREM RotationKeepsCustody ==
    ASSUME ~Overrun
    PROVE  Spec => CustodySpec
  <1>1. Init => IInv /\ SecretsWritten
    BY Invariance, WrittenInit
  <1>2. IInv /\ SecretsWritten /\ [Next]_vars => (IInv /\ SecretsWritten)'
    BY Invariance, WrittenNext DEF IInv
  <1>3. Init => Custody!CustodyInit
    <2> SUFFICES ASSUME Init, NEW a \in Account  PROVE Known(a) = {InitSecret}
      BY DEF Init, Custody!CustodyInit
    <2>1. SecretsWritten /\ Written(a) = {}
      BY WrittenInit, ConstantsAssumption DEF Init, Written, NoRecord
    <2> QED
      BY <2>1, LedgerIsKnown DEF Ledger
  <1>4. IInv /\ SecretsWritten /\ SecretsWritten' /\ [Next]_vars
           => [Custody!CustodyNext]_(Custody!cvars)
    BY CustodyStep
  <1> QED
    BY <1>1, <1>2, <1>3, <1>4, PTL DEF Spec, CustodySpec, Custody!CustodySpec

-----------------------------------------------------------------------------
(* Results.                                                                *)

\* What a worker that no longer prepares has done with its accounts, or why it has not.
Past == {"loop", "runner", "settle", "raised", "stopped", "post", "save", "release"}
Counted == {"settled", "cleared", "freed"}

Complete(e) ==
    /\ \A a \in Account : step[e][a] \in Counted => tally[e][a] # "none"
    /\ pc[e] = "prepare" => \A a \in exe[e].targets : step[e][a] # "out"
    /\ pc[e] \in Past => \/ outcome[e] # "success"
                         \/ \A a \in exe[e].targets : step[e][a] \notin {"out", "todo", "locked", "broken"}
    /\ pc[e] \in {"save", "release"} => \A a \in Account : step[e][a] \notin Unresolved
    /\ exe[e].status = "success" =>
          /\ pc[e] \in {"release", "gone"}
          /\ pc[e] = "release" => /\ outcome[e] = "success"
                                  /\ \A a \in Account : tally[e][a] \notin {"failed", "unverified"}

AllComplete == \A e \in Execution : Complete(e)

\* The row of a live worker is open until it has saved it: nobody else closes it.
StatusInv == ~Overrun => \A e \in Execution : Alive(e) /\ pc[e] # "release" => exe[e].status \in Open

-----------------------------------------------------------------------------
(* A worker changes its own row and memory only.                           *)

LEMMA RowAlone ==
    ASSUME TypeOK, NEW e \in Execution, Work(e) \/ Crash(e)
    PROVE  \A i \in Execution : i # e => exe'[i] = exe[i] /\ tally'[i] = tally[i] /\ outcome'[i] = outcome[i]
  <1>1. /\ \E x : exe' \in {exe, [exe EXCEPT ![e] = x]}
        /\ \E x : tally' \in {tally, [tally EXCEPT ![e] = x]}
        /\ \E x : outcome' \in {outcome, [outcome EXCEPT ![e] = x]}
    <2>1. ASSUME NEW a \in Account, NEW how, Count(e, a, how)
          PROVE  \E x : tally' \in {tally, [tally EXCEPT ![e] = x]}
      <3>1. tally' = [tally EXCEPT ![e] = [tally[e] EXCEPT ![a] = how]]
        BY <2>1 DEF Count
      <3> QED
        BY <3>1
    <2>2. ASSUME NEW x, exe' = [exe EXCEPT ![e].status = x]
          PROVE  \E y : exe' \in {exe, [exe EXCEPT ![e] = y]}
      <3>1. exe' = [exe EXCEPT ![e] = [exe[e] EXCEPT !.status = x]]
        BY <2>2
      <3> QED
        BY <3>1
    <2> QED
      BY <2>1, <2>2, ZenonT(60) DEF Work, Crash, Forget, PreRun, LoadAccounts, Prepared, NoMoreBatches, Finalize,
         SaveExecution, ReleaseAll, Prepare, FilterOut, Acquire, Reject, PrepareFails, CreateRecord,
         RecordThenFail, Settle, HostSuccess, HostError, HostIncomplete, SaveFails, Free,
         FinalizeClear, StartBatch, RunHost, Abort, Stop, EndBatch, RunnerEnds, rows
  <1> QED
    BY <1>1, SMTT(60) DEF TypeOK

-----------------------------------------------------------------------------
(* Complete.                                                               *)

LEMMA PrepareComplete ==
    ASSUME TypeOK, Registry, NEW e \in Execution, Complete(e), NEW a \in Account, Prepare(e, a)
    PROVE  Complete(e)'
  <1>1. /\ pc[e] = "prepare" /\ UNCHANGED <<exe, pc>>
        /\ \E next \in Step \ {"out", "settled", "cleared"} :
              /\ Goto(e, a, next)
              /\ IF next = "freed" THEN Count(e, a, "failed") ELSE UNCHANGED tally
    BY DEF Prepare, FilterOut, Acquire, Reject, PrepareFails, CreateRecord, RecordThenFail, rows, Step
  <1> QED
    BY <1>1 DEF Complete, Past, Counted, Goto, Count, TypeOK

LEMMA SettleComplete ==
    ASSUME TypeOK, Registry, NEW e \in Execution, Complete(e), NEW a \in Account,
           Settle(e, a) \/ FinalizeClear(e, a)
    PROVE  Complete(e)'
  <1>1. /\ UNCHANGED <<exe, pc>> /\ step[e][a] \notin Unrecorded
        /\ \E next \in Counted : Goto(e, a, next)
    BY SettleKept DEF Settle, HostSuccess, HostError, HostIncomplete, Free, FinalizeClear, rows, Counted
  <1>2. \/ \E how \in {"success", "failed", "unverified"} : Count(e, a, how)
        \/ UNCHANGED tally /\ step[e][a] = "settled"
    BY DEF Settle, HostSuccess, HostError, HostIncomplete, Free, FinalizeClear
  <1>3. outcome'[e] # "success" \/ outcome'[e] = outcome[e]
    BY DEF Settle, HostSuccess, HostError, HostIncomplete, Free, FinalizeClear, SaveFails, TypeOK
  <1>4. pc[e] \notin {"release", "save"} \/ (UNCHANGED <<tally, outcome>> /\ step[e][a] = "settled")
    BY DEF Settle, HostSuccess, HostError, HostIncomplete, Free, FinalizeClear
  <1>5. \A b \in Account : /\ b # a => step'[e][b] = step[e][b] /\ tally'[e][b] = tally[e][b]
                          /\ step'[e][a] \in Counted /\ tally'[e][a] # "none"
    BY <1>1, <1>2 DEF Goto, Count, TypeOK, Complete, Counted
  <1>6. exe[e].targets \subseteq Account
    BY DEF TypeOK, ExeRow
  <1> QED
    BY <1>1, <1>3, <1>4, <1>5, <1>6 DEF Complete, Past, Counted, Unresolved

LEMMA WorkComplete ==
    ASSUME TypeOK, Registry, NEW e \in Execution, Complete(e), Work(e) \/ Crash(e)
    PROVE  Complete(e)'
  <1> USE DEF rows, redis
  <1>0. exe[e].targets \subseteq Account
    BY DEF TypeOK, ExeRow
  <1>1. CASE PreRun(e)
    <2>1. pc'[e] = "load" /\ exe'[e].status = "running" /\ UNCHANGED <<step, tally>>
      BY <1>1 DEF PreRun, TypeOK, ExeRow
    <2> QED
      BY <2>1 DEF Complete, Past
  <1>2. CASE LoadAccounts(e)
    <2>1. /\ pc[e] = "load" /\ pc'[e] = "prepare" /\ UNCHANGED exe
          /\ \A a \in Account : step'[e][a] = IF a \in exe[e].targets THEN "todo" ELSE "out"
      BY <1>2 DEF LoadAccounts, TypeOK
    <2> QED
      BY <1>0, <2>1 DEF Complete, Past, Counted
  <1>3. CASE Prepared(e)
    BY <1>0, <1>3 DEF Prepared, Complete, Past, TypeOK
  <1>4. CASE NoMoreBatches(e)
    BY <1>4 DEF NoMoreBatches, Complete, Past, TypeOK
  <1>5. ASSUME NEW how \in Terminal, Abort(e, how) \/ Stop(e, how)
        PROVE  Complete(e)'
    BY <1>5 DEF Abort, Stop, Complete, Past, TypeOK
  <1>6. ASSUME NEW how \in Terminal, NEW next \in PC, RunnerEnds(e, next, how)
        PROVE  Complete(e)'
    BY <1>6 DEF RunnerEnds, Complete, Past, TypeOK
  <1>7. ASSUME NEW how \in Terminal, EndBatch(e, how)
        PROVE  Complete(e)'
    <2>1. /\ pc[e] \in {"settle", "raised", "stopped"} /\ pc'[e] \in {"post", "loop"}
          /\ UNCHANGED <<exe, tally>>
          /\ outcome'[e] # "success" \/ outcome'[e] = outcome[e]
      BY <1>7 DEF EndBatch, TypeOK
    <2>2. \A a \in Account : step'[e][a] = IF step[e][a] \in {"batch", "ran"} THEN "left" ELSE step[e][a]
      BY <1>7 DEF EndBatch, TypeOK
    <2> QED
      BY <1>0, <2>1, <2>2 DEF Complete, Past, Counted
  <1>8. ASSUME NEW B \in SUBSET Account, StartBatch(e, B)
        PROVE  Complete(e)'
    <2>1. /\ pc[e] = "loop" /\ pc'[e] = "runner" /\ UNCHANGED <<exe, tally, outcome>>
          /\ \A a \in Account : step'[e][a] = IF a \in B THEN "batch" ELSE step[e][a]
      BY <1>8 DEF StartBatch, TypeOK
    <2> QED
      BY <1>0, <2>1 DEF Complete, Past, Counted
  <1>9. ASSUME NEW a \in Account, NEW changed \in BOOLEAN, NEW report \in Report,
               RunHost(e, a, changed, report)
        PROVE  Complete(e)'
    BY <1>9 DEF RunHost, Goto, Complete, Past, Counted, TypeOK
  <1>10. CASE Finalize(e)
    <2>1. /\ pc' = [pc EXCEPT ![e] = "save"] /\ pc[e] = "post" /\ UNCHANGED <<exe, step, tally>>
          /\ \A a \in Account : step[e][a] \notin Unresolved
          /\ outcome'[e] # "success" \/ outcome'[e] = outcome[e]
      BY <1>10 DEF Finalize, TypeOK
    <2> QED
      BY <2>1 DEF Complete, Past, TypeOK
  <1>11. CASE SaveExecution(e)
    <2>1. /\ pc' = [pc EXCEPT ![e] = "release"] /\ pc[e] = "save" /\ UNCHANGED <<step, tally>>
          /\ exe'[e].targets = exe[e].targets
          /\ exe'[e].status \in {outcome'[e], exe[e].status}
          /\ outcome'[e] = "success" =>
                outcome[e] = "success" /\ \A a \in Account : tally[e][a] \notin {"failed", "unverified"}
      BY <1>11 DEF SaveExecution, TypeOK, ExeRow
    <2> QED
      BY <2>1 DEF Complete, Past, TypeOK
  <1>12. CASE ReleaseAll(e) \/ Crash(e)
    BY <1>12 DEF ReleaseAll, Crash, Forget, Complete, Past, Counted, TypeOK
  <1> QED
    BY <1>1, <1>2, <1>3, <1>4, <1>5, <1>6, <1>7, <1>8, <1>9, <1>10, <1>11, <1>12,
       PrepareComplete, SettleComplete DEF Work

LEMMA AllCompleteNext == TypeOK /\ Registry /\ AllComplete /\ [Next]_vars => AllComplete'
  <1> SUFFICES ASSUME TypeOK, Registry, AllComplete, [Next]_vars, NEW e \in Execution
               PROVE  Complete(e)'
    BY DEF AllComplete
  <1>0. Complete(e)
    BY DEF AllComplete
  <1> USE DEF rows, redis, memory
  <1>1. CASE UNCHANGED <<exe[e], pc[e], step[e], tally[e], outcome[e]>>
    BY <1>0, <1>1 DEF Complete
  <1>2. ASSUME NEW i \in Execution, Work(i) \/ Crash(i)
        PROVE  Complete(e)'
    BY <1>0, <1>1, <1>2, WorkComplete, WorkerAlone, RowAlone
  <1>3. ASSUME NEW i \in Execution, NEW k \in Kinds, NEW src \in Execution,
               NEW T \in SUBSET Account, Create(i, k, src, T)
        PROVE  Complete(e)'
    <2>1. CASE i = e
      <3>1. pc'[e] = "created" /\ exe'[e].status = "pending" /\ UNCHANGED <<step, tally>>
        BY <1>3, <2>1 DEF Create, TypeOK
      <3> QED
        BY <1>0, <3>1 DEF Complete, Past
    <2>2. CASE i # e
      BY <1>1, <1>3, <2>2 DEF Create, TypeOK
    <2> QED
      BY <2>1, <2>2
  <1>4. ASSUME NEW i \in Execution, Recovery(i) \/ RecoverStops(i)
        PROVE  Complete(e)'
    <2>1. UNCHANGED <<pc, step, tally, outcome>>
      BY <1>4 DEF Recovery, Recover, RecoverClear, RecoverStops
    <2>2. \/ exe'[e] = exe[e]
          \/ exe'[e].status \in {"canceled", "error"} /\ exe'[e].targets = exe[e].targets
      BY <1>4 DEF Recovery, Recover, RecoverClear, RecoverStops, TypeOK, ExeRow
    <2> QED
      BY <1>0, <2>1, <2>2 DEF Complete
  <1>5. ASSUME NEW a \in Account, LockExpires(a) \/ TaskExpires(a)
        PROVE  Complete(e)'
    BY <1>1, <1>5 DEF LockExpires, TaskExpires
  <1>6. ASSUME NEW i \in Execution, NEW a \in Account, Request(i, a)
        PROVE  Complete(e)'
    BY <1>1, <1>6 DEF Request, VerifyStart, VerifyEnd, Restore
  <1> QED
    BY <1>1, <1>2, <1>3, <1>4, <1>5, <1>6 DEF Next, vars

\* The status an execution shows is earned, for any accounts and executions: a success is
\* saved only when every account it was started for was filtered out or counted as changed
\* (update_execution and the counts of the handlers), also when locks expire and recoveries
\* come under a live worker.
THEOREM SuccessesAreComplete == Spec => []SuccessIsComplete
  <1>1. Init => AllComplete
    BY DEF Init, AllComplete, Complete, Past, Counted
  <1>2. TypeOK /\ Registry /\ AllComplete => SuccessIsComplete
    <2> SUFFICES ASSUME TypeOK, Registry, AllComplete, NEW e \in Execution, pc[e] = "release",
                        exe[e].status = "success", NEW a \in exe[e].targets
                 PROVE  step[e][a] = "filtered" \/ tally[e][a] = "success"
      BY DEF SuccessIsComplete
    <2>1. a \in Account /\ step[e][a] \in Step /\ tally[e][a] \in Tally
      BY DEF TypeOK, ExeRow
    <2>2. Complete(e)
      BY DEF AllComplete
    <2> QED
      BY <2>1, <2>2 DEF Complete, Past, Counted, Step, Tally, Unresolved
  <1> QED
    BY <1>1, <1>2, AllCompleteNext, Invariance, PTL DEF Spec, IInv

-----------------------------------------------------------------------------
(* Statuses.                                                               *)

Unsaved(e) == Alive(e) /\ pc[e] # "release" => exe[e].status \in Open

LEMMA WorkUnsaved ==
    ASSUME TypeOK, NEW e \in Execution, Unsaved(e), Work(e) \/ Crash(e)
    PROVE  Unsaved(e)'
  <1>1. CASE SaveExecution(e) \/ ReleaseAll(e) \/ Crash(e)
    BY <1>1 DEF SaveExecution, ReleaseAll, Crash, Forget, Unsaved, Alive, TypeOK
  <1>2. CASE PreRun(e)
    BY <1>2 DEF PreRun, Unsaved, Open, TypeOK, ExeRow
  <1>3. CASE UNCHANGED exe /\ (Alive(e)' /\ pc'[e] # "release" => Alive(e) /\ pc[e] # "release")
    BY <1>3, SMTT(60) DEF Unsaved
  <1>4. SaveExecution(e) \/ ReleaseAll(e) \/ Crash(e) \/ PreRun(e) \/ UNCHANGED exe
    <2>1. CASE \/ PreRun(e) \/ LoadAccounts(e) \/ Prepared(e) \/ NoMoreBatches(e)
               \/ Finalize(e) \/ SaveExecution(e) \/ ReleaseAll(e)
      BY <2>1, SMTT(60) DEF LoadAccounts, Prepared, NoMoreBatches, Finalize, rows
    <2>2. CASE \E b \in Account : Prepare(e, b)
      BY <2>2, SMTT(60) DEF Prepare, FilterOut, Acquire, Reject, PrepareFails, CreateRecord,
         RecordThenFail, rows
    <2>3. CASE \E b \in Account : Settle(e, b) \/ FinalizeClear(e, b)
      BY <2>3, SMTT(60) DEF Settle, HostSuccess, HostError, HostIncomplete, Free,
         FinalizeClear, rows
    <2>4. CASE \/ \E B \in SUBSET Account : StartBatch(e, B)
               \/ \E b \in Account, changed \in BOOLEAN, report \in Report :
                     RunHost(e, b, changed, report)
      BY <2>4, SMTT(60) DEF StartBatch, RunHost, rows
    <2>5. CASE \E how \in Terminal : \/ Abort(e, how) \/ Stop(e, how) \/ EndBatch(e, how)
                                    \/ \E next \in PC : RunnerEnds(e, next, how)
      BY <2>5, SMTT(60) DEF Abort, Stop, EndBatch, RunnerEnds, rows
    <2> QED
      BY <2>1, <2>2, <2>3, <2>4, <2>5 DEF Work
  <1>5. SaveExecution(e) \/ ReleaseAll(e) \/ Crash(e) \/ PreRun(e)
          \/ (Alive(e)' /\ pc'[e] # "release" => Alive(e) /\ pc[e] # "release")
    <2>1. CASE \/ PreRun(e) \/ LoadAccounts(e) \/ Prepared(e) \/ NoMoreBatches(e)
               \/ Finalize(e) \/ SaveExecution(e) \/ ReleaseAll(e)
      BY <2>1, SMTT(60) DEF LoadAccounts, Prepared, NoMoreBatches, Finalize, Alive, TypeOK
    <2>2. CASE \E b \in Account : Prepare(e, b)
      BY <2>2, SMTT(60) DEF Prepare, FilterOut, Acquire, Reject, PrepareFails, CreateRecord,
         RecordThenFail, Alive, TypeOK
    <2>3. CASE \E b \in Account : Settle(e, b) \/ FinalizeClear(e, b)
      BY <2>3, SMTT(60) DEF Settle, HostSuccess, HostError, HostIncomplete, Free,
         FinalizeClear, Alive, TypeOK
    <2>4. CASE \/ \E B \in SUBSET Account : StartBatch(e, B)
               \/ \E b \in Account, changed \in BOOLEAN, report \in Report :
                     RunHost(e, b, changed, report)
      BY <2>4, SMTT(60) DEF StartBatch, RunHost, Alive, TypeOK
    <2>5. CASE \E how \in Terminal : \/ Abort(e, how) \/ Stop(e, how) \/ EndBatch(e, how)
                                    \/ \E next \in PC : RunnerEnds(e, next, how)
      BY <2>5, SMTT(60) DEF Abort, Stop, EndBatch, RunnerEnds, Alive, TypeOK
    <2> QED
      BY <2>1, <2>2, <2>3, <2>4, <2>5 DEF Work
  <1> QED
    BY <1>1, <1>2, <1>3, <1>4, <1>5

LEMMA StatusNext ==
    ASSUME TypeOK, Registry, StatusInv, [Next]_vars
    PROVE  StatusInv' /\ (~Overrun => \A e \in Execution :
                            exe[e].status \in Terminal => exe'[e].status = exe[e].status)
  <1> SUFFICES ASSUME ~Overrun, NEW e \in Execution
               PROVE  Unsaved(e)' /\ (exe[e].status \in Terminal => exe'[e].status = exe[e].status)
    BY DEF StatusInv, Unsaved
  <1> DEFINE Goal == Unsaved(e)' /\ (exe[e].status \in Terminal => exe'[e].status = exe[e].status)
  <1>0. \A i \in Execution : Unsaved(i)
    BY DEF StatusInv, Unsaved
  <1> USE DEF rows, redis, memory
  <1>1. CASE UNCHANGED <<exe[e], pc[e]>>
    BY <1>0, <1>1 DEF Unsaved, Alive
  <1>2. ASSUME NEW i \in Execution, Work(i) \/ Crash(i)
        PROVE  Goal
    <2>1. CASE i # e
      BY <1>1, <1>2, <2>1, WorkerAlone, RowAlone
    <2>2. CASE i = e
      <3>1. Unsaved(e)'
        BY <1>0, <1>2, <2>2, WorkUnsaved
      <3>2. CASE pc[e] = "release"
        <4>1. UNCHANGED exe
          BY <1>2, <2>2, <3>2 DEF Work, Crash, PreRun, LoadAccounts, Prepared, NoMoreBatches, Finalize,
             SaveExecution, ReleaseAll, Prepare, FilterOut, Acquire, Reject, PrepareFails, CreateRecord,
             RecordThenFail, Settle, HostSuccess, HostError, HostIncomplete, Free,
             FinalizeClear, StartBatch, RunHost, Abort, Stop, EndBatch, RunnerEnds
        <4> QED
          BY <3>1, <4>1
      <3>3. CASE pc[e] # "release"
        <4>1. Alive(e)
          BY <1>2, <2>2, WorkerAlone
        <4> QED
          BY <1>0, <3>1, <3>3, <4>1 DEF Unsaved, Open, Terminal
      <3> QED
        BY <3>2, <3>3
    <2> QED
      BY <2>1, <2>2
  <1>3. ASSUME NEW i \in Execution, NEW k \in Kinds, NEW src \in Execution,
               NEW T \in SUBSET Account, Create(i, k, src, T)
        PROVE  Goal
    <2>1. CASE i = e
      BY <1>3, <2>1 DEF Create, Unsaved, Open, Terminal, TypeOK
    <2>2. CASE i # e
      BY <1>1, <1>3, <2>2 DEF Create, TypeOK
    <2> QED
      BY <2>1, <2>2
  <1>4. ASSUME NEW i \in Execution, Recovery(i) \/ RecoverStops(i)
        PROVE  Goal
    <2>1. CASE \E how \in {"canceled", "error"} : Recover(i, how)
      <3>1. Gone(i) /\ exe[i].status \in Open /\ UNCHANGED pc
        BY <2>1 DEF Recover, Interrupted
      <3>2. i # e => exe'[e] = exe[e]
        BY <2>1 DEF Recover, TypeOK
      <3> QED
        BY <1>1, <3>1, <3>2 DEF Unsaved, Gone, Alive, Open, Terminal
    <2>2. CASE UNCHANGED <<exe, pc>>
      BY <1>1, <2>2
    <2> QED
      BY <1>4, <2>1, <2>2 DEF Recovery, RecoverClear, RecoverStops
  <1>5. ASSUME NEW a \in Account, LockExpires(a) \/ TaskExpires(a)
        PROVE  Goal
    BY <1>1, <1>5 DEF LockExpires, TaskExpires
  <1>6. ASSUME NEW i \in Execution, NEW a \in Account, Request(i, a)
        PROVE  Goal
    BY <1>1, <1>6 DEF Request, VerifyStart, VerifyEnd, Restore
  <1> QED
    BY <1>1, <1>2, <1>3, <1>4, <1>5, <1>6 DEF Next, vars

\* A closed execution is never written again while no worker outlasts its lock: the recovery
\* looks at the row again under its lock, and a worker saves its row once
\* (finalize_interrupted_execution, update_execution).
THEOREM ClosedStaysClosed == Spec => TerminalIsFinal
  <1>1. Init => StatusInv
    BY DEF Init, StatusInv, Alive
  <1>2. TypeOK /\ Registry /\ StatusInv /\ [Next]_vars => StatusInv'
    BY StatusNext
  <1>3. /\ TypeOK /\ Registry /\ StatusInv /\ [Next]_vars
        => [~Overrun => \A e \in Execution :
               exe[e].status \in Terminal => exe'[e].status = exe[e].status]_vars
    BY StatusNext, SMTT(60)
  <1> QED
    BY <1>1, <1>2, <1>3, Invariance, PTL DEF Spec, IInv, TerminalIsFinal

-----------------------------------------------------------------------------
(* Pending records.                                                        *)

Working == {"prepare", "loop", "runner", "settle", "raised", "stopped", "post"}

\* Who will resolve a pending record: an execution for the recovery, a worker that still has
\* the account in its hands, or, when a save failed, one that does not end as a success.
Resolves(e, i, a) ==
    /\ exe[e].src = i /\ a \in exe[e].targets
    /\ \/ exe[e].status \in Open /\ Gone(e)
       \/ exe[e].status \in Open /\ pc[e] \in Working /\ step[e][a] \in Unresolved \cup {"cleared"}
       \/ SaveFaults /\ exe[e].status \in Open /\ Alive(e) /\ outcome[e] # "success"
       \/ SaveFaults /\ exe[e].status \in {"failed", "canceled", "error"}

Owned ==
    \A i \in Execution, a \in Account :
        rec[i][a].status = "pending" => \E e \in Execution : Resolves(e, i, a)

LEMMA WorkKeepsRow ==
    ASSUME TypeOK, NEW e \in Execution, Work(e) \/ Crash(e)
    PROVE  /\ exe'[e].src = exe[e].src /\ exe'[e].targets = exe[e].targets
           /\ \/ exe'[e].status = exe[e].status
              \/ PreRun(e) /\ exe'[e].status \in Open
              \/ SaveExecution(e)
  <1>1. CASE UNCHANGED exe
    BY <1>1
  <1>2. CASE PreRun(e) \/ SaveExecution(e)
    BY <1>2, SMTT(60) DEF PreRun, SaveExecution, Open, TypeOK, ExeRow
  <1> QED
    BY <1>1, <1>2 DEF Work, Crash, LoadAccounts, Prepared, NoMoreBatches, Finalize,
       ReleaseAll, Prepare, FilterOut, Acquire, Reject, PrepareFails, CreateRecord,
       RecordThenFail, Settle, HostSuccess, HostError, HostIncomplete, Free,
       FinalizeClear, StartBatch, RunHost, Abort, Stop, EndBatch, RunnerEnds, rows

\* A failure is not forgotten while the worker lives.
LEMMA FailureStays ==
    ASSUME TypeOK, Registry, NEW e \in Execution, Work(e), outcome[e] # "success"
    PROVE  ReleaseAll(e) \/ (Alive(e)' /\ outcome'[e] # "success")
  <1>1. ReleaseAll(e) \/ outcome'[e] # "success"
    <2>1. CASE \/ PreRun(e) \/ LoadAccounts(e) \/ Prepared(e) \/ NoMoreBatches(e)
               \/ Finalize(e) \/ SaveExecution(e) \/ ReleaseAll(e)
      BY <2>1, SMTT(60) DEF PreRun, LoadAccounts, Prepared, NoMoreBatches, Finalize,
         SaveExecution, SaveFails, TypeOK
    <2>2. CASE \E b \in Account : Prepare(e, b)
      BY <2>2, SMTT(60) DEF Prepare, FilterOut, Acquire, Reject, PrepareFails, CreateRecord,
         RecordThenFail, SaveFails, TypeOK
    <2>3. CASE \E b \in Account : Settle(e, b) \/ FinalizeClear(e, b)
      BY <2>3, SMTT(60) DEF Settle, HostSuccess, HostError, HostIncomplete, Free,
         FinalizeClear, SaveFails, TypeOK
    <2>4. CASE \/ \E B \in SUBSET Account : StartBatch(e, B)
               \/ \E b \in Account, changed \in BOOLEAN, report \in Report :
                     RunHost(e, b, changed, report)
      BY <2>4, SMTT(60) DEF StartBatch, RunHost, SaveFails, TypeOK
    <2>5. CASE \E how \in Terminal : \/ Abort(e, how) \/ Stop(e, how) \/ EndBatch(e, how)
                                    \/ \E next \in PC : RunnerEnds(e, next, how)
      BY <2>5, SMTT(60) DEF Abort, Stop, EndBatch, RunnerEnds, SaveFails, TypeOK
    <2> QED
      BY <2>1, <2>2, <2>3, <2>4, <2>5 DEF Work
  <1>2. Alive(e)
    BY WorkerAlone
  <1>3. ReleaseAll(e) \/ UNCHANGED pc \/ \E next \in PC \ {"idle", "gone"} : pc' = [pc EXCEPT ![e] = next]
    <2>1. CASE \E how \in Terminal : EndBatch(e, how)
      <3>1. pc' = [pc EXCEPT ![e] = "post"] \/ pc' = [pc EXCEPT ![e] = "loop"]
        BY <2>1 DEF EndBatch
      <3> QED
        BY <3>1 DEF PC
    <2> QED
      BY <2>1, ZenonT(60) DEF Work, PreRun, LoadAccounts, Prepared, NoMoreBatches, Finalize, SaveExecution,
       Prepare, FilterOut, Acquire, Reject, PrepareFails, CreateRecord,
       RecordThenFail, Settle, HostSuccess, HostError, HostIncomplete, Free,
       FinalizeClear, StartBatch, RunHost, Abort, Stop, RunnerEnds, PC
  <1>4. ReleaseAll(e) \/ Alive(e)'
    <2>1. CASE UNCHANGED pc
      BY <1>2, <2>1 DEF Alive
    <2>2. ASSUME NEW next \in PC \ {"idle", "gone"}, pc' = [pc EXCEPT ![e] = next]
          PROVE  Alive(e)'
      BY <2>2 DEF Alive, TypeOK
    <2> QED
      BY <1>3, <2>1, <2>2
  <1> QED
    BY <1>1, <1>4

\* The worker that still has an account in its hands settles it, passes it on to the end, or
\* fails; when it dies the recovery has it.
LEMMA HandsOn ==
    ASSUME TypeOK, Registry, NEW e \in Execution, NEW a \in Account, Work(e),
           Unsaved(e), pc[e] \in Working, step[e][a] \in Unresolved \cup {"cleared"},
           rec'[exe[e].src][a].status = "pending"
    PROVE  \/ pc'[e] \in Working /\ step'[e][a] \in Unresolved \cup {"cleared"}
           \/ SaveFaults /\ Alive(e)' /\ outcome'[e] # "success"
  <1> USE DEF rows, redis
  <1> DEFINE Goal == \/ pc'[e] \in Working /\ step'[e][a] \in Unresolved \cup {"cleared"}
                     \/ SaveFaults /\ Alive(e)' /\ outcome'[e] # "success"
  <1>0. /\ exe[e].src \in Execution
        /\ Alive(e)
    BY WorkerAlone DEF TypeOK, ExeRow
  <1>1. ASSUME NEW b \in Account, Prepare(e, b)
        PROVE  Goal
    <2>1. step[e][b] \in {"todo", "locked"} /\ UNCHANGED pc /\ \E next : Goto(e, b, next)
      BY <1>1 DEF Prepare, FilterOut, Acquire, Reject, PrepareFails, CreateRecord, RecordThenFail
    <2>2. step'[e][a] = step[e][a]
      BY <2>1 DEF Goto, TypeOK, Unresolved
    <2> QED
      BY <2>1, <2>2
  <1>2. ASSUME NEW b \in Account, Settle(e, b)
        PROVE  Goal
    <2>1. UNCHANGED pc /\ \E next : Goto(e, b, next)
      BY <1>2 DEF Settle, HostSuccess, HostError, HostIncomplete, Free
    <2>2. CASE b # a
      <3>1. step'[e][a] = step[e][a]
        BY <2>1, <2>2 DEF Goto, TypeOK
      <3> QED
        BY <2>1, <3>1
    <2>3. CASE b = a
      <3>1. ~Free(e, b)
        BY <2>3 DEF Free, Unresolved
      <3>2. ~ \E status \in {"success", "failed", "unverified"} : Mark(e, b, status)
        BY <1>0, <2>3 DEF Mark, TypeOK, RecRow
      <3>3. SaveFaults /\ outcome' = [outcome EXCEPT ![e] = "error"]
        BY <1>2, <3>1, <3>2 DEF Settle, HostSuccess, HostError, HostIncomplete, SaveFails
      <3> QED
        BY <1>0, <2>1, <3>3 DEF Alive, TypeOK
    <2> QED
      BY <2>2, <2>3
  <1>3. ASSUME NEW b \in Account, FinalizeClear(e, b)
        PROVE  Goal
    BY <1>3, SMTT(60) DEF FinalizeClear, Goto, TypeOK
  <1>4. CASE Finalize(e)
    <2>1. step[e][a] = "cleared"
      BY <1>4 DEF Finalize
    <2>2. CASE rec' = [rec EXCEPT ![exe[e].src] = [b \in Account |->
                         IF b \in {c \in Account : step[e][c] = "cleared"} /\ @[b].status = "pending"
                         THEN [@[b] EXCEPT !.status = "unverified"] ELSE @[b]]]
      <3>1. rec'[exe[e].src][a] = IF rec[exe[e].src][a].status = "pending"
                                  THEN [rec[exe[e].src][a] EXCEPT !.status = "unverified"]
                                  ELSE rec[exe[e].src][a]
        BY <1>0, <2>1, <2>2 DEF TypeOK
      <3>2. rec[exe[e].src][a] \in RecRow
        BY <1>0 DEF TypeOK
      <3> QED
        BY <3>1, <3>2 DEF RecRow
    <2>3. CASE /\ SaveFaults
               /\ outcome' = [outcome EXCEPT ![e] = IF @ = "canceled" THEN @ ELSE "error"]
      <3>1. outcome'[e] # "success"
        BY <2>3 DEF TypeOK
      <3>2. Alive(e)'
        BY <1>4 DEF Finalize, Alive, TypeOK
      <3> QED
        BY <2>3, <3>1, <3>2
    <2> QED
      BY <1>4, <2>2, <2>3 DEF Finalize
  <1>5. CASE \/ PreRun(e) \/ LoadAccounts(e) \/ SaveExecution(e) \/ ReleaseAll(e)
    BY <1>5 DEF PreRun, LoadAccounts, SaveExecution, ReleaseAll, Working
  <1>6. CASE Prepared(e) \/ NoMoreBatches(e) \/ \E how \in Terminal :
                \/ Abort(e, how) \/ Stop(e, how) \/ \E next \in PC : RunnerEnds(e, next, how)
    BY <1>6 DEF Prepared, NoMoreBatches, Abort, Stop, RunnerEnds, Working, TypeOK
  <1>7. ASSUME NEW how \in Terminal, EndBatch(e, how)
        PROVE  Goal
    <2>1. pc'[e] \in {"post", "loop"}
      BY <1>7 DEF EndBatch, TypeOK
    <2>2. step'[e][a] = IF step[e][a] \in {"batch", "ran"} THEN "left" ELSE step[e][a]
      BY <1>7 DEF EndBatch, TypeOK
    <2> QED
      BY <2>1, <2>2 DEF Working, Unresolved
  <1>8. ASSUME NEW B \in SUBSET Account, StartBatch(e, B)
        PROVE  Goal
    <2>1. pc'[e] = "runner" /\ step'[e][a] = IF a \in B THEN "batch" ELSE step[e][a]
      BY <1>8 DEF StartBatch, TypeOK
    <2> QED
      BY <2>1 DEF Working, Unresolved
  <1>9. ASSUME NEW b \in Account, NEW changed \in BOOLEAN, NEW report \in Report,
               RunHost(e, b, changed, report)
        PROVE  Goal
    <2>1. UNCHANGED pc /\ step'[e][a] = IF a = b THEN "ran" ELSE step[e][a]
      BY <1>9 DEF RunHost, Goto, TypeOK
    <2> QED
      BY <2>1 DEF Unresolved
  <1> QED
    BY <1>1, <1>2, <1>3, <1>4, <1>5, <1>6, <1>7, <1>8, <1>9 DEF Work

\* A record becomes pending in the hands of the worker that writes it.
LEMMA NewPending ==
    ASSUME TypeOK, Registry, NEW e \in Execution, Work(e), NEW i \in Execution, NEW a \in Account,
           rec[i][a].status # "pending", rec'[i][a].status = "pending"
    PROVE  /\ exe[e].src = i /\ a \in exe[e].targets
           /\ pc'[e] \in Working /\ step'[e][a] \in Unresolved
  <1>0. exe[e].src \in Execution
    BY DEF TypeOK, ExeRow
  <1>1. ASSUME NEW b \in Account, NEW status \in {"success", "failed", "unverified"}, Mark(e, b, status)
        PROVE  FALSE
    BY <1>0, <1>1 DEF Mark, TypeOK, RecRow
  <1>2. ~Finalize(e)
    <2>1. ASSUME rec' = [rec EXCEPT ![exe[e].src] = [b \in Account |->
                         IF b \in {c \in Account : step[e][c] = "cleared"} /\ @[b].status = "pending"
                         THEN [@[b] EXCEPT !.status = "unverified"] ELSE @[b]]]
          PROVE  FALSE
      <3>1. \/ rec'[i][a] = rec[i][a]
            \/ rec'[i][a] = [rec[i][a] EXCEPT !.status = "unverified"]
        BY <1>0, <2>1 DEF TypeOK
      <3>2. rec[i][a] \in RecRow
        BY SMTT(60) DEF TypeOK
      <3> QED
        BY <3>1, <3>2 DEF RecRow
    <2> QED
      BY <2>1 DEF Finalize
  <1>3. PICK b \in Account, s \in Secret : CreateRecord(e, b, s) \/ RecordThenFail(e, b, s)
    BY <1>1, <1>2 DEF Work, PreRun, LoadAccounts, Prepared, NoMoreBatches, SaveExecution, ReleaseAll,
       Prepare, FilterOut, Acquire, Reject, PrepareFails,
       Settle, HostSuccess, HostError, HostIncomplete, SaveFails, Free,
       FinalizeClear, StartBatch, RunHost, Abort, Stop, EndBatch, RunnerEnds, rows
  <1>4. RecordWith(e, b, s) /\ pc[e] = "prepare" /\ step[e][b] = "locked" /\ UNCHANGED pc
        /\ \E next \in {"ready", "broken"} : Goto(e, b, next)
    BY <1>3 DEF CreateRecord, RecordThenFail
  <1>5. i = exe[e].src /\ a = b
    BY <1>0, <1>4 DEF RecordWith, TypeOK
  <1>6. a \in exe[e].targets
    BY <1>4, <1>5 DEF Registry, Workers
  <1>7. step'[e][a] \in {"ready", "broken"}
    BY <1>4, <1>5 DEF Goto, TypeOK
  <1> QED
    BY <1>4, <1>5, <1>6, <1>7 DEF Working, Unresolved

LEMMA StillResolved ==
    ASSUME TypeOK, Registry, ~Overrun, NEW e \in Execution, Work(e) \/ Crash(e), Unsaved(e),
           exe[e].status \in Terminal => exe'[e].status = exe[e].status,
           NEW i \in Execution, NEW a \in Account, Resolves(e, i, a), rec'[i][a].status = "pending"
    PROVE  Resolves(e, i, a)'
  <1>1. /\ exe'[e].src = i /\ a \in exe'[e].targets
        /\ exe[e].src = i /\ a \in exe[e].targets /\ Alive(e)
    BY WorkKeepsRow, WorkerAlone DEF Resolves
  <1>2. exe[e].status \in Open => exe'[e].status \in Open \/ SaveExecution(e)
    BY WorkKeepsRow
  <1>3. CASE SaveFaults /\ exe[e].status \in {"failed", "canceled", "error"}
    BY <1>1, <1>3 DEF Resolves, Terminal
  <1>4. CASE exe[e].status \in Open /\ (ReleaseAll(e) \/ Crash(e))
    BY <1>1, <1>4 DEF Resolves, ReleaseAll, Crash, Forget, Gone, TypeOK, rows
  <1>5. CASE /\ exe[e].status \in Open /\ pc[e] \in Working
             /\ step[e][a] \in Unresolved \cup {"cleared"} /\ Work(e)
    <2>1. ~SaveExecution(e)
      BY <1>5 DEF SaveExecution, Working
    <2> QED
      BY <1>1, <1>2, <1>5, <2>1, HandsOn DEF Resolves
  <1>6. CASE SaveFaults /\ exe[e].status \in Open /\ outcome[e] # "success" /\ Work(e) /\ ~ReleaseAll(e)
    <2>1. Alive(e)' /\ outcome'[e] # "success"
      BY <1>6, FailureStays
    <2>2. CASE SaveExecution(e)
      <3>1. exe'[e].status \in {exe[e].status, outcome'[e]} /\ outcome'[e] \in Terminal
        BY <2>2 DEF SaveExecution, TypeOK, ExeRow, Terminal
      <3> QED
        BY <1>1, <1>6, <2>1, <3>1 DEF Resolves, Terminal
    <2> QED
      BY <1>1, <1>2, <1>6, <2>1, <2>2 DEF Resolves
  <1>7. ~Gone(e)
    BY <1>1 DEF Alive, Gone
  <1> QED
    BY <1>3, <1>4, <1>5, <1>6, <1>7 DEF Resolves

LEMMA OwnedNext ==
    ASSUME TypeOK, Registry, StatusInv, Owned, ~Overrun, [Next]_vars
    PROVE  Owned'
  <1> SUFFICES ASSUME NEW i \in Execution, NEW a \in Account, rec'[i][a].status = "pending"
               PROVE  \E e \in Execution : Resolves(e, i, a)'
    BY DEF Owned
  <1> USE DEF rows, redis, memory
  <1>0. rec[i][a].status = "pending" => \E e \in Execution : Resolves(e, i, a)
    BY DEF Owned
  <1>1. ASSUME NEW e \in Execution, UNCHANGED <<exe[e], pc[e], step[e], outcome[e]>>
        PROVE  Resolves(e, i, a) => Resolves(e, i, a)'
    BY <1>1 DEF Resolves, Gone, Alive
  <1>2. ASSUME NEW w \in Execution, Work(w) \/ Crash(w)
        PROVE  \E e \in Execution : Resolves(e, i, a)'
    <2>1. Unsaved(w) /\ Unsaved(w)' /\ (exe[w].status \in Terminal => exe'[w].status = exe[w].status)
      BY StatusNext, WorkUnsaved DEF StatusInv, Unsaved
    <2>2. CASE rec[i][a].status = "pending"
      <3>1. PICK e \in Execution : Resolves(e, i, a)
        BY <1>0, <2>2
      <3>2. CASE e = w
        BY <1>2, <2>1, <3>1, <3>2, StillResolved
      <3>3. CASE e # w
        BY <1>1, <1>2, <3>1, <3>3, WorkerAlone, RowAlone
      <3> QED
        BY <3>2, <3>3
    <2>3. CASE rec[i][a].status # "pending"
      <3>1. Work(w)
        BY <1>2, <2>3 DEF Crash
      <3>2. /\ exe[w].src = i /\ a \in exe[w].targets
            /\ pc'[w] \in Working /\ step'[w][a] \in Unresolved
        BY <2>3, <3>1, NewPending
      <3>3. exe'[w].src = i /\ a \in exe'[w].targets
        BY <3>1, <3>2, WorkKeepsRow
      <3>4. exe'[w].status \in Open
        BY <2>1, <3>2 DEF Unsaved, Alive, Working
      <3> QED
        BY <3>2, <3>3, <3>4 DEF Resolves
    <2> QED
      BY <2>2, <2>3
  <1>3. ASSUME NEW w \in Execution, NEW k \in Kinds, NEW src \in Execution,
               NEW T \in SUBSET Account, Create(w, k, src, T)
        PROVE  \E e \in Execution : Resolves(e, i, a)'
    <2>1. PICK e \in Execution : Resolves(e, i, a)
      BY <1>0, <1>3 DEF Create
    <2>2. e # w
      BY <1>3, <2>1 DEF Create, Resolves, Open
    <2> QED
      BY <1>1, <1>3, <2>1, <2>2 DEF Create, TypeOK
  <1>4. ASSUME NEW w \in Execution, NEW how \in {"canceled", "error"}, Recover(w, how)
        PROVE  \E e \in Execution : Resolves(e, i, a)'
    <2>1. rec[i][a].status = "pending" /\ ~LeftPending(w, i, a)
      <3>1. rec'[i][a] = IF LeftPending(w, i, a) THEN Closed(rec[i][a]) ELSE rec[i][a]
        BY <1>4 DEF Recover
      <3>2. rec[i][a] \in RecRow
        BY DEF TypeOK
      <3>3. LeftPending(w, i, a) => rec'[i][a].status = "unverified"
        BY <3>1, <3>2 DEF Closed, RecRow
      <3> QED
        BY <3>1, <3>3
    <2>2. PICK e \in Execution : Resolves(e, i, a)
      BY <1>0, <2>1
    <2>3. e # w
      BY <2>1, <2>2 DEF LeftPending, Resolves
    <2> QED
      BY <1>1, <1>4, <2>2, <2>3 DEF Recover, TypeOK
  <1>5. CASE UNCHANGED <<exe, pc, step, outcome>> /\ rec[i][a].status = "pending"
    BY <1>0, <1>1, <1>5
  <1>6. ASSUME NEW e \in Execution, (\E b \in Account : RecoverClear(e, b)) \/ RecoverStops(e)
        PROVE  UNCHANGED <<exe, pc, step, outcome, rec>>
    BY <1>6 DEF RecoverClear, RecoverStops
  <1>7. ASSUME NEW b \in Account, LockExpires(b) \/ TaskExpires(b)
        PROVE  UNCHANGED <<exe, pc, step, outcome, rec>>
    BY <1>7 DEF LockExpires, TaskExpires
  <1>8. ASSUME NEW j \in Execution, NEW b \in Account, Request(j, b)
        PROVE  UNCHANGED <<exe, pc, step, outcome>> /\ rec[i][a].status = "pending"
    <2>1. /\ UNCHANGED <<exe, pc, step, outcome>>
          /\ \/ \E v : rec' = [rec EXCEPT ![j][b].verified = v]
             \/ rec' = [rec EXCEPT ![j][b].status = "success"]
      BY <1>8 DEF Request, VerifyStart, VerifyEnd, Restore
    <2>2. rec \in [Execution -> [Account -> RecRow]] /\ rec[i][a] \in RecRow
      BY DEF TypeOK
    <2>3. ASSUME NEW v, rec' = [rec EXCEPT ![j][b].verified = v]
          PROVE  rec[i][a].status = "pending"
      <3>1. rec'[i][a] = IF i = j /\ a = b THEN [rec[i][a] EXCEPT !.verified = v] ELSE rec[i][a]
        BY <2>2, <2>3
      <3>2. [rec[i][a] EXCEPT !.verified = v].status = rec[i][a].status
        BY <2>2 DEF RecRow
      <3> QED
        BY <3>1, <3>2
    <2>4. ASSUME rec' = [rec EXCEPT ![j][b].status = "success"]
          PROVE  rec[i][a].status = "pending"
      <3>1. rec'[i][a] = IF i = j /\ a = b THEN [rec[i][a] EXCEPT !.status = "success"] ELSE rec[i][a]
        BY <2>2, <2>4
      <3>2. [rec[i][a] EXCEPT !.status = "success"].status = "success"
        BY <2>2 DEF RecRow
      <3> QED
        BY <3>1, <3>2
    <2> QED
      BY <2>1, <2>3, <2>4
  <1> QED
    BY <1>2, <1>3, <1>4, <1>5, <1>6, <1>7, <1>8 DEF Next, vars, Recovery

\* While no worker outlasts its lock, no record is left pending behind the executions that
\* have to resolve it, whoever dies, retries, verifies or recovers; where saves fail, such an
\* execution does not end as a success (finalize_pending_records and the recovery).
THEOREM PendingHasOwner ==
    ASSUME ~Overrun
    PROVE  Spec => []PendingIsOwned
  <1>1. Init => StatusInv /\ Owned
    BY DEF Init, StatusInv, Alive, Owned, NoRecord
  <1>2. TypeOK /\ Registry /\ StatusInv /\ Owned /\ [Next]_vars => StatusInv' /\ Owned'
    BY StatusNext, OwnedNext
  <1>3. Owned => PendingIsOwned
    BY DEF Owned, Resolves, PendingIsOwned
  <1> QED
    BY <1>1, <1>2, <1>3, Invariance, PTL DEF Spec, IInv

-----------------------------------------------------------------------------
(* What a success means.                                                   *)

\* While a host that reported the change waits to be written back, the remote system has
\* the candidate: whoever could replace either holds the lock of the account.
Delivered(e, a) ==
    exe[e].kind # "push" /\ step[e][a] = "ran" /\ cb[e][a] \in {"ok", "sync"}
    => remote[a] = Rec(e, a).new

DeliveredInv == ~Overrun => \A e \in Execution, a \in Account : Delivered(e, a)

\* A worker touches no record and no host of an account it has not in its hands.
LEMMA WorkKeepsCandidate ==
    ASSUME TypeOK, Registry, NEW e \in Execution, NEW a \in Account, Work(e) \/ Crash(e)
    PROVE  /\ step[e][a] # "locked" => \A i \in Execution :
                 rec[i][a].status # "none" => rec'[i][a].new = rec[i][a].new
           /\ \/ remote'[a] = remote[a]
              \/ step[e][a] = "batch"
  <1> USE DEF rows, redis
  <1>0. exe[e].src \in Execution
    BY DEF TypeOK, ExeRow
  <1>1. ASSUME NEW b \in Account, Prepare(e, b), step[e][a] # "locked"
        PROVE  \A i \in Execution : rec'[i][a] = rec[i][a]
    <2>1. UNCHANGED rec \/ (a # b /\ \E s \in Secret : RecordWith(e, b, s))
      BY <1>1 DEF Prepare, FilterOut, Acquire, Reject, PrepareFails, CreateRecord, RecordThenFail
    <2>2. CASE a # b /\ \E x : rec' = [rec EXCEPT ![exe[e].src][b] = x]
      BY <1>0, <2>2 DEF TypeOK
    <2>3. ASSUME NEW s \in Secret, RecordWith(e, b, s)
          PROVE  \E x : rec' = [rec EXCEPT ![exe[e].src][b] = x]
      <3> DEFINE old == rec[exe[e].src][b]
                 x == CASE exe[e].kind = "retry" -> [old EXCEPT !.status = "pending"]
                        [] exe[e].kind = "push" -> [NoRecord EXCEPT !.status = "pending"]
                        [] OTHER -> [status |-> "pending", old |-> loaded[e][b].secret,
                                     new |-> s, version |-> loaded[e][b].version,
                                     verified |-> "no"]
      <3>1. rec' = [rec EXCEPT ![exe[e].src][b] = x]
        BY <1>0, <2>3 DEF RecordWith, TypeOK
      <3> QED
        BY <3>1
    <2> QED
      BY <2>1, <2>2, <2>3
  <1>2. \/ RecKept
        \/ UNCHANGED rec
        \/ \E b \in Account : Prepare(e, b)
    BY SettleKept, FinalizeKept DEF Work, Crash, PreRun, LoadAccounts, Prepared, NoMoreBatches,
       SaveExecution, ReleaseAll, StartBatch, RunHost, Abort, Stop, EndBatch, RunnerEnds
  <1>3. remote'[a] = remote[a] \/ step[e][a] = "batch"
    BY DEF Work, Crash, PreRun, LoadAccounts, Prepared, NoMoreBatches, Finalize,
         SaveExecution, ReleaseAll, Prepare, FilterOut, Acquire, Reject, PrepareFails, CreateRecord,
         RecordThenFail, Settle, HostSuccess, HostError, HostIncomplete, Free,
         FinalizeClear, StartBatch, RunHost, Abort, Stop, EndBatch, RunnerEnds, TypeOK
  <1> QED
    BY <1>1, <1>2, <1>3 DEF RecKept

\* An account is "ran" because its host just reported, or it was before and nothing moved.
LEMMA WorkDelivers ==
    ASSUME TypeOK, Registry, NEW e \in Execution, NEW a \in Account, Work(e) \/ Crash(e),
           Delivered(e, a)
    PROVE  Delivered(e, a)'
  <1> USE DEF rows, redis
  <1>0. /\ exe[e].src \in Execution
        /\ exe'[e].src = exe[e].src /\ exe'[e].kind = exe[e].kind
    <2>1. UNCHANGED exe \/ \E x : exe' = [exe EXCEPT ![e].status = x]
      <3>1. CASE \/ PreRun(e) \/ LoadAccounts(e) \/ Prepared(e) \/ NoMoreBatches(e)
                 \/ Finalize(e) \/ SaveExecution(e) \/ ReleaseAll(e) \/ Crash(e)
        <4>1. CASE PreRun(e)
          BY <4>1 DEF PreRun
        <4>2. CASE SaveExecution(e)
          <5>1. UNCHANGED exe \/ exe' = [exe EXCEPT ![e].status = outcome'[e]]
            BY <4>2, SMTT(60) DEF SaveExecution, TypeOK
          <5> QED
            BY <5>1
        <4>3. UNCHANGED exe \/ PreRun(e) \/ SaveExecution(e)
          BY <3>1, SMTT(60) DEF LoadAccounts, Prepared, NoMoreBatches, Finalize, ReleaseAll, Crash
        <4> QED
          BY <4>1, <4>2, <4>3
      <3>2. CASE \E b \in Account : Prepare(e, b)
        BY <3>2, SMTT(60) DEF Prepare, FilterOut, Acquire, Reject, PrepareFails,
           CreateRecord, RecordThenFail
      <3>3. CASE \E b \in Account : Settle(e, b) \/ FinalizeClear(e, b)
        BY <3>3, SMTT(60) DEF Settle, HostSuccess, HostError, HostIncomplete, Free,
           FinalizeClear
      <3>4. CASE \/ \E B \in SUBSET Account : StartBatch(e, B)
                 \/ \E b \in Account, changed \in BOOLEAN, report \in Report :
                       RunHost(e, b, changed, report)
        BY <3>4, SMTT(60) DEF StartBatch, RunHost
      <3>5. CASE \E how \in Terminal : \/ Abort(e, how) \/ Stop(e, how) \/ EndBatch(e, how)
                                      \/ \E next \in PC : RunnerEnds(e, next, how)
        BY <3>5, SMTT(60) DEF Abort, Stop, EndBatch, RunnerEnds
      <3> QED
        BY <3>1, <3>2, <3>3, <3>4, <3>5 DEF Work
    <2> QED
      BY <2>1, SMTT(60) DEF TypeOK, ExeRow
  <1>1. ASSUME NEW changed \in BOOLEAN, NEW report \in Report, RunHost(e, a, changed, report)
        PROVE  Delivered(e, a)'
    BY <1>0, <1>1 DEF RunHost, Sent, Rec, Delivered, TypeOK
  <1>2. step'[e][a] # "ran" \/ (step[e][a] = "ran" /\ cb'[e][a] = cb[e][a] /\ remote'[a] = remote[a])
          \/ \E changed \in BOOLEAN, report \in Report : RunHost(e, a, changed, report)
    <2>1. ASSUME NEW b \in Account, NEW next \in Step \ {"ran"}, Goto(e, b, next),
                 UNCHANGED remote, cb' \in {cb, [cb EXCEPT ![e][b] = "none"]}
          PROVE  step'[e][a] # "ran" \/ (step[e][a] = "ran" /\ cb'[e][a] = cb[e][a] /\ remote'[a] = remote[a])
      BY <2>1 DEF Goto, TypeOK
    <2>2. ASSUME NEW b \in Account, Prepare(e, b) \/ Settle(e, b) \/ FinalizeClear(e, b)
          PROVE  \E next \in Step \ {"ran"} :
                     Goto(e, b, next) /\ UNCHANGED remote /\ cb' \in {cb, [cb EXCEPT ![e][b] = "none"]}
      BY <2>2 DEF Prepare, FilterOut, Acquire, Reject, PrepareFails, CreateRecord, RecordThenFail,
         Settle, HostSuccess, HostError, HostIncomplete, Free, FinalizeClear, Step
    <2>3. ASSUME NEW b \in Account, NEW changed \in BOOLEAN, NEW report \in Report,
                 RunHost(e, b, changed, report), b # a
          PROVE  step'[e][a] = step[e][a] /\ cb'[e][a] = cb[e][a] /\ remote'[a] = remote[a]
      BY <2>3 DEF RunHost, Goto, TypeOK
    <2>4. CASE LoadAccounts(e) \/ Crash(e) \/ ReleaseAll(e)
      BY <2>4 DEF LoadAccounts, Crash, ReleaseAll, Forget, TypeOK
    <2>5. CASE \/ \E B \in SUBSET Account : StartBatch(e, B)
               \/ \E how \in Terminal : EndBatch(e, how)
      BY <2>5 DEF StartBatch, EndBatch, TypeOK
    <2>6. CASE UNCHANGED <<step, cb, remote>>
      BY <2>6
    <2> QED
      BY <2>1, <2>2, <2>3, <2>4, <2>5, <2>6 DEF Work, PreRun, Prepared, NoMoreBatches, Finalize,
         SaveExecution, Abort, Stop, RunnerEnds
  <1>3. step[e][a] = "ran" => Rec(e, a).status # "none"
    BY DEF Registry, Workers, Unrecorded
  <1> QED
    BY <1>0, <1>1, <1>2, <1>3, WorkKeepsCandidate DEF Delivered, Rec

LEMMA DeliveredNext == TypeOK /\ Registry /\ LockInv /\ DeliveredInv /\ [Next]_vars => DeliveredInv'
  <1> SUFFICES ASSUME TypeOK, Registry, Held, ~Overrun, [Next]_vars,
                      NEW e \in Execution, NEW a \in Account, Delivered(e, a)
               PROVE  Delivered(e, a)'
    BY HeldIsLocked DEF DeliveredInv
  <1> USE DEF rows, redis, memory
  <1>0. /\ exe[e].src \in Execution
        /\ step[e][a] = "ran" => Rec(e, a).status # "none" /\ lock[a] = e
    <2>1. exe[e].src \in Execution
      BY DEF TypeOK, ExeRow
    <2>2. step[e][a] = "ran" => Rec(e, a).status # "none"
      BY DEF Registry, Workers, Unrecorded
    <2>3. step[e][a] = "ran" => lock[a] = e
      BY DEF Held, Holding
    <2> QED
      BY <2>1, <2>2, <2>3
  <1>1. CASE /\ exe'[e].src = exe[e].src /\ exe'[e].kind = exe[e].kind
             /\ step'[e] = step[e] /\ cb'[e] = cb[e]
             /\ step[e][a] = "ran" => /\ remote'[a] = remote[a]
                                      /\ rec'[exe[e].src][a].new = rec[exe[e].src][a].new
    BY <1>1 DEF Delivered, Rec
  <1>2. ASSUME NEW w \in Execution, Work(w) \/ Crash(w)
        PROVE  Delivered(e, a)'
    <2>1. CASE w = e
      BY <1>2, <2>1, WorkDelivers
    <2>2. CASE w # e
      <3>1. cb'[e] = cb[e]
        <4>1. \E x : cb' \in {cb, [cb EXCEPT ![w] = x]}
          <5>1. ASSUME NEW b \in Account, NEW r, cb' = [cb EXCEPT ![w][b] = r]
                PROVE  \E x : cb' \in {cb, [cb EXCEPT ![w] = x]}
            <6>1. cb' = [cb EXCEPT ![w] = [cb[w] EXCEPT ![b] = r]]
              BY <5>1
            <6> QED
              BY <6>1
          <5> QED
            <6>1. CASE \/ PreRun(w) \/ LoadAccounts(w) \/ Prepared(w) \/ NoMoreBatches(w)
                       \/ Finalize(w) \/ SaveExecution(w) \/ ReleaseAll(w) \/ Crash(w)
              <7>1. \/ UNCHANGED cb
                    \/ cb' = [cb EXCEPT ![w] = [b \in Account |-> "none"]]
                BY <6>1, SMTT(60) DEF PreRun, LoadAccounts, Prepared, NoMoreBatches,
                   Finalize, SaveExecution, ReleaseAll, Crash, Forget
              <7> QED
                BY <7>1
            <6>2. CASE \E b \in Account : Prepare(w, b)
              BY <6>2, <1>2, <5>1, SMTT(60) DEF Prepare, FilterOut, Acquire, Reject,
                 PrepareFails, CreateRecord, RecordThenFail
            <6>3. CASE \E b \in Account : Settle(w, b) \/ FinalizeClear(w, b)
              BY <6>3, <1>2, <5>1, SMTT(60) DEF Settle, HostSuccess, HostError,
                 HostIncomplete, Free, FinalizeClear
            <6>4. CASE \/ \E B \in SUBSET Account : StartBatch(w, B)
                       \/ \E b \in Account, changed \in BOOLEAN, report \in Report :
                             RunHost(w, b, changed, report)
              BY <6>4, <1>2, <5>1, SMTT(60) DEF StartBatch, RunHost
            <6>5. CASE \E how \in Terminal : \/ Abort(w, how) \/ Stop(w, how) \/ EndBatch(w, how)
                                            \/ \E next \in PC : RunnerEnds(w, next, how)
              BY <6>5, <1>2, <5>1, SMTT(60) DEF Abort, Stop, EndBatch, RunnerEnds
            <6> QED
              BY <1>2, <6>1, <6>2, <6>3, <6>4, <6>5 DEF Work
        <4> QED
          BY <2>2, <4>1, SMTT(60) DEF TypeOK
      <3>2. step[e][a] = "ran" => step[w][a] \notin {"locked", "batch"}
        BY <1>0, <2>2 DEF Held, Holding
      <3>3. exe'[e] = exe[e] /\ step'[e] = step[e]
        BY <1>2, <2>2, RowAlone, WorkerAlone
      <3>4. step[e][a] = "ran" => /\ remote'[a] = remote[a]
                                  /\ rec'[exe[e].src][a].new = rec[exe[e].src][a].new
        BY <1>0, <1>2, <3>2, WorkKeepsCandidate DEF Rec
      <3> QED
        BY <1>1, <3>1, <3>3, <3>4
    <2> QED
      BY <2>1, <2>2
  <1>3. ASSUME NEW i \in Execution, NEW k \in Kinds, NEW src \in Execution,
               NEW T \in SUBSET Account, Create(i, k, src, T)
        PROVE  Delivered(e, a)'
    <2>1. CASE i = e
      <3>1. step'[e][a] = "out"
        BY <1>3, <2>1 DEF Create, Registry, Executions, Workers, Blank
      <3> QED
        BY <3>1 DEF Delivered
    <2>2. CASE i # e
      BY <1>1, <1>3, <2>2 DEF Create, TypeOK
    <2> QED
      BY <2>1, <2>2
  <1>4. ASSUME NEW i \in Execution, Recovery(i) \/ RecoverStops(i)
        PROVE  Delivered(e, a)'
    <2>1. /\ UNCHANGED <<step, cb, remote>>
          /\ UNCHANGED exe \/ \E x : exe' = [exe EXCEPT ![i].status = x]
      BY <1>4 DEF Recovery, Recover, RecoverClear, RecoverStops
    <2>3. exe'[e].src = exe[e].src /\ exe'[e].kind = exe[e].kind
      <3>1. ASSUME NEW x, exe' = [exe EXCEPT ![i].status = x]
            PROVE  exe'[e].src = exe[e].src /\ exe'[e].kind = exe[e].kind
        <4>1. exe \in [Execution -> ExeRow]
          BY DEF TypeOK
        <4>2. exe'[e] = exe[e] \/ exe'[e] = [exe[e] EXCEPT !.status = x]
          BY <3>1, <4>1
        <4> QED
          BY <4>1, <4>2 DEF ExeRow
      <3> QED
        BY <2>1, <3>1
    <2>2. rec'[exe[e].src][a].new = rec[exe[e].src][a].new
      BY <1>0, <1>4, RecoverKept DEF Recovery, RecoverClear, RecoverStops, RecKept
    <2> QED
      BY <1>1, <2>1, <2>2, <2>3
  <1>5. ASSUME NEW b \in Account, LockExpires(b) \/ TaskExpires(b)
        PROVE  Delivered(e, a)'
    BY <1>1, <1>5 DEF LockExpires, TaskExpires
  <1>6. ASSUME NEW i \in Execution, NEW b \in Account, Request(i, b)
        PROVE  Delivered(e, a)'
    <2>1. UNCHANGED <<exe, step, cb, remote>>
      BY <1>6 DEF Request, VerifyStart, VerifyEnd, Restore
    <2> QED
      BY <1>0, <1>1, <1>6, <2>1, RequestKept DEF RecKept
  <1>7. CASE UNCHANGED vars
    BY <1>1, <1>7 DEF vars
  <1> QED
    BY <1>2, <1>3, <1>4, <1>5, <1>6, <1>7 DEF Next

\* A worker counts an account as changed.
LEMMA SuccessWritten ==
    ASSUME TypeOK, Registry, NEW e \in Execution, NEW a \in Account, Work(e) \/ Crash(e),
           exe[e].kind # "push", tally[e][a] # "success", tally'[e][a] = "success"
    PROVE  /\ step[e][a] = "ran" /\ cb[e][a] = "ok"
           /\ acct'[a].secret = Rec(e, a).new /\ UNCHANGED remote
  <1> USE DEF rows, redis
  <1>1. ASSUME NEW b \in Account, NEW how \in Tally \ {"success"}, Count(e, b, how)
        PROVE  FALSE
    BY <1>1, SMTT(60) DEF Count, TypeOK
  <1>2. \E b \in Account : HostSuccess(e, b)
    <2>1. CASE \/ PreRun(e) \/ LoadAccounts(e) \/ Prepared(e) \/ NoMoreBatches(e)
               \/ Finalize(e) \/ SaveExecution(e) \/ ReleaseAll(e) \/ Crash(e)
      BY <2>1, <1>1, SMTT(60) DEF PreRun, LoadAccounts, Prepared, NoMoreBatches, Finalize,
         SaveExecution, ReleaseAll, Crash, Forget, Tally, TypeOK
    <2>2. CASE \E b \in Account : Prepare(e, b)
      BY <2>2, <1>1, SMTT(60) DEF Prepare, FilterOut, Acquire, Reject, PrepareFails,
         CreateRecord, RecordThenFail, Tally, TypeOK
    <2>3. CASE \E b \in Account : Settle(e, b) \/ FinalizeClear(e, b)
      BY <2>3, <1>1, SMTT(60) DEF Settle, HostError, HostIncomplete, Free, FinalizeClear,
         Tally, TypeOK
    <2>4. CASE \/ \E B \in SUBSET Account : StartBatch(e, B)
               \/ \E b \in Account, changed \in BOOLEAN, report \in Report :
                     RunHost(e, b, changed, report)
      BY <2>4, <1>1, SMTT(60) DEF StartBatch, RunHost, Tally, TypeOK
    <2>5. CASE \E how \in Terminal : \/ Abort(e, how) \/ Stop(e, how) \/ EndBatch(e, how)
                                    \/ \E next \in PC : RunnerEnds(e, next, how)
      BY <2>5, <1>1, SMTT(60) DEF Abort, Stop, EndBatch, RunnerEnds, Tally, TypeOK
    <2> QED
      BY <2>1, <2>2, <2>3, <2>4, <2>5 DEF Work
  <1>3. PICK b \in Account : HostSuccess(e, b)
    BY <1>2
  <1>4. PICK how \in Tally : Count(e, b, how)
    BY <1>3 DEF HostSuccess, Tally
  <1>5. a = b /\ how = "success"
    BY <1>4 DEF Count, TypeOK
  <1>6. /\ step[e][a] = "ran" /\ cb[e][a] \in {"ok", "sync", "unknown"} /\ UNCHANGED remote
        /\ cb[e][a] = "ok"
        /\ acct' = [acct EXCEPT ![a] = Saved(a, Rec(e, a).new, Rec(e, a).new)]
    BY <1>1, <1>3, <1>5 DEF HostSuccess, Tally
  <1>7. acct'[a].secret = Rec(e, a).new
    BY <1>6 DEF TypeOK, Saved
  <1> QED
    BY <1>6, <1>7

\* What on_host_success reports is true as long as no worker outlasts its lock: when an
\* account is counted as changed, the candidate of its record is both on the account row
\* and accepted by the remote system.
THEOREM SuccessesAreSynced == Spec => SuccessIsSynced
  <1>1. Init => DeliveredInv
    BY DEF Init, DeliveredInv, Delivered
  <1>2. IInv /\ DeliveredInv /\ [Next]_vars
        => (~Overrun => \A e \in Execution, a \in Account :
               /\ exe[e].kind # "push"
               /\ tally[e][a] # "success" /\ tally'[e][a] = "success"
               => /\ acct'[a].secret = Rec(e, a).new
                  /\ remote'[a] = acct'[a].secret)
    <2> SUFFICES ASSUME TypeOK, Registry, DeliveredInv, [Next]_vars, ~Overrun,
                        NEW e \in Execution, NEW a \in Account, exe[e].kind # "push",
                        tally[e][a] # "success", tally'[e][a] = "success"
                 PROVE  acct'[a].secret = Rec(e, a).new /\ remote'[a] = acct'[a].secret
      BY SMTT(60) DEF IInv
    <2>1. UNCHANGED tally \/ \E w \in Execution : Work(w) \/ Crash(w)
      BY SMTT(90) DEF Next, vars, memory, Create, Recovery, Recover, RecoverClear, RecoverStops, LockExpires,
         TaskExpires, Request, VerifyStart, VerifyEnd, Restore
    <2>2. Work(e) \/ Crash(e)
      BY <2>1, RowAlone
    <2> QED
      BY <2>2, SuccessWritten DEF DeliveredInv, Delivered
  <1>3. IInv /\ DeliveredInv /\ [Next]_vars => DeliveredInv'
    BY DeliveredNext DEF IInv
  <1> QED
    BY <1>1, <1>2, <1>3, Invariance, PTL DEF Spec, SuccessIsSynced

-----------------------------------------------------------------------------
(* What a divergence leaves behind.                                        *)

Shown == {"failed", "unverified", "pending"}

\* A record that admits its candidate may not be the secret in use.
Shows(a) == \E i \in Execution : rec[i][a].new = remote[a] /\ rec[i][a].status \in Shown

\* The account took the candidate of a record whose old secret is s.
TakenFrom(a, s) == \E i \in Execution : rec[i][a].old = s /\ rec[i][a].new = acct[a].secret

Evident(a) == remote[a] = acct[a].secret \/ Shows(a) \/ TakenFrom(a, remote[a])

\* The account row held secret s at version v once: if it was left, a later
\* save that comes back to s counts the version up.
Former(row, s, v) == v <= row.version /\ (v = row.version /\ s # row.secret => s # row.hist)

FormerOf(a) ==
    /\ Former(acct[a], InitSecret, 0)
    /\ \A e \in Execution : Former(acct[a], loaded[e][a].secret, loaded[e][a].version)
    /\ \A i \in Execution : rec[i][a].status # "none" => Former(acct[a], rec[i][a].old, rec[i][a].version)

\* A candidate that a restore would copy is the remote secret, unless both
\* sides agree or another record shows that they do not.
VerifiedOf(a) ==
    \A i \in Execution : rec[i][a].verified = "success" /\ NotMoved(a, rec[i][a])
        => remote[a] \in {rec[i][a].new, acct[a].secret} \/ Shows(a)

NothingFits(a) == \A i \in Execution : rec[i][a].status # "none" => ~NotMoved(a, rec[i][a])

\* What a worker is about to send is in a record that shows it, or a restore
\* has meanwhile copied it.
BatchOf(e, a) ==
    step[e][a] \in {"ready", "batch"} =>
        \/ Rec(e, a).status \in Shown
        \/ acct[a].secret = Rec(e, a).new
        \/ TakenFrom(a, Rec(e, a).new) /\ NothingFits(a)

Plain  == "push" \notin Kinds /\ Forces \subseteq {FALSE} /\ ~Overrun
NoPush == \A e \in Execution : exe[e].kind # "push"

Divergence(a) ==
    FormerOf(a) /\ Evident(a) /\ VerifiedOf(a) /\ \A e \in Execution : BatchOf(e, a)

\* Once left, a pair of secret and version does not come back.
LEMMA SavedMoves ==
    ASSUME TypeOK, NEW a \in Account, NEW mem, NEW s, s = acct[a].secret \/ mem = s,
           NEW o, NEW n \in Nat, Former(acct[a], o, n)
    PROVE  /\ Former(Saved(a, mem, s), o, n)
           /\ n = Saved(a, mem, s).version /\ o = s => n = acct[a].version /\ o = acct[a].secret
  <1>1. /\ acct[a].version \in Nat
        /\ Saved(a, mem, s).secret = s /\ Saved(a, mem, s).hist = mem
        /\ Saved(a, mem, s).version = IF mem = acct[a].hist THEN acct[a].version ELSE acct[a].version + 1
    BY DEF TypeOK, AcctRow, Saved
  <1>2. CASE mem = acct[a].hist
    BY <1>1, <1>2 DEF Former
  <1>3. CASE mem # acct[a].hist
    <2>1. n # acct[a].version + 1 /\ n <= acct[a].version + 1
      BY <1>1 DEF Former
    <2> QED
      BY <1>1, <1>3, <2>1 DEF Former
  <1> QED
    BY <1>2, <1>3

\* What a step does to the account row: nothing, or a save that moves the secret and the
\* history together or not the secret.
Moves(a) ==
    \/ acct'[a] = acct[a]
    \/ \E mem, s : acct'[a] = Saved(a, mem, s) /\ (s = acct[a].secret \/ mem = s)

LEMMA PairMoves ==
    ASSUME TypeOK, NEW a \in Account, Moves(a), NEW o, NEW n \in Nat, Former(acct[a], o, n)
    PROVE  /\ Former(acct'[a], o, n)
           /\ n = acct'[a].version /\ o = acct'[a].secret => n = acct[a].version /\ o = acct[a].secret
  <1>1. CASE acct'[a] = acct[a]
    BY <1>1
  <1>2. ASSUME NEW mem, NEW s, acct'[a] = Saved(a, mem, s), s = acct[a].secret \/ mem = s
        PROVE  /\ Former(acct'[a], o, n)
               /\ n = acct'[a].version /\ o = acct'[a].secret => n = acct[a].version /\ o = acct[a].secret
    <2>1. Saved(a, mem, s).secret = s
      BY DEF Saved
    <2> QED
      BY <1>2, <2>1, SavedMoves
  <1> QED
    BY <1>1, <1>2 DEF Moves

\* A record stays what it is, but for its status and its verification ...
Same(i, a) ==
    /\ rec'[i][a].status = "none" <=> rec[i][a].status = "none"
    /\ rec'[i][a].old = rec[i][a].old /\ rec'[i][a].new = rec[i][a].new
    /\ rec'[i][a].version = rec[i][a].version

\* ... keeps showing ...
StillShown(i, a) ==
    /\ rec[i][a].status \in Shown => rec'[i][a].status \in Shown
    /\ rec'[i][a].verified = "success" => rec[i][a].verified = "success"

\* ... or is made by the worker that has just locked the account.
Made(i, a) ==
    /\ rec[i][a].status = "none" /\ rec'[i][a].status = "pending" /\ rec'[i][a].verified = "no"
    /\ \E e \in Execution : /\ step[e][a] = "locked"
                            /\ rec'[i][a].old = loaded[e][a].secret
                            /\ rec'[i][a].version = loaded[e][a].version

\* The memory of the workers: copies are taken from the row, an account is made ready with a
\* pending record, and what it was started with stays.
LoadedFrom(a) ==
    \A e \in Execution :
        \/ loaded'[e][a] = loaded[e][a]
        \/ loaded'[e][a].secret = InitSecret /\ loaded'[e][a].version = 0
        \/ /\ loaded'[e][a].secret = acct[a].secret /\ loaded'[e][a].version = acct[a].version
           /\ acct'[a] = acct[a]

Readied(e, a) ==
    step'[e][a] \in {"ready", "batch"} =>
        \/ step[e][a] \in {"ready", "batch"} /\ exe'[e].src = exe[e].src
        \/ rec'[exe'[e].src][a].status = "pending"

\* The kinds of step, as one account sees them.
Calm(a) ==
    /\ remote'[a] = remote[a]
    /\ Moves(a) /\ acct'[a].secret = acct[a].secret
    /\ \A i \in Execution : (Same(i, a) /\ StillShown(i, a)) \/ Made(i, a)
    /\ \A e \in Execution : Readied(e, a)

Ran(a) ==
    /\ acct'[a] = acct[a] /\ \A i \in Execution : rec'[i][a] = rec[i][a]
    /\ \E e \in Execution : step[e][a] = "batch" /\ remote'[a] = Rec(e, a).new
    /\ \A e \in Execution : step'[e][a] \in {"ready", "batch"} => step[e][a] \in {"ready", "batch"}
    /\ UNCHANGED exe

Wrote(a) ==
    /\ remote'[a] = remote[a] /\ acct'[a].secret = remote[a]
    /\ Moves(a)
    /\ \A i \in Execution : Same(i, a)
    /\ \A e \in Execution : step'[e][a] \notin {"ready", "batch"}

Probed(a) ==
    /\ UNCHANGED <<exe, acct, remote, step>>
    /\ \A i \in Execution : /\ Same(i, a) /\ rec'[i][a].status = rec[i][a].status
                            /\ rec'[i][a].verified = "success" =>
                                  rec[i][a].verified = "success" \/ rec[i][a].new = remote[a]

Restored(a) ==
    /\ UNCHANGED <<exe, remote, step>>
    /\ \E i \in Execution :
          /\ rec[i][a].new # None /\ rec[i][a].verified = "success"
          /\ Same(i, a) /\ rec'[i][a].verified = rec[i][a].verified
          /\ \A j \in Execution : j # i => rec'[j][a] = rec[j][a]
          /\ \/ acct[a].secret = rec[i][a].new /\ acct'[a] = acct[a]
             \/ /\ acct[a].secret # rec[i][a].new /\ NotMoved(a, rec[i][a])
                /\ acct'[a] = Saved(a, rec[i][a].new, rec[i][a].new)

-----------------------------------------------------------------------------
(* Each kind of step keeps the account's history and its evidence.         *)

LEMMA RowTypes ==
    ASSUME TypeOK, Registry, NEW i \in Execution, NEW a \in Account
    PROVE  /\ rec[i][a].version \in Nat /\ loaded[i][a].version \in Nat
           /\ acct[a].secret \in Secret /\ remote[a] \in Secret
           /\ rec[i][a].status = "none" => rec[i][a].new = None /\ rec[i][a].verified = "no"
           /\ rec[i][a].new # None \/ rec[i][a].verified = "success" => rec[i][a].status # "none"
  BY DEF TypeOK, RecRow, Copy, AcctRow, Registry, Records, NoRecord

LEMMA FormerMoves ==
    ASSUME TypeOK, Registry, NEW a \in Account, FormerOf(a), Moves(a), LoadedFrom(a),
           \A i \in Execution : Same(i, a) \/ Made(i, a)
    PROVE  FormerOf(a)'
  <1>1. Former(acct'[a], InitSecret, 0)
    BY PairMoves DEF FormerOf
  <1>2. \A e \in Execution : Former(acct'[a], loaded[e][a].secret, loaded[e][a].version)
    BY PairMoves, RowTypes DEF FormerOf
  <1>3. ASSUME NEW e \in Execution
        PROVE  Former(acct'[a], loaded'[e][a].secret, loaded'[e][a].version)
    <2>1. acct[a].version \in Nat
      BY DEF TypeOK, AcctRow
    <2>2. Former(acct[a], acct[a].secret, acct[a].version)
      BY <2>1 DEF Former
    <2> QED
      BY <1>1, <1>2, <2>2 DEF LoadedFrom
  <1>4. ASSUME NEW i \in Execution, rec'[i][a].status # "none"
        PROVE  Former(acct'[a], rec'[i][a].old, rec'[i][a].version)
    <2>1. CASE Same(i, a)
      <3>1. Former(acct'[a], rec[i][a].old, rec[i][a].version)
        BY <1>4, <2>1, PairMoves, RowTypes DEF FormerOf, Same
      <3> QED
        BY <2>1, <3>1 DEF Same
    <2>2. CASE Made(i, a)
      BY <1>2, <2>2 DEF Made
    <2> QED
      BY <2>1, <2>2
  <1> QED
    BY <1>1, <1>3, <1>4 DEF FormerOf

\* A record that did not fit the account row does not fit it later.
LEMMA FitsNoMore ==
    ASSUME TypeOK, Registry, NEW a \in Account, FormerOf(a), Moves(a), NEW i \in Execution,
           Same(i, a), rec[i][a].status # "none", NotMoved(a, rec[i][a])'
    PROVE  NotMoved(a, rec[i][a]) /\ acct'[a].secret = acct[a].secret
  <1>1. Former(acct[a], rec[i][a].old, rec[i][a].version) /\ rec[i][a].version \in Nat
    BY RowTypes DEF FormerOf
  <1>2. rec[i][a].version = acct'[a].version /\ rec[i][a].old = acct'[a].secret
    BY DEF NotMoved, Same
  <1> QED
    BY <1>1, <1>2, PairMoves DEF NotMoved

LEMMA CalmKeeps ==
    ASSUME TypeOK, Registry, Held, NEW a \in Account, Divergence(a), Calm(a)
    PROVE  Evident(a)' /\ VerifiedOf(a)' /\ \A e \in Execution : BatchOf(e, a)'
  <1>0. /\ remote'[a] = remote[a] /\ acct'[a].secret = acct[a].secret
        /\ acct[a].secret \in Secret /\ remote[a] \in Secret
    BY DEF Calm, TypeOK, AcctRow
  <1>1. \A i \in Execution : rec[i][a].status # "none" \/ rec[i][a].new # None => Same(i, a) /\ StillShown(i, a)
    BY RowTypes DEF Calm, Made
  <1>2. Shows(a) => Shows(a)'
    BY <1>0, <1>1 DEF Shows, Shown, Same, StillShown
  <1>3. \A s : TakenFrom(a, s) => \E i \in Execution : rec'[i][a].old = s /\ rec'[i][a].new = acct'[a].secret
    BY <1>0, <1>1, ConstantsAssumption DEF TakenFrom, Same
  <1>4. Evident(a)'
    BY <1>0, <1>2, <1>3 DEF Evident, TakenFrom, Divergence
  <1>5. ASSUME NEW i \in Execution, rec'[i][a].verified = "success", NotMoved(a, rec[i][a])'
        PROVE  remote'[a] \in {rec'[i][a].new, acct'[a].secret} \/ Shows(a)'
    <2>1. Same(i, a) /\ StillShown(i, a)
      BY <1>5 DEF Calm, Made
    <2>2. rec[i][a].verified = "success" /\ rec[i][a].status # "none"
      BY <1>5, <2>1, RowTypes DEF StillShown
    <2>3. NotMoved(a, rec[i][a])
      BY <1>5, <2>1, <2>2, FitsNoMore DEF Calm, Divergence
    <2> QED
      BY <1>0, <1>2, <2>1, <2>2, <2>3 DEF VerifiedOf, Divergence, Same
  <1>6. ASSUME NEW e \in Execution
        PROVE  BatchOf(e, a)'
    <2>1. CASE rec'[exe'[e].src][a].status = "pending"
      BY <2>1 DEF BatchOf, Rec, Shown
    <2>2. CASE step'[e][a] \notin {"ready", "batch"}
      BY <2>2 DEF BatchOf
    <2>3. CASE step[e][a] \in {"ready", "batch"} /\ exe'[e].src = exe[e].src
      <3>1. lock[a] = e
        BY <2>3 DEF Held, Holding
      <3>2. \A w \in Execution : step[w][a] # "locked"
        BY <2>3, <3>1 DEF Held, Holding
      <3>3. \A i \in Execution : Same(i, a) /\ StillShown(i, a)
        BY <3>2 DEF Calm, Made
      <3>4. exe[e].src \in Execution
        BY DEF TypeOK, ExeRow
      <3>5. rec'[exe[e].src][a].new = rec[exe[e].src][a].new
        BY <3>3, <3>4 DEF Same
      <3>6. CASE Rec(e, a).status \in Shown
        BY <2>3, <3>3, <3>4, <3>6 DEF Rec, BatchOf, StillShown
      <3>7. CASE acct[a].secret = Rec(e, a).new
        BY <1>0, <2>3, <3>5, <3>7 DEF Rec, BatchOf
      <3>8. CASE TakenFrom(a, Rec(e, a).new) /\ NothingFits(a)
        <4>1. TakenFrom(a, Rec(e, a).new)'
          BY <1>3, <2>3, <3>5, <3>8 DEF TakenFrom, Rec
        <4>2. NothingFits(a)'
          BY <3>3, <3>8, FitsNoMore DEF NothingFits, Same, Calm, Divergence
        <4> QED
          BY <4>1, <4>2 DEF BatchOf
      <3> QED
        BY <2>3, <3>6, <3>7, <3>8 DEF Divergence, BatchOf
    <2> QED
      BY <2>1, <2>2, <2>3 DEF Calm, Readied
  <1> QED
    BY <1>4, <1>5, <1>6 DEF VerifiedOf

LEMMA RanKeeps ==
    ASSUME TypeOK, Registry, NEW a \in Account, Divergence(a), Ran(a)
    PROVE  Evident(a)' /\ VerifiedOf(a)' /\ \A e \in Execution : BatchOf(e, a)'
  <1>0. acct'[a] = acct[a] /\ \A i \in Execution : rec'[i][a] = rec[i][a]
    BY DEF Ran
  <1>1. PICK e \in Execution : step[e][a] = "batch" /\ remote'[a] = Rec(e, a).new
    BY DEF Ran
  <1>2. exe[e].src \in Execution /\ \A i \in Execution : exe[i].src \in Execution
    BY DEF TypeOK, ExeRow
  <1>3. BatchOf(e, a)
    BY DEF Divergence
  <1>4. \A i \in Execution : NotMoved(a, rec[i][a])' <=> NotMoved(a, rec[i][a])
    BY <1>0 DEF NotMoved
  <1>5. ASSUME Rec(e, a).status \in Shown
        PROVE  Evident(a)' /\ VerifiedOf(a)'
    <2>1. rec'[exe[e].src][a].new = remote'[a] /\ rec'[exe[e].src][a].status \in Shown
      BY <1>0, <1>1, <1>2, <1>5 DEF Rec
    <2>2. Shows(a)'
      BY <1>2, <2>1 DEF Shows
    <2> QED
      BY <2>2 DEF Evident, VerifiedOf
  <1>6. ASSUME acct[a].secret = Rec(e, a).new
        PROVE  Evident(a)' /\ VerifiedOf(a)'
    BY <1>0, <1>1, <1>6 DEF Evident, VerifiedOf
  <1>7. ASSUME TakenFrom(a, Rec(e, a).new) /\ NothingFits(a)
        PROVE  Evident(a)' /\ VerifiedOf(a)'
    <2>1. TakenFrom(a, remote[a])'
      BY <1>0, <1>1, <1>7 DEF TakenFrom
    <2>2. \A i \in Execution : rec'[i][a].verified = "success" => ~NotMoved(a, rec[i][a])'
      BY <1>0, <1>4, <1>7, RowTypes DEF NothingFits
    <2> QED
      BY <2>1, <2>2 DEF Evident, VerifiedOf
  <1>8. ASSUME NEW w \in Execution
        PROVE  BatchOf(w, a)'
    <2>1. rec'[exe'[w].src][a] = Rec(w, a) /\ exe'[w].src = exe[w].src
      BY <1>0, <1>2 DEF Ran, Rec
    <2>2. TakenFrom(a, Rec(w, a).new) => TakenFrom(a, Rec(w, a).new)'
      BY <1>0, <2>1 DEF TakenFrom, Rec
    <2>3. NothingFits(a) => NothingFits(a)'
      BY <1>0, <1>4 DEF NothingFits
    <2> QED
      BY <1>0, <2>1, <2>2, <2>3 DEF BatchOf, Ran, Rec, Divergence
  <1> QED
    BY <1>3, <1>1, <1>5, <1>6, <1>7, <1>8 DEF BatchOf

LEMMA WroteKeeps ==
    ASSUME NEW a \in Account, Wrote(a)
    PROVE  Evident(a)' /\ VerifiedOf(a)' /\ \A e \in Execution : BatchOf(e, a)'
  BY DEF Wrote, Evident, VerifiedOf, BatchOf

LEMMA ProbedKeeps ==
    ASSUME TypeOK, NEW a \in Account, Divergence(a), Probed(a)
    PROVE  Evident(a)' /\ VerifiedOf(a)' /\ \A e \in Execution : BatchOf(e, a)'
  <1>0. /\ UNCHANGED <<exe, acct, remote, step>>
        /\ \A i \in Execution : Same(i, a) /\ rec'[i][a].status = rec[i][a].status
        /\ \A e \in Execution : exe[e].src \in Execution
    BY DEF Probed, TypeOK, ExeRow
  <1>1. Shows(a)' <=> Shows(a)
    BY <1>0 DEF Shows, Same
  <1>2. \A s : TakenFrom(a, s) => \E i \in Execution : rec'[i][a].old = s /\ rec'[i][a].new = acct'[a].secret
    BY <1>0 DEF TakenFrom, Same
  <1>3. \A i \in Execution : NotMoved(a, rec[i][a])' <=> NotMoved(a, rec[i][a])
    BY <1>0 DEF NotMoved, Same
  <1>4. Evident(a)'
    BY <1>0, <1>1, <1>2 DEF Evident, TakenFrom, Divergence
  <1>5. VerifiedOf(a)'
    BY <1>0, <1>1, <1>3 DEF VerifiedOf, Divergence, Probed, Same
  <1>6. ASSUME NEW e \in Execution
        PROVE  BatchOf(e, a)'
    BY <1>0, <1>2, <1>3 DEF BatchOf, Rec, Divergence, TakenFrom, NothingFits, Same
  <1> QED
    BY <1>4, <1>5, <1>6

LEMMA RestoredKeeps ==
    ASSUME TypeOK, Registry, NEW a \in Account, Divergence(a), Restored(a)
    PROVE  Evident(a)' /\ VerifiedOf(a)' /\ \A e \in Execution : BatchOf(e, a)'
  <1>1. PICK i \in Execution :
          /\ rec[i][a].new # None /\ rec[i][a].verified = "success"
          /\ Same(i, a) /\ rec'[i][a].verified = rec[i][a].verified
          /\ \A j \in Execution : j # i => rec'[j][a] = rec[j][a]
          /\ \/ acct[a].secret = rec[i][a].new /\ acct'[a] = acct[a]
             \/ /\ acct[a].secret # rec[i][a].new /\ NotMoved(a, rec[i][a])
                /\ acct'[a] = Saved(a, rec[i][a].new, rec[i][a].new)
    BY DEF Restored
  <1>2. /\ UNCHANGED <<exe, remote, step>>
        /\ \A e \in Execution : exe[e].src \in Execution
        /\ rec[i][a].status # "none"
    BY <1>1, RowTypes DEF Restored, TypeOK, ExeRow
  <1>3. \A j \in Execution : Same(j, a) /\ rec'[j][a].verified = rec[j][a].verified
    BY <1>1 DEF Same
  <1>4. Moves(a) /\ FormerOf(a)
    BY <1>1 DEF Moves, Divergence
  <1>5. acct'[a].secret = rec[i][a].new
    BY <1>1 DEF Saved
  <1>6. \A e \in Execution : Rec(e, a)' = rec'[exe[e].src][a] /\ rec'[exe[e].src][a].new = Rec(e, a).new
    BY <1>2, <1>3 DEF Rec, Same
  \* The record that shows the remote secret is another one, or both sides agree now.
  <1>7. Shows(a) => Shows(a)' \/ remote'[a] = acct'[a].secret
    BY <1>1, <1>2, <1>5 DEF Shows
  <1>8. CASE acct[a].secret = rec[i][a].new /\ acct'[a] = acct[a]
    <2>1. \A s : TakenFrom(a, s) => \E j \in Execution : rec'[j][a].old = s /\ rec'[j][a].new = acct'[a].secret
      BY <1>3, <1>8 DEF TakenFrom, Same
    <2>2. \A j \in Execution : NotMoved(a, rec[j][a])' <=> NotMoved(a, rec[j][a])
      BY <1>3, <1>8 DEF NotMoved, Same
    <2>3. Evident(a)'
      BY <1>2, <1>7, <1>8, <2>1 DEF Evident, TakenFrom, Divergence
    <2>4. VerifiedOf(a)'
      BY <1>2, <1>3, <1>7, <1>8, <2>2 DEF VerifiedOf, Divergence, Same
    <2>5. NothingFits(a) => NothingFits(a)'
      BY <1>3, <2>2 DEF NothingFits, Same
    <2>6. ASSUME NEW e \in Execution, step[e][a] \in {"ready", "batch"}
          PROVE  \/ Rec(e, a)'.status \in Shown
                 \/ acct'[a].secret = Rec(e, a)'.new
                 \/ TakenFrom(a, Rec(e, a).new)' /\ NothingFits(a)'
      <3>1. CASE exe[e].src = i \/ acct[a].secret = Rec(e, a).new
        BY <1>5, <1>6, <1>8, <3>1 DEF Rec
      <3>2. CASE exe[e].src # i /\ Rec(e, a).status \in Shown
        BY <1>1, <1>2, <1>6, <3>2 DEF Rec
      <3>3. CASE TakenFrom(a, Rec(e, a).new) /\ NothingFits(a)
        BY <1>6, <2>1, <2>5, <3>3, SMTT(60) DEF TakenFrom
      <3> QED
        BY <2>6, <3>1, <3>2, <3>3 DEF Divergence, BatchOf
    <2> QED
      BY <1>2, <2>3, <2>4, <2>6 DEF BatchOf
  <1>9. CASE /\ acct[a].secret # rec[i][a].new /\ NotMoved(a, rec[i][a])
             /\ acct'[a] = Saved(a, rec[i][a].new, rec[i][a].new)
    <2>1. NothingFits(a)'
      BY <1>3, <1>4, <1>5, <1>9, FitsNoMore DEF NothingFits, Same
    <2>2. VerifiedOf(a)'
      BY <1>3, <2>1, RowTypes DEF VerifiedOf, NothingFits, Same
    <2>4. remote[a] \in {rec[i][a].new, acct[a].secret} \/ Shows(a)
      BY <1>1, <1>9 DEF VerifiedOf, Divergence
    <2>5. Evident(a)'
      <3>1. CASE remote[a] = rec[i][a].new
        BY <1>2, <1>5, <3>1 DEF Evident
      <3>2. CASE remote[a] = acct[a].secret
        <4>1. rec'[i][a].old = remote'[a] /\ rec'[i][a].new = acct'[a].secret
          BY <1>2, <1>3, <1>5, <1>9, <3>2 DEF NotMoved, Same
        <4> QED
          BY <4>1 DEF Evident, TakenFrom
      <3>3. CASE Shows(a)
        BY <1>7, <3>3 DEF Evident
      <3> QED
        BY <2>4, <3>1, <3>2, <3>3
    <2>6. ASSUME NEW e \in Execution, step[e][a] \in {"ready", "batch"}
          PROVE  \/ Rec(e, a)'.status \in Shown
                 \/ acct'[a].secret = Rec(e, a)'.new
                 \/ TakenFrom(a, Rec(e, a).new)' /\ NothingFits(a)'
      <3>1. CASE exe[e].src = i
        BY <1>5, <1>6, <3>1 DEF Rec
      <3>2. CASE exe[e].src # i /\ Rec(e, a).status \in Shown
        BY <1>1, <1>2, <1>6, <3>2 DEF Rec
      <3>3. CASE acct[a].secret = Rec(e, a).new
        <4>1. rec'[i][a].old = Rec(e, a)'.new /\ rec'[i][a].new = acct'[a].secret
          BY <1>3, <1>5, <1>6, <1>9, <3>3 DEF NotMoved, Same
        <4> QED
          BY <2>1, <4>1 DEF TakenFrom
      <3>4. CASE NothingFits(a)
        BY <1>2, <1>9, <3>4 DEF NothingFits
      <3> QED
        BY <2>6, <3>1, <3>2, <3>3, <3>4 DEF Divergence, BatchOf
    <2> QED
      BY <1>2, <2>2, <2>5, <2>6 DEF BatchOf
  <1> QED
    BY <1>1, <1>8, <1>9

-----------------------------------------------------------------------------
(* Every step is of one of these kinds for every account.                  *)

Outcome(a) == Calm(a) \/ Ran(a) \/ Wrote(a) \/ Probed(a) \/ Restored(a)

Unmoved(a) == \A i \in Execution : Same(i, a) /\ StillShown(i, a)

LEMMA RecordsUnmoved ==
    ASSUME NEW a \in Account, \A i \in Execution : rec'[i][a] = rec[i][a]
    PROVE  Unmoved(a)
  BY DEF Unmoved, Same, StillShown

LEMMA StatusSet ==
    ASSUME NEW r \in RecRow, NEW x, NEW q, q = [r EXCEPT !.status = x]
    PROVE  /\ q.status = x /\ q.old = r.old /\ q.new = r.new
           /\ q.version = r.version /\ q.verified = r.verified
  BY DEF RecRow

LEMMA MarkSets ==
    ASSUME TypeOK, NEW e \in Execution, NEW b \in Account, NEW a \in Account,
           NEW status \in RecStatus \ {"none"}, Rec(e, b).status # "none", Mark(e, b, status)
    PROVE  /\ \A i \in Execution : Same(i, a)
           /\ status \in Shown => Unmoved(a)
           /\ a # b => \A i \in Execution : rec'[i][a] = rec[i][a]
  <1>1. exe[e].src \in Execution /\ rec[exe[e].src][b] \in RecRow
    BY DEF TypeOK, ExeRow
  <1>2. \A i \in Execution : rec'[i][a] = IF i = exe[e].src /\ a = b
                                          THEN [rec[exe[e].src][b] EXCEPT !.status = status] ELSE rec[i][a]
    BY <1>1 DEF Mark, TypeOK
  <1> DEFINE q == [rec[exe[e].src][b] EXCEPT !.status = status]
  <1>3. /\ q.status = status /\ q.old = Rec(e, b).old /\ q.new = Rec(e, b).new
        /\ q.version = Rec(e, b).version /\ q.verified = Rec(e, b).verified
    BY <1>1, StatusSet DEF Rec
  <1> HIDE DEF q
  <1>4. \A i \in Execution : IF i = exe[e].src /\ a = b
                             THEN rec'[i][a] = q /\ rec[i][a] = Rec(e, b) ELSE rec'[i][a] = rec[i][a]
    BY <1>2 DEF q, Rec
  <1> QED
    BY <1>3, <1>4 DEF Unmoved, Same, StillShown

\* The record a worker makes, or takes up again.
LEMMA RecordSets ==
    ASSUME TypeOK, Registry, NoPush, NEW e \in Execution, NEW b \in Account, NEW a \in Account,
           NEW s \in Secret, RecordWith(e, b, s), step[e][b] = "locked"
    PROVE  /\ \A i \in Execution : (Same(i, a) /\ StillShown(i, a)) \/ Made(i, a)
           /\ rec'[exe[e].src][b].status = "pending"
  <1>1. exe[e].src \in Execution
    BY DEF TypeOK, ExeRow
  <1>2. CASE exe[e].kind = "retry"
    <2>1. Rec(e, b).status # "none"
      BY <1>2, RetryKept
    <2>2. Mark(e, b, "pending")
      BY <1>1, <1>2 DEF RecordWith, Mark, TypeOK
    <2>3. Unmoved(a)
      BY <2>1, <2>2, MarkSets DEF RecStatus, Shown
    <2>4. rec[exe[e].src][b] \in RecRow
      BY <1>1 DEF TypeOK
    <2>5. rec'[exe[e].src][b] = [rec[exe[e].src][b] EXCEPT !.status = "pending"]
      BY <1>1, <2>2 DEF Mark, TypeOK
    <2> QED
      BY <2>3, <2>4, <2>5, StatusSet DEF Unmoved
  <1>3. CASE exe[e].kind # "retry"
    <2>1. exe[e].src = e /\ exe[e].kind = "change"
      BY <1>3 DEF Registry, Executions, NoPush, TypeOK, ExeRow
    <2>2. rec[e][b].status = "none"
      BY <1>3 DEF Registry, Workers
    <2>3. \A i \in Execution : rec'[i][a] = IF i = e /\ a = b
             THEN [status |-> "pending", old |-> loaded[e][b].secret, new |-> s,
                   version |-> loaded[e][b].version, verified |-> "no"] ELSE rec[i][a]
      BY <2>1 DEF RecordWith, TypeOK
    <2>4. \A i \in Execution : ~(i = e /\ a = b) => Same(i, a) /\ StillShown(i, a)
      BY <2>3 DEF Same, StillShown
    <2>5. a = b => Made(e, a)
      BY <2>2, <2>3 DEF Made
    <2>6. rec'[e][b].status = "pending"
      BY <2>1 DEF RecordWith, TypeOK
    <2> QED
      BY <2>1, <2>4, <2>5, <2>6
  <1> QED
    BY <1>2, <1>3

\* The end of a worker and a recovery close pending records.
LEMMA ClosedSets ==
    ASSUME TypeOK, NEW a \in Account,
           \A i \in Execution : \/ rec'[i][a] = rec[i][a]
                                \/ rec[i][a].status = "pending" /\ rec'[i][a] = Closed(rec[i][a])
    PROVE  Unmoved(a)
  <1>1. \A i \in Execution : rec[i][a] \in RecRow
    BY DEF TypeOK
  <1>2. ASSUME NEW r \in RecRow
        PROVE  /\ Closed(r).status = "unverified" /\ Closed(r).old = r.old /\ Closed(r).new = r.new
               /\ Closed(r).version = r.version /\ Closed(r).verified = r.verified
    BY StatusSet DEF Closed
  <1> QED
    BY <1>1, <1>2 DEF Unmoved, Same, StillShown, Shown

LEMMA FinalizeSets ==
    ASSUME TypeOK, NEW e \in Execution, Finalize(e), NEW a \in Account
    PROVE  Unmoved(a)
  <1>1. exe[e].src \in Execution
    BY SMTT(60) DEF TypeOK, ExeRow
  <1> DEFINE src == exe[e].src
             closed == [b \in Account |-> IF step[e][b] = "cleared" /\ rec[src][b].status = "pending"
                                          THEN Closed(rec[src][b]) ELSE rec[src][b]]
  <1>2. UNCHANGED rec \/ rec' = [rec EXCEPT ![src] = closed]
    BY DEF Finalize, Closed
  <1>3. \/ closed[a] = rec[src][a]
        \/ rec[src][a].status = "pending" /\ closed[a] = Closed(rec[src][a])
    OBVIOUS
  <1> HIDE DEF src, closed
  <1>4. \A i \in Execution : \/ rec'[i][a] = rec[i][a]
                             \/ rec[i][a].status = "pending" /\ rec'[i][a] = Closed(rec[i][a])
    BY <1>1, <1>2, <1>3 DEF TypeOK, src
  <1> QED
    BY <1>4, ClosedSets

LEMMA RecoverSets ==
    ASSUME TypeOK, NEW e \in Execution, NEW how, Recover(e, how), NEW a \in Account
    PROVE  Unmoved(a)
  BY ClosedSets DEF Recover, LeftPending

LEMMA TouchedMoves ==
    ASSUME NEW a \in Account, NEW mem,
           acct'[a] \in {acct[a], Saved(a, mem, acct[a].secret)}
    PROVE  Moves(a) /\ acct'[a].secret = acct[a].secret
  <1>1. Saved(a, mem, acct[a].secret).secret = acct[a].secret
    BY DEF Saved
  <1>2. CASE acct'[a] = acct[a]
    BY <1>2 DEF Moves
  <1>3. CASE acct'[a] = Saved(a, mem, acct[a].secret)
    BY <1>1, <1>3, SMTT(60) DEF Moves
  <1> QED
    BY <1>2, <1>3

LEMMA WorkReadies ==
    ASSUME TypeOK, Registry, NoPush, NEW e \in Execution, Work(e) \/ Crash(e), NEW a \in Account
    PROVE  (\A w \in Execution : Readied(w, a)) /\ LoadedFrom(a)
  <1> USE DEF rows, redis
  <1>1. \A w \in Execution : w # e => exe'[w] = exe[w] /\ step'[w] = step[w] /\ loaded'[w] = loaded[w]
    BY RowAlone, WorkerAlone
  <1>2. exe'[e].src = exe[e].src
    BY WorkKeepsRow
  <1>3. ASSUME NEW b \in Account, NEW s \in Secret, CreateRecord(e, b, s)
        PROVE  Readied(e, a)
    <2>1. rec'[exe[e].src][b].status = "pending"
      BY <1>3, RecordSets DEF CreateRecord
    <2>2. a # b => step'[e][a] = step[e][a]
      BY <1>3, SMTT(60) DEF CreateRecord, Goto, TypeOK
    <2> QED
      BY <1>2, <2>1, <2>2 DEF Readied
  <1>4. \/ \E b \in Account, s \in Secret : CreateRecord(e, b, s)
        \/ step'[e][a] \in {"ready", "batch"} => step[e][a] \in {"ready", "batch"}
    <2>1. ASSUME NEW b \in Account, NEW next \in Step \ {"ready", "batch"}, Goto(e, b, next)
          PROVE  step'[e][a] \in {"ready", "batch"} => step[e][a] \in {"ready", "batch"}
      BY <2>1 DEF Goto, TypeOK
    <2>2. ASSUME NEW b \in Account, Prepare(e, b) \/ Settle(e, b) \/ FinalizeClear(e, b)
          PROVE  \/ \E s \in Secret : CreateRecord(e, b, s)
                 \/ \E next \in Step \ {"ready", "batch"} : Goto(e, b, next)
      BY <2>2 DEF Prepare, FilterOut, Acquire, Reject, PrepareFails, RecordThenFail,
         Settle, HostSuccess, HostError, HostIncomplete, Free, FinalizeClear, Step
    <2>3. ASSUME NEW b \in Account, NEW changed \in BOOLEAN, NEW report \in Report,
                 RunHost(e, b, changed, report)
          PROVE  step'[e][a] \in {"ready", "batch"} => step[e][a] \in {"ready", "batch"}
      BY <2>3 DEF RunHost, Goto, TypeOK
    <2>4. CASE LoadAccounts(e) \/ Crash(e) \/ ReleaseAll(e)
      <3>1. step'[e][a] \in {"todo", "out"}
        BY <2>4 DEF LoadAccounts, Crash, ReleaseAll, Forget, TypeOK
      <3> QED
        BY <3>1
    <2>5. CASE \/ \E B \in SUBSET Account : StartBatch(e, B)
               \/ \E how \in Terminal : EndBatch(e, how)
      BY <2>5 DEF StartBatch, EndBatch, TypeOK
    <2>6. CASE UNCHANGED step
      BY <2>6
    <2> QED
      BY <2>1, <2>2, <2>3, <2>4, <2>5, <2>6 DEF Work, PreRun, Prepared, NoMoreBatches, Finalize,
         SaveExecution, Abort, Stop, RunnerEnds
  <1>5. \A w \in Execution : Readied(w, a)
    BY <1>1, <1>2, <1>3, <1>4 DEF Readied
  <1>6. CASE LoadAccounts(e)
    <2>1. acct' = acct
      BY <1>6 DEF LoadAccounts
    <2>2. \/ loaded'[e][a] = loaded[e][a]
          \/ loaded'[e][a] = [secret |-> acct[a].secret, version |-> acct[a].version]
      BY <1>6 DEF LoadAccounts, TypeOK
    <2> QED
      BY <1>1, <1>5, <2>1, <2>2 DEF LoadedFrom
  <1>7. CASE Crash(e) \/ ReleaseAll(e)
    <2>1. loaded'[e][a] = [secret |-> InitSecret, version |-> 0]
      BY <1>7 DEF Crash, ReleaseAll, Forget, TypeOK
    <2> QED
      BY <1>1, <1>5, <2>1 DEF LoadedFrom
  <1>8. CASE UNCHANGED loaded
    BY <1>5, <1>8 DEF LoadedFrom
  <1> QED
    BY <1>6, <1>7, <1>8 DEF Work, PreRun, Prepared, NoMoreBatches, Finalize, SaveExecution,
         Prepare, FilterOut, Acquire, Reject, PrepareFails, CreateRecord, RecordThenFail,
         Settle, HostSuccess, HostError, HostIncomplete, Free, FinalizeClear, StartBatch, RunHost,
         Abort, Stop, EndBatch, RunnerEnds

LEMMA SettleOutcome ==
    ASSUME TypeOK, Registry, Held, NoPush, NEW e \in Execution, NEW a \in Account, Delivered(e, a),
           NEW b \in Account, HostSuccess(e, b) \/ HostError(e, b) \/ HostIncomplete(e, b),
           \A w \in Execution : Readied(w, a)
    PROVE  Outcome(a)
  <1>0. Work(e)
    BY DEF Work, Settle
  <1>1. Rec(e, b).status # "none" /\ remote' = remote
    <2>1. step[e][b] \notin Unrecorded
      BY DEF HostSuccess, HostError, HostIncomplete, Unrecorded
    <2> QED
      BY <2>1 DEF Registry, Workers, HostSuccess, HostError, HostIncomplete
  <1>2. /\ \A i \in Execution : Same(i, a)
        /\ a # b => \A i \in Execution : rec'[i][a] = rec[i][a]
    <2>1. rec' = rec \/ \E status \in RecStatus \ {"none"} : Mark(e, b, status)
      BY DEF HostSuccess, HostError, HostIncomplete, SaveFails, RecStatus
    <2> QED
      BY <1>1, <2>1, MarkSets DEF Same
  <1>3. CASE a # b
    <2>1. acct' = acct \/ \E v : acct' = [acct EXCEPT ![b] = v]
      BY DEF HostSuccess, HostError, HostIncomplete, SaveFails
    <2>2. acct'[a] = acct[a]
      BY <1>3, <2>1 DEF TypeOK
    <2> QED
      BY <1>1, <1>2, <1>3, <2>2, RecordsUnmoved DEF Outcome, Calm, Moves, Unmoved
  <1> DEFINE Taken == /\ HostSuccess(e, a) /\ cb[e][a] \in {"ok", "sync"}
                      /\ acct' = [acct EXCEPT ![a] = Saved(a, Rec(e, a).new, Rec(e, a).new)]
  <1>4. CASE a = b /\ Taken
    <2>1. step[e][a] = "ran" /\ exe[e].kind # "push" /\ Goto(e, a, "settled")
      BY <1>4 DEF HostSuccess, NoPush
    <2>2. acct'[a] = Saved(a, Rec(e, a).new, Rec(e, a).new) /\ remote[a] = Rec(e, a).new
      BY <1>4, <2>1 DEF TypeOK, Delivered
    <2>3. Moves(a) /\ acct'[a].secret = remote[a]
      <3>1. Saved(a, Rec(e, a).new, Rec(e, a).new).secret = Rec(e, a).new
        BY DEF Saved
      <3> QED
        BY <2>2, <3>1 DEF Moves
    <2>4. \A w \in Execution : step'[w][a] \notin {"ready", "batch"}
      <3>1. step'[e][a] = "settled"
        BY <2>1 DEF Goto, TypeOK
      <3>2. \A w \in Execution : w # e => step'[w] = step[w]
        BY <1>0, WorkerAlone
      <3>3. \A w \in Execution : w # e => step[w][a] \notin {"ready", "batch"}
        BY <2>1 DEF Held, Holding
      <3> QED
        BY <3>1, <3>2, <3>3
    <2> QED
      BY <1>1, <1>2, <2>3, <2>4 DEF Outcome, Wrote
  <1>5. CASE a = b /\ ~Taken
    <2>1. /\ rec' = rec \/ \E status \in {"failed", "unverified"} : Mark(e, a, status)
          /\ \/ acct' = acct
             \/ \E mem : acct' = [acct EXCEPT ![a] = Saved(a, mem, acct[a].secret)]
      <3>1. CASE HostSuccess(e, a)
        BY <1>5, <3>1 DEF HostSuccess, SaveFails, NoPush
      <3>2. CASE HostError(e, a)
        BY <3>2 DEF HostError, SaveFails
      <3>3. CASE HostIncomplete(e, a)
        BY <3>3 DEF HostIncomplete, SaveFails, Touched
      <3> QED
        BY <1>5, <3>1, <3>2, <3>3
    <2>2. Unmoved(a)
      <3>1. CASE rec' = rec
        BY <3>1, RecordsUnmoved
      <3>2. CASE \E status \in {"failed", "unverified"} : Mark(e, a, status)
        BY <1>1, <1>5, <3>2, MarkSets DEF RecStatus, Shown
      <3> QED
        BY <2>1, <3>1, <3>2
    <2>3. \E mem : acct'[a] \in {acct[a], Saved(a, mem, acct[a].secret)}
      BY <2>1 DEF TypeOK
    <2> QED
      BY <1>1, <2>2, <2>3, TouchedMoves DEF Outcome, Calm, Unmoved
  <1> QED
    BY <1>3, <1>4, <1>5

LEMMA WorkOutcome ==
    ASSUME TypeOK, Registry, Held, NoPush, NEW e \in Execution, NEW a \in Account, Delivered(e, a),
           Work(e) \/ Crash(e)
    PROVE  Outcome(a)
  <1> USE DEF rows
  <1>1. \A w \in Execution : Readied(w, a)
    BY WorkReadies
  <1>2. CASE \E b \in Account : HostSuccess(e, b) \/ HostError(e, b) \/ HostIncomplete(e, b)
    BY <1>1, <1>2, SettleOutcome
  <1>3. ASSUME NEW b \in Account, NEW changed \in BOOLEAN, NEW report \in Report,
               RunHost(e, b, changed, report)
        PROVE  Outcome(a)
    <2>1. /\ UNCHANGED <<exe, rec, acct>> /\ step[e][b] = "batch" /\ exe[e].kind # "push"
          /\ step' = [step EXCEPT ![e][b] = "ran"]
          /\ remote' = IF changed THEN [remote EXCEPT ![b] = Rec(e, b).new] ELSE remote
      BY <1>3 DEF RunHost, Goto, Sent, NoPush
    <2>2. CASE changed /\ a = b
      <3>1. remote'[a] = Rec(e, a).new
        BY <2>1, <2>2 DEF TypeOK
      <3>2. \A w \in Execution : step'[w][a] \in {"ready", "batch"} => step[w][a] \in {"ready", "batch"}
        BY <2>1 DEF TypeOK
      <3> QED
        BY <2>1, <2>2, <3>1, <3>2 DEF Outcome, Ran
    <2>3. CASE ~(changed /\ a = b)
      <3>1. remote'[a] = remote[a]
        BY <2>1, <2>3 DEF TypeOK
      <3> QED
        BY <1>1, <2>1, <3>1, RecordsUnmoved DEF Outcome, Calm, Moves, Unmoved
    <2> QED
      BY <2>2, <2>3
  <1>4. ASSUME NEW b \in Account, NEW s \in Secret, CreateRecord(e, b, s) \/ RecordThenFail(e, b, s)
        PROVE  Outcome(a)
    <2>1. /\ RecordWith(e, b, s) /\ step[e][b] = "locked" /\ UNCHANGED <<acct, remote>>
      BY <1>4 DEF CreateRecord, RecordThenFail
    <2> QED
      BY <1>1, <2>1, RecordSets DEF Outcome, Calm, Moves
  <1>5. CASE Finalize(e)
    <2>1. UNCHANGED remote /\ Unmoved(a)
      BY <1>5, FinalizeSets DEF Finalize
    <2>2. acct'[a] \in {acct[a], Saved(a, acct[a].secret, acct[a].secret)}
      BY <1>5 DEF Finalize, Touched
    <2> QED
      BY <1>1, <2>1, <2>2, TouchedMoves, SMTT(60) DEF Outcome, Calm, Unmoved
  <1>6. CASE UNCHANGED <<rec, acct, remote>>
    BY <1>1, <1>6, RecordsUnmoved DEF Outcome, Calm, Moves, Unmoved
  <1> QED
    BY <1>2, <1>3, <1>4, <1>5, <1>6 DEF Work, Crash, PreRun, LoadAccounts, Prepared, NoMoreBatches,
       SaveExecution, ReleaseAll, Prepare, FilterOut, Acquire, Reject, PrepareFails, Settle, Free,
       FinalizeClear, StartBatch, Abort, Stop, EndBatch, RunnerEnds

\* What happens beside the workers and the requests changes no secret.
LEMMA OutsideOutcome ==
    ASSUME TypeOK, Registry, NEW a \in Account,
           \/ \E e \in Execution :
                 \/ \E k \in Kinds, src \in Execution, T \in SUBSET Account : Create(e, k, src, T)
                 \/ Recovery(e) \/ RecoverStops(e)
           \/ \E b \in Account : LockExpires(b) \/ TaskExpires(b)
    PROVE  Outcome(a) /\ LoadedFrom(a)
  <1> USE DEF rows, memory
  <1>1. UNCHANGED <<remote, loaded, step>>
    BY DEF Create, Recovery, Recover, RecoverClear, RecoverStops, LockExpires, TaskExpires
  <1>2. ASSUME NEW e \in Execution, NEW k \in Kinds, NEW src \in Execution, NEW T \in SUBSET Account,
               Create(e, k, src, T)
        PROVE  Outcome(a)
    <2>1. /\ UNCHANGED <<rec, acct>>
          /\ \A w \in Execution : w # e => exe'[w] = exe[w]
          /\ exe[e].status = "none"
      BY <1>2 DEF Create, TypeOK
    <2>2. step[e][a] = "out"
      BY <2>1 DEF Registry, Executions, Workers, Blank
    <2>3. \A w \in Execution : Readied(w, a)
      BY <1>1, <2>1, <2>2 DEF Readied
    <2> QED
      BY <1>1, <2>1, <2>3, RecordsUnmoved DEF Outcome, Calm, Moves, Unmoved
  <1>3. ASSUME NEW e \in Execution, NEW how \in {"canceled", "error"}, Recover(e, how)
        PROVE  Outcome(a)
    <2>1. Unmoved(a)
      BY <1>3, RecoverSets
    <2>2. acct'[a] \in {acct[a], Saved(a, acct[a].secret, acct[a].secret)}
      BY <1>3 DEF Recover, Touched
    <2>3. \A w \in Execution : exe'[w].src = exe[w].src
      <3>1. exe \in [Execution -> ExeRow] /\ exe' = [exe EXCEPT ![e].status = how]
        BY <1>3 DEF Recover, TypeOK
      <3>2. \A w \in Execution : exe'[w] = IF w = e THEN [exe[e] EXCEPT !.status = how] ELSE exe[w]
        BY <3>1
      <3> QED
        BY <3>1, <3>2 DEF ExeRow
    <2>4. \A w \in Execution : Readied(w, a)
      BY <1>1, <2>3 DEF Readied
    <2> QED
      BY <1>1, <2>1, <2>2, <2>4, TouchedMoves DEF Outcome, Calm, Unmoved
  <1>4. ASSUME UNCHANGED rows
        PROVE  Outcome(a)
    <2>1. Unmoved(a)
      BY <1>4, RecordsUnmoved
    <2>2. \A w \in Execution : Readied(w, a)
      BY <1>1, <1>4 DEF Readied
    <2> QED
      BY <1>1, <1>4, <2>1, <2>2 DEF Outcome, Calm, Moves, Unmoved
  <1>5. Outcome(a)
    BY <1>2, <1>3, <1>4 DEF Recovery, RecoverClear, RecoverStops, LockExpires, TaskExpires
  <1> QED
    BY <1>1, <1>5 DEF LoadedFrom

LEMMA RowSet ==
    ASSUME NEW r \in RecRow, NEW x, NEW q, q = [r EXCEPT !.verified = x]
    PROVE  /\ q.verified = x /\ q.old = r.old /\ q.new = r.new
           /\ q.version = r.version /\ q.status = r.status
  BY DEF RecRow

\* The requests of an operator: a probe sees what the remote system accepts, and a restore
\* copies what a probe has seen.
LEMMA RequestOutcome ==
    ASSUME TypeOK, Registry, Forces \subseteq {FALSE}, NEW a \in Account, NEW i \in Execution, NEW b \in Account,
           Request(i, b)
    PROVE  Outcome(a) /\ LoadedFrom(a)
  <1> USE DEF memory
  <1>1. UNCHANGED <<exe, remote, step, loaded>>
    BY DEF Request, VerifyStart, VerifyEnd, Restore
  <1>2. rec[i][b] \in RecRow
    BY DEF TypeOK
  <1>3. CASE VerifyStart(i, b) \/ \E verdict \in {"success", "no"} : VerifyEnd(i, b, verdict)
    <2>1. PICK verdict \in {"pending", "success", "no"} :
             /\ UNCHANGED acct /\ rec' = [rec EXCEPT ![i][b].verified = verdict]
             /\ verdict = "success" => remote[b] = rec[i][b].new
      BY <1>3 DEF VerifyStart, VerifyEnd
    <2> DEFINE q == [rec[i][b] EXCEPT !.verified = verdict]
    <2>2. \A j \in Execution : rec'[j][a] = IF j = i /\ a = b THEN q ELSE rec[j][a]
      BY <2>1 DEF TypeOK
    <2>3. /\ q.verified = verdict /\ q.old = rec[i][b].old /\ q.new = rec[i][b].new
          /\ q.version = rec[i][b].version /\ q.status = rec[i][b].status
      BY <1>2, RowSet
    <2> HIDE DEF q
    <2>4. \A j \in Execution : /\ Same(j, a) /\ rec'[j][a].status = rec[j][a].status
                               /\ rec'[j][a].verified = "success" =>
                                     rec[j][a].verified = "success" \/ rec[j][a].new = remote[a]
      BY <2>1, <2>2, <2>3 DEF Same
    <2> QED
      BY <1>1, <2>1, <2>4 DEF Outcome, Probed, LoadedFrom
  <1>4. ASSUME NEW force \in Forces, Restore(i, b, force)
        PROVE  Outcome(a) /\ LoadedFrom(a)
    <2>1. /\ rec[i][b].new # None /\ rec[i][b].verified = "success"
          /\ rec' = [rec EXCEPT ![i][b].status = "success"]
          /\ \/ acct[b].secret = rec[i][b].new /\ UNCHANGED acct
             \/ /\ acct[b].secret # rec[i][b].new /\ NotMoved(b, rec[i][b])
                /\ acct' = [acct EXCEPT ![b] = Saved(b, rec[i][b].new, rec[i][b].new)]
      BY <1>4 DEF Restore
    <2> DEFINE q == [rec[i][b] EXCEPT !.status = "success"]
    <2>2. \A j \in Execution : rec'[j][a] = IF j = i /\ a = b THEN q ELSE rec[j][a]
      BY <2>1 DEF TypeOK
    <2>3. /\ q.verified = rec[i][b].verified /\ q.old = rec[i][b].old /\ q.new = rec[i][b].new
          /\ q.version = rec[i][b].version /\ q.status = "success"
      BY <1>2, StatusSet
    <2> HIDE DEF q
    <2>4. CASE a = b
      <3>1. rec[i][a].status # "none"
        BY <2>1, <2>4, RowTypes
      <3>2. Same(i, a) /\ rec'[i][a].verified = rec[i][a].verified
        BY <2>2, <2>3, <2>4, <3>1 DEF Same
      <3>3. \/ acct[a].secret = rec[i][a].new /\ acct'[a] = acct[a]
            \/ /\ acct[a].secret # rec[i][a].new /\ NotMoved(a, rec[i][a])
               /\ acct'[a] = Saved(a, rec[i][a].new, rec[i][a].new)
        BY <2>1, <2>4 DEF TypeOK
      <3> QED
        BY <1>1, <2>1, <2>2, <2>4, <3>2, <3>3 DEF Outcome, Restored, LoadedFrom
    <2>5. CASE a # b
      <3>1. (\A j \in Execution : rec'[j][a] = rec[j][a]) /\ acct'[a] = acct[a]
        BY <2>1, <2>2, <2>5 DEF TypeOK
      <3> QED
        BY <1>1, <3>1, RecordsUnmoved DEF Outcome, Calm, Moves, Unmoved, Readied, LoadedFrom
    <2> QED
      BY <2>4, <2>5
  <1> QED
    BY <1>3, <1>4 DEF Request

LEMMA OutcomeMoves ==
    ASSUME NEW a \in Account, Outcome(a)
    PROVE  Moves(a) /\ \A i \in Execution : Same(i, a) \/ Made(i, a)
  <1>1. ASSUME NEW i \in Execution, rec'[i][a] = rec[i][a]
        PROVE  Same(i, a)
    BY <1>1 DEF Same
  <1>2. CASE Restored(a)
    BY <1>1, <1>2 DEF Restored, Moves
  <1> QED
    BY <1>1, <1>2 DEF Outcome, Calm, Ran, Wrote, Probed, Moves

LEMMA NextOutcome ==
    ASSUME TypeOK, Registry, Held, NoPush, Plain, NEW a \in Account,
           \A e \in Execution : Delivered(e, a), [Next]_vars
    PROVE  Outcome(a) /\ LoadedFrom(a)
  <1>1. CASE UNCHANGED vars
    BY <1>1, RecordsUnmoved DEF vars, rows, memory, Outcome, Calm, Moves, Unmoved, Readied, LoadedFrom
  <1>2. CASE \E e \in Execution : Work(e) \/ Crash(e)
    BY <1>2, WorkOutcome, WorkReadies
  <1>3. CASE \E i \in Execution, b \in Account : Request(i, b)
    BY <1>3, RequestOutcome DEF Plain
  <1> QED
    BY <1>1, <1>2, <1>3, OutsideOutcome DEF Next

LEMMA NoPushNext ==
    ASSUME TypeOK, NoPush, "push" \notin Kinds, [Next]_vars
    PROVE  NoPush'
  <1>1. ASSUME NEW e \in Execution, NEW x, exe' = [exe EXCEPT ![e].status = x]
        PROVE  NoPush'
    <2>1. \A i \in Execution : exe'[i] = IF i = e THEN [exe[e] EXCEPT !.status = x] ELSE exe[i]
      BY <1>1 DEF TypeOK
    <2>2. [exe[e] EXCEPT !.status = x].kind = exe[e].kind
      BY DEF TypeOK, ExeRow
    <2> QED
      BY <2>1, <2>2 DEF NoPush
  <1>2. ASSUME NEW e \in Execution, NEW k \in Kinds, NEW src \in Execution, NEW T \in SUBSET Account,
               Create(e, k, src, T)
        PROVE  NoPush'
    BY <1>2 DEF Create, NoPush, TypeOK
  <1>3. CASE UNCHANGED exe
    BY <1>3 DEF NoPush
  <1>4. \/ UNCHANGED exe
        \/ \E e \in Execution : \E x : exe' = [exe EXCEPT ![e].status = x]
        \/ \E e \in Execution : \E k \in Kinds, src \in Execution, T \in SUBSET Account : Create(e, k, src, T)
    <2>1. ASSUME NEW e \in Execution, Work(e) \/ Crash(e)
          PROVE  UNCHANGED exe \/ \E x : exe' = [exe EXCEPT ![e].status = x]
      BY <2>1 DEF Work, Crash, PreRun, SaveExecution, LoadAccounts, Prepared, NoMoreBatches, Finalize,
         ReleaseAll, Prepare, FilterOut, Acquire, Reject, PrepareFails, CreateRecord,
         RecordThenFail, Settle, HostSuccess, HostError, HostIncomplete, Free,
         FinalizeClear, StartBatch, RunHost, Abort, Stop, EndBatch, RunnerEnds, rows
    <2>2. ASSUME NEW e \in Execution, Recovery(e) \/ RecoverStops(e)
          PROVE  UNCHANGED exe \/ \E x : exe' = [exe EXCEPT ![e].status = x]
      BY <2>2 DEF Recovery, Recover, RecoverClear, RecoverStops, rows
    <2>3. CASE \/ \E b \in Account : LockExpires(b) \/ TaskExpires(b)
               \/ \E i \in Execution, b \in Account : Request(i, b)
               \/ UNCHANGED vars
      BY <2>3 DEF LockExpires, TaskExpires, Request, VerifyStart, VerifyEnd, Restore, vars, rows
    <2> QED
      BY <2>1, <2>2, <2>3, SMTT(60) DEF Next
  <1> QED
    BY <1>1, <1>2, <1>3, <1>4

DivergenceInv == Plain => NoPush /\ \A a \in Account : Divergence(a)

LEMMA DivergenceNext ==
    IInv /\ DeliveredInv /\ DivergenceInv /\ [Next]_vars => DivergenceInv'
  <1> SUFFICES ASSUME TypeOK, Registry, LockInv, DeliveredInv, NoPush, Plain, [Next]_vars,
                      \A a \in Account : Divergence(a)
               PROVE  NoPush' /\ \A a \in Account : Divergence(a)'
    BY DEF IInv, DivergenceInv, Plain
  <1>5. NoPush'
    BY NoPushNext DEF Plain
  <1> SUFFICES ASSUME NEW a \in Account
               PROVE  Divergence(a)'
    BY <1>5
  <1>1. Held /\ \A e \in Execution : Delivered(e, a)
    BY HeldIsLocked DEF Plain, DeliveredInv
  <1>2. Outcome(a) /\ LoadedFrom(a)
    BY <1>1, NextOutcome
  <1>3. FormerOf(a)'
    BY <1>2, OutcomeMoves, FormerMoves DEF Divergence
  <1>4. Evident(a)' /\ VerifiedOf(a)' /\ \A e \in Execution : BatchOf(e, a)'
    BY <1>1, <1>2, CalmKeeps, RanKeeps, WroteKeeps, ProbedKeeps, RestoredKeeps DEF Outcome
  <1> QED
    BY <1>3, <1>4 DEF Divergence

\* Where nothing but changes and retries runs, no restore is forced and no worker outlasts its
\* lock, a secret of the account that is not the remote one always shows in a record of it.
THEOREM DivergenceShows == Spec => []NoSilentDivergence
  <1>1. Init => DeliveredInv /\ DivergenceInv
    <2>1. Init => DeliveredInv
      BY DEF Init, DeliveredInv, Delivered
    <2>2. ASSUME Init, NEW a \in Account
          PROVE  NoPush /\ Divergence(a)
      <3>1. acct[a] = [secret |-> InitSecret, version |-> 0, hist |-> InitSecret] /\ remote[a] = InitSecret
        BY <2>2 DEF Init
      <3>2. \A e \in Execution : /\ rec[e][a] = NoRecord /\ step[e][a] = "out" /\ exe[e].kind = "change"
                                 /\ loaded[e][a] = [secret |-> InitSecret, version |-> 0]
        BY <2>2 DEF Init
      <3>3. Former(acct[a], InitSecret, 0)
        BY <3>1 DEF Former
      <3> QED
        BY <3>1, <3>2, <3>3 DEF NoPush, Divergence, FormerOf, Evident, VerifiedOf, BatchOf, NoRecord
    <2>3. Init => NoPush
      BY DEF Init, NoPush
    <2> QED
      BY <2>1, <2>2, <2>3 DEF DivergenceInv
  <1>2. IInv /\ DivergenceInv => NoSilentDivergence
    BY DEF DivergenceInv, Plain, Divergence, Evident, Shows, Shown, TakenFrom, NoSilentDivergence
  <1>3. IInv /\ DeliveredInv /\ [Next]_vars => DeliveredInv'
    BY DeliveredNext DEF IInv
  <1> QED
    BY <1>1, <1>2, <1>3, DivergenceNext, Invariance, PTL DEF Spec

=============================================================================
