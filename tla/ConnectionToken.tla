-------------------------- MODULE ConnectionToken --------------------------
(***************************************************************************)
(* Connection tokens: a user asks for a token of an asset, an access rule  *)
(* may hold it back until a ticket is approved or a face is recognised,    *)
(* and a component exchanges it for the secret of the account.  A request  *)
(* reads the row, checks its copy and writes at its end; it locks nothing, *)
(* so the calls of different requests interleave between Read and the      *)
(* action that finishes them.  Time is counted in ticks.                   *)
(***************************************************************************)
EXTENDS Integers, FiniteSets

CONSTANTS
  Tokens,      \* primary keys of rows
  Calls,       \* requests under way at once
  NoToken,     \* no row, no ticket
  OneTime,     \* CONNECTION_TOKEN_ONETIME_EXPIRATION
  Reusable,    \* CONNECTION_TOKEN_REUSABLE_EXPIRATION, 0 when reuse is off
  Grace,       \* seconds after its creation a token is not checked again
  MaxTime      \* bound on the clock

Ops == {"secret", "renewal", "expire", "reuse", "exchange"}
Rules == {"accept", "ticket", "face"}
Row == [born: 0..MaxTime, expires: -1..(MaxTime + OneTime + Reusable), reusable: BOOLEAN,
        active: BOOLEAN, gate: Rules]

TokenAssumption ==
  /\ {OneTime, Grace, MaxTime} \subseteq Nat \ {0}
  /\ Reusable \in Nat
  /\ NoToken \notin Tokens \cup Row

VARIABLES
  row,      \* the table of tokens
  call,     \* what each request has read
  passed,   \* tokens whose ticket was approved or face recognised
  revoked,  \* when the permission was withdrawn; -1 while it stands
  used,     \* tokens a component has used up, until date_expired is written again
  now
vars == <<row, call, passed, revoked, used, now>>

Past == -1
Idle == [op |-> "idle"]
Copy == [op: Ops, token: Tokens, row: Row, fresh: BOOLEAN]

(* Rows and the copies requests hold of them; no row outlives the lifetime *)
(* the settings give it, however renewals and changes of reuse alternate.  *)
TypeOK ==
  /\ row \in [Tokens -> Row \cup {NoToken}]
  /\ call \in [Calls -> Copy \cup {Idle}]
  /\ passed \cup used \subseteq Tokens
  /\ revoked \in -1..MaxTime
  /\ now \in 0..MaxTime
  /\ \A t \in Tokens : row[t] # NoToken =>
       \/ row[t].expires <= now + OneTime
       \/ row[t].reusable /\ row[t].expires <= row[t].born + Reusable

Permed == revoked = -1
Rows == {t \in Tokens : row[t] # NoToken}
Live(r) == r.expires >= now
Finish(c) == call' = [call EXCEPT ![c] = Idle]
Put(t, r) == row' = [row EXCEPT ![t] = r]

----------------------------------------------------------------------------
(* A new row asks the access rule, which an administrator may have changed *)
(* since the last one; a row that must wait is inactive.                   *)
ActiveAsBefore(was, rule) == was
ActiveIf(was, rule) == was /\ rule = "accept"
NewRow(rule, reusable, was) ==
  [born |-> now, expires |-> now + OneTime, reusable |-> reusable, active |-> ActiveIf(was, rule),
   gate |-> rule]

(* The permission is looked up before the rule is applied; a rule that     *)
(* rejects, or that nobody asked to wait for, ends the request.            *)
MayAskUnpermed == TRUE
MayAsk == Permed

Create(t) ==
  /\ row[t] = NoToken /\ MayAsk
  /\ \E reusable \in BOOLEAN, rule \in Rules : Put(t, NewRow(rule, reusable, TRUE))
  /\ UNCHANGED <<call, passed, revoked, used, now>>

(* What a request demands of the copy it has just read. *)
AcceptsCopyForExpired(op, r) ==
  CASE op = "secret" -> r.active /\ Live(r)
    [] op \in {"expire", "reuse"} -> r.expires > now
    [] OTHER -> TRUE
Accepts(op, r) ==
  CASE op = "secret" -> r.active /\ Live(r)
    [] op \in {"expire", "reuse"} -> r.expires > now
    [] op = "renewal" -> Live(r)
    [] op = "exchange" -> TRUE

(* The copy is used for its other columns: its date_expired is always written. *)
Read(c, op, t) ==
  /\ call[c] = Idle /\ t \in Rows /\ Accepts(op, row[t])
  /\ call' = [call EXCEPT ![c] = [op |-> op, token |-> t, row |-> [row[t] EXCEPT !.expires = Past], fresh |-> t \notin used]]
  /\ UNCHANGED <<row, passed, revoked, used, now>>

(* date_expired becomes the present instant, which every later look at the *)
(* clock finds past; only that column is written.                          *)
ExpireWholeRow(r, copy) == [copy EXCEPT !.expires = Past]
ExpireNothing(r, copy) == r
ExpireRow(r, copy) == [r EXCEPT !.expires = Past]

(* The rest of is_valid, the decision to expire, and the answer. *)
Stays(r) == r.reusable /\ Reusable > 0
Secret(c) ==
  LET t == call[c].token  copy == call[c].row IN
  /\ call[c].op = "secret"
  /\ now - copy.born < Grace \/ Permed
  /\ \E expire_now \in BOOLEAN :
       IF Stays(copy) \/ ~expire_now
       THEN UNCHANGED <<row, used>>
       ELSE Put(t, ExpireRow(row[t], copy)) /\ used' = used \cup {t}
  /\ Finish(c)
  /\ UNCHANGED <<passed, revoked, now>>

(* renewal saves every column of the copy. *)
Renewal(c) ==
  LET t == call[c].token IN
  /\ call[c].op = "renewal"
  /\ Put(t, [call[c].row EXCEPT !.expires = now + OneTime])
  /\ used' = used \ {t}
  /\ Finish(c)
  /\ UNCHANGED <<passed, revoked, now>>

Expire(c) ==
  /\ call[c].op = "expire"
  /\ Put(call[c].token, ExpireRow(row[call[c].token], call[c].row))
  /\ Finish(c)
  /\ UNCHANGED <<passed, revoked, used, now>>

(* set_reusable counts from the creation of the token. *)
LastsUntil(r, b) == r.born + (IF b THEN Reusable ELSE OneTime)
Reuse(c) ==
  LET t == call[c].token IN
  /\ call[c].op = "reuse" /\ Reusable > 0
  /\ \E b \in BOOLEAN :
       Put(t, [row[t] EXCEPT !.reusable = b, !.expires = LastsUntil(call[c].row, b)])
  /\ used' = used \ {t}
  /\ Finish(c)
  /\ UNCHANGED <<passed, revoked, now>>

(* A copy under a new key, with the ticket of the old one when no new one  *)
(* is due: that column is unique, so the insert fails if there is any.     *)
Exchange(c, t) ==
  LET copy == call[c].row IN
  /\ call[c].op = "exchange" /\ row[t] = NoToken /\ MayAsk
  /\ \E rule \in Rules :
       /\ rule = "ticket" \/ copy.gate # "ticket"
       /\ Put(t, NewRow(rule, copy.reusable, copy.active))
  /\ Finish(c)
  /\ UNCHANGED <<passed, revoked, used, now>>

(* Any check that fails, and any failure of the database, ends a request. *)
Refuse(c) ==
  /\ call[c] # Idle /\ Finish(c)
  /\ UNCHANGED <<row, passed, revoked, used, now>>

----------------------------------------------------------------------------
(* The last step of the ticket is approved, or the face service calls back *)
(* with a face of the user: both write is_active and nothing else.         *)
Activate(t, gate) ==
  /\ t \in Rows \ passed /\ row[t].gate = gate
  /\ passed' = passed \cup {t}
  /\ Put(t, [row[t] EXCEPT !.active = TRUE])
  /\ UNCHANGED <<call, revoked, used, now>>
Approve(t) == Activate(t, "ticket")
FaceVerified(t) == Activate(t, "face")

Revoke ==
  /\ Permed /\ revoked' = now
  /\ UNCHANGED <<row, call, passed, used, now>>
Tick ==
  /\ now < MaxTime /\ now' = now + 1
  /\ UNCHANGED <<row, call, passed, revoked, used>>

Init ==
  /\ row = [t \in Tokens |-> NoToken] /\ call = [c \in Calls |-> Idle]
  /\ passed = {} /\ used = {} /\ revoked = -1 /\ now = 0

Next ==
  \/ \E t \in Tokens : Create(t) \/ Approve(t) \/ FaceVerified(t)
  \/ \E c \in Calls, op \in Ops, t \in Tokens : Read(c, op, t)
  \/ \E c \in Calls : Secret(c) \/ Renewal(c) \/ Expire(c) \/ Reuse(c) \/ Refuse(c)
  \/ \E c \in Calls, t \in Tokens : Exchange(c, t)
  \/ Revoke \/ Tick

Spec == Init /\ [][Next]_vars

----------------------------------------------------------------------------
(* A row that may be used has been let through: its rule asked for nothing *)
(* when it was made, or its own ticket or face check has passed.  The copy *)
(* exchange makes of an approved token must wait for an approval of its    *)
(* own (_validate sets is_active before the row is saved).                 *)
GatePassed ==
  \A t \in Rows : row[t].active => row[t].gate = "accept" \/ t \in passed

(* No secret is given a grace period after the permission was withdrawn:   *)
(* the checks skip a young token, but neither exchange nor renewal makes a *)
(* token young that the permission no longer covers.                       *)
GivenInTime == (\E c \in Calls : Secret(c)) => Permed \/ now < revoked + Grace
(* A token a component has used up is refused to every later request,      *)
(* until its date_expired is written again.                                *)
UsedIsDead == \A t \in used : ~Live(row[t])

(* That writing is always by a request that had read the token before it   *)
(* was used: renewal and reuse refuse a token they see expired.            *)
RevivedByStale ==
  \A t \in used \ used' : \E c \in Calls : call[c] # Idle /\ call[c].token = t /\ call[c].fresh
(* An approval is undone only by a renewal that read the row before it.    *)
UndoneByRenewal ==
  \A t \in Rows : row[t].active /\ ~row'[t].active
    => \E c \in Calls : call[c].op = "renewal" /\ call[c].token = t /\ ~call[c].row.active
============================================================================
