------------------------- MODULE SupplementsProofs -------------------------
(***************************************************************************)
(* Supplement plans, for every plan and any number of tickets, requests,   *)
(* routes and crashes: what runs was asked for.                            *)
(*                                                                         *)
(* Steps are cancelled by many: groups that are cancelled, expire or are   *)
(* recovered, routes with and without the lock, and the check of a ticket  *)
(* that is about to begin.  What they have in common is said once          *)
(* (Narrows), with what it leaves of a ticket that waits (NarrowsKeeps).   *)
(***************************************************************************)
EXTENDS Supplements, TLAPS

-----------------------------------------------------------------------------
GroupType == [Groups -> [st : {"none", "active", "cancelling", "cancelled", "completed"},
                         print : {0, 1}]]
StepType == [Steps -> [st : {"none", "pending", "queued", "finished", "cancelled"},
                       ticket : Tickets \cup {0}]]
RowType == [Tickets -> {"none", "queued", "running", "ended"}]

Typed ==
  /\ group \in GroupType /\ step \in StepType /\ row \in RowType
  /\ own \subseteq Tickets /\ slot \in Tickets \cup {0} /\ config \in {0, 1}
  /\ busy.by = "submit" => busy.req \in Requests /\ busy.to \in Tickets
  /\ busy.by = "promote" => busy.ticket \in Tickets

(* A step has no ticket before it is queued, one that has a ticket has a   *)
(* group, and it is finished by the end of its ticket.                     *)
Rides(s) ==
  /\ step[s].st \in {"none", "pending"} => step[s].ticket = 0
  /\ step[s].ticket # 0 => group[s[1]].st # "none"
  /\ step[s].st = "finished" => step[s].ticket # 0 /\ row[step[s].ticket] = "ended"

(* Somebody wants the ticket.                                              *)
Wanted(t) == t \in own \/ \E s \in Steps : step[s].ticket = t /\ step[s].st = "queued"

(* A submission that was read under the lock and not yet written: its step *)
(* has no ticket, whatever the unlocked clear made of it.                  *)
Joining ==
  busy.by = "submit" /\ busy.req # <<>> =>
    step[busy.req].ticket = 0 /\ group[busy.req[1]].st # "none"

OneWaits == \A t, u \in Tickets : row[t] = "queued" /\ row[u] = "queued" => t = u

SInv ==
  /\ Typed /\ OneWaits /\ Joining
  /\ \A s \in Steps : Rides(s)
  /\ \A t \in Tickets : row[t] \in {"queued", "running"} => Wanted(t)

-----------------------------------------------------------------------------
(* The helpers of the model, by what they do to one row.                   *)
LEMMA StepsHaveGroups == \A s \in Steps : s[1] \in Groups
  BY DEF Steps

LEMMA TargetIsTicket ==
  ASSUME slot \in Tickets \cup {0}
  PROVE  Target \in Tickets \cup {0} /\ (Target = 0 => Queued = {})
<1>1. Queued # {} => (CHOOSE t \in Queued : TRUE) \in Queued
  OBVIOUS
<1>2. Queued \subseteq Tickets /\ 0 \notin Tickets
  BY DEF Queued, Tickets
<1> QED  BY <1>1, <1>2 DEF Target

(* A step that is struck had not begun: it waited for its time, or at a    *)
(* ticket that waits.                                                      *)
LEMMA StruckFacts ==
  ASSUME NEW gs, NEW st \in StepType
  PROVE  /\ Struck(gs, st) \in StepType
         /\ \A s \in Steps :
              /\ Struck(gs, st)[s].ticket = st[s].ticket
              /\ \/ Struck(gs, st)[s] = st[s]
                 \/ /\ Struck(gs, st)[s].st = "cancelled"
                    /\ \/ st[s].st = "pending"
                       \/ st[s].st = "queued" /\ row[st[s].ticket] = "queued"
         /\ gs = {} => Struck(gs, st) = st
<1>1. ASSUME NEW s \in Steps
      PROVE  /\ Struck(gs, st)[s] \in {st[s], [st[s] EXCEPT !.st = "cancelled"]}
             /\ \/ Struck(gs, st)[s] = st[s]
                \/ st[s].st = "pending"
                \/ st[s].st = "queued" /\ row[st[s].ticket] = "queued"
             /\ gs = {} => Struck(gs, st)[s] = st[s]
  BY <1>1 DEF Struck
<1>2. ASSUME NEW s \in Steps
      PROVE  [st[s] EXCEPT !.st = "cancelled"].st = "cancelled"
             /\ [st[s] EXCEPT !.st = "cancelled"].ticket = st[s].ticket
             /\ [st[s] EXCEPT !.st = "cancelled"]
                  \in [st : {"none", "pending", "queued", "finished", "cancelled"},
                       ticket : Tickets \cup {0}]
  BY <1>2 DEF StepType
<1>3. Struck(gs, st) = [s \in Steps |-> Struck(gs, st)[s]]
  BY DEF Struck
<1>4. st = [s \in Steps |-> st[s]]
  BY DEF StepType
<1>5. Struck(gs, st) \in StepType
  <2>1. \A s \in Steps : Struck(gs, st)[s]
          \in [st : {"none", "pending", "queued", "finished", "cancelled"},
               ticket : Tickets \cup {0}]
    BY <1>1, <1>2 DEF StepType
  <2> QED  BY <1>3, <2>1 DEF StepType
<1>6. gs = {} => Struck(gs, st) = st
  BY <1>1, <1>3, <1>4
<1> QED  BY <1>1, <1>2, <1>5, <1>6

(* A ticket that is revoked waited, and nobody wants it any more.          *)
LEMMA RevokedFacts ==
  ASSUME row \in RowType, NEW st
  PROVE  /\ Revoked(st) \in RowType
         /\ \A t \in Tickets :
              /\ Revoked(st)[t] = row[t] \/ (row[t] = "queued" /\ Revoked(st)[t] = "ended")
              /\ Revoked(st)[t] = "queued" =>
                   \/ t \in own \/ Riders(t) = {}
                   \/ \E s \in Riders(t) : st[s].st # "cancelled"
<1>1. ASSUME NEW t \in Tickets
      PROVE  /\ Revoked(st)[t] = row[t] \/ (row[t] = "queued" /\ Revoked(st)[t] = "ended")
             /\ Revoked(st)[t] = "queued" =>
                  \/ t \in own \/ Riders(t) = {}
                  \/ \E s \in Riders(t) : st[s].st # "cancelled"
  <2>1. CASE row[t] = "queued" /\ t \notin own /\ Riders(t) # {}
             /\ \A s \in Riders(t) : st[s].st = "cancelled"
    <3>1. Revoked(st)[t] = "ended"
      BY <2>1 DEF Revoked
    <3> QED  BY <2>1, <3>1
  <2>2. CASE ~(row[t] = "queued" /\ t \notin own /\ Riders(t) # {}
               /\ \A s \in Riders(t) : st[s].st = "cancelled")
    <3>1. Revoked(st)[t] = row[t]
      BY <2>2 DEF Revoked
    <3> QED  BY <2>2, <3>1
  <2> QED  BY <2>1, <2>2
<1>2. Revoked(st) \in RowType
  BY <1>1 DEF Revoked, RowType
<1> QED  BY <1>1, <1>2

(* Settling ends groups, and makes none.                                   *)
LEMMA SettledFacts ==
  ASSUME NEW gr \in GroupType, NEW st
  PROVE  /\ Settled(gr, st) \in GroupType
         /\ \A g \in Groups : Settled(gr, st)[g].st = "none" <=> gr[g].st = "none"
<1>1. ASSUME NEW g \in Groups
      PROVE  /\ Settled(gr, st)[g].st = "none" <=> gr[g].st = "none"
             /\ Settled(gr, st)[g] \in
                  [st : {"none", "active", "cancelling", "cancelled", "completed"},
                   print : {0, 1}]
  <2>1. \/ Settled(gr, st)[g] = gr[g]
        \/ /\ gr[g].st \in {"active", "cancelling"}
           /\ \E e \in {"completed", "cancelled"} :
               Settled(gr, st)[g] = [gr[g] EXCEPT !.st = e]
    BY DEF Settled
  <2> QED  BY <2>1 DEF GroupType
<1> QED  BY <1>1 DEF Settled, GroupType

(* So does cancelling them.                                                *)
Cancelling(gs, gr) ==
  [g \in Groups |-> IF g \in gs THEN [gr[g] EXCEPT !.st = "cancelling"] ELSE gr[g]]

LEMMA CancellingFacts ==
  ASSUME NEW gs, NEW gr \in GroupType
  PROVE  /\ Cancelling(gs, gr) \in GroupType
         /\ \A g \in Groups : Cancelling(gs, gr)[g].st = "none" => gr[g].st = "none"
  BY DEF Cancelling, GroupType

(* A step of a ticket that waits or runs is queued, or was cancelled.      *)
LEMMA RiderFacts ==
  ASSUME Typed, NEW s \in Steps, Rides(s), NEW t \in Tickets,
         step[s].ticket = t, row[t] \in {"queued", "running"}
  PROVE  step[s].st \in {"queued", "cancelled"}
<1>1. t # 0
  BY DEF Tickets
<1>2. step[s].st \in {"none", "pending", "queued", "finished", "cancelled"}
  BY DEF Typed, StepType
<1> QED  BY <1>1, <1>2 DEF Rides

-----------------------------------------------------------------------------
(* What cancellations, checks and ends have in common: tickets end and     *)
(* steps are cancelled or finished, but not those of a ticket that goes on *)
(* to run, and whoever still waits is wanted.                              *)
Narrows ==
  /\ Typed' /\ own' = own
  /\ busy' = busy \/ busy'.by # "submit"
  /\ \A g \in Groups : group'[g].st = "none" => group[g].st = "none"
  /\ \A t \in Tickets : row'[t] = row[t] \/ row'[t] = "ended"
  /\ \A s \in Steps :
       /\ step'[s].ticket = step[s].ticket
       /\ step'[s].st \in {step[s].st, "cancelled", "finished"}
       /\ step'[s].st = "finished" =>
            step[s].ticket # 0 /\ row'[step[s].ticket] = "ended"
       /\ \A t \in Tickets : step[s].ticket = t /\ row'[t] = "running" =>
            step'[s].st = step[s].st
  /\ \A t \in Tickets : row'[t] = "queued" => Wanted(t)'

LEMMA NarrowsKeeps ==
  ASSUME SInv, Narrows
  PROVE  SInv'
<1>1. OneWaits'
  BY DEF SInv, OneWaits, Narrows
<1>2. Joining'
  <2> SUFFICES ASSUME busy'.by = "submit", busy'.req # <<>>
               PROVE  step'[busy'.req].ticket = 0 /\ group'[busy'.req[1]].st # "none"
    BY DEF Joining
  <2>1. busy' = busy
    BY DEF Narrows
  <2>2. busy.req \in Steps
    BY <2>1 DEF SInv, Typed, Requests
  <2> QED  BY <2>1, <2>2, StepsHaveGroups DEF SInv, Joining, Narrows
<1>3. ASSUME NEW s \in Steps PROVE Rides(s)'
  BY <1>3, StepsHaveGroups DEF SInv, Rides, Narrows
<1>4. ASSUME NEW t \in Tickets, row'[t] \in {"queued", "running"} PROVE Wanted(t)'
  <2>1. CASE row'[t] = "running"
    <3>1. row[t] = "running"
      BY <2>1 DEF Narrows
    <3> QED  BY <2>1, <3>1 DEF SInv, Narrows, Wanted
  <2> QED  BY <1>4, <2>1 DEF Narrows
<1> QED  BY <1>1, <1>2, <1>3, <1>4 DEF SInv, Narrows

(* Steps are cancelled that had not begun, and with them the tickets that  *)
(* nobody wants any more.                                                  *)
Spares(st) ==
  /\ st \in StepType
  /\ \A s \in Steps :
       /\ st[s].ticket = step[s].ticket
       /\ \/ st[s].st = step[s].st
          \/ /\ st[s].st = "cancelled"
             /\ step[s].ticket = 0 \/ row[step[s].ticket] = "queued"

LEMMA StruckSpares ==
  ASSUME SInv, NEW gs, NEW st, Spares(st)
  PROVE  Spares(Struck(gs, st))
<1>1. \A s \in Steps : step[s].st = "pending" => step[s].ticket = 0
  BY DEF SInv, Rides
<1> QED  BY <1>1, StruckFacts DEF Spares

LEMMA NothingSpares ==
  ASSUME SInv
  PROVE  Spares(step)
  BY DEF SInv, Typed, Spares

LEMMA RevokedWants ==
  ASSUME SInv, NEW st, Spares(st), NEW t \in Tickets, Revoked(st)[t] = "queued"
  PROVE  t \in own \/ \E s \in Steps : step[s].ticket = t /\ st[s].st = "queued"
<1>1. row[t] = "queued"
  BY RevokedFacts DEF SInv, Typed
<1>2. Wanted(t)
  BY <1>1 DEF SInv
<1>3. CASE t \notin own
  <2>1. Riders(t) # {}
    BY <1>2, <1>3 DEF Wanted, Riders
  <2>2. PICK s \in Riders(t) : st[s].st # "cancelled"
    BY <1>3, <2>1, RevokedFacts DEF SInv, Typed
  <2>3. s \in Steps /\ step[s].ticket = t /\ st[s].st = step[s].st
    BY <2>2 DEF Riders, Spares
  <2>4. step[s].st \in {"queued", "cancelled"}
    BY <1>1, <2>3, RiderFacts DEF SInv
  <2> QED  BY <2>2, <2>3, <2>4
<1> QED  BY <1>3

(* The pattern of most of them.                                            *)
LEMMA RevokingKeeps ==
  ASSUME SInv, NEW st, Spares(st), step' = st, row' = Revoked(st),
         Typed', own' = own, busy' = busy \/ busy'.by # "submit",
         \A g \in Groups : group'[g].st = "none" => group[g].st = "none"
  PROVE  SInv'
<1>1. /\ row' \in RowType
      /\ \A t \in Tickets :
           row'[t] = row[t] \/ (row[t] = "queued" /\ row'[t] = "ended")
  BY RevokedFacts DEF SInv, Typed
<1>2. ASSUME NEW s \in Steps
      PROVE  /\ step'[s].ticket = step[s].ticket
             /\ step'[s].st \in {step[s].st, "cancelled", "finished"}
             /\ step'[s].st = "finished" =>
                  step[s].ticket # 0 /\ row'[step[s].ticket] = "ended"
             /\ \A t \in Tickets : step[s].ticket = t /\ row'[t] = "running" =>
                  step'[s].st = step[s].st
  <2>1. step[s].ticket \in Tickets \cup {0} /\ 0 \notin Tickets
    BY DEF SInv, Typed, StepType, Tickets
  <2>2. step'[s].st = "finished" => step[s].st = "finished"
    BY DEF Spares
  <2> QED  BY <1>1, <2>1, <2>2 DEF Spares, SInv, Rides
<1>3. ASSUME NEW t \in Tickets, row'[t] = "queued" PROVE Wanted(t)'
  BY <1>3, RevokedWants DEF Spares, Wanted
<1>4. Narrows
  BY <1>1, <1>2, <1>3 DEF Narrows
<1> QED  BY <1>4, NarrowsKeeps

-----------------------------------------------------------------------------
(* The actions.                                                            *)
LEMMA InitKeeps == Init => SInv
<1> SUFFICES ASSUME Init PROVE SInv
  OBVIOUS
<1>1. Typed
  BY DEF Init, Typed, GroupType, StepType, RowType, Free
<1>2. OneWaits /\ Joining /\ (\A s \in Steps : Rides(s))
      /\ \A t \in Tickets : row[t] \in {"queued", "running"} => Wanted(t)
  BY DEF Init, OneWaits, Joining, Rides, Free
<1> QED  BY <1>1, <1>2 DEF SInv

(* What stays as it is keeps what is said of it.                           *)
LEMMA SameKeeps ==
  ASSUME SInv, UNCHANGED <<group, step, row, own>>, slot' \in Tickets \cup {0},
         config' \in {0, 1}, busy' = busy \/ busy'.by \notin {"submit", "promote"}
  PROVE  SInv'
  BY DEF SInv, Typed, Requests, OneWaits, Joining, Rides, Wanted

(* The steps of a new group have no ticket yet.                            *)
LEMMA CreateGroupKeeps ==
  ASSUME SInv, NEW g \in Groups, CreateGroup(g)
  PROVE  SInv'
<1> USE DEF CreateGroup, account
<1>1. \A s \in Steps : s[1] = g => step[s].ticket = 0
  BY DEF SInv, Rides
<1>2. \A s \in Steps :
        /\ step'[s].ticket = step[s].ticket
        /\ step'[s].st = IF s[1] = g THEN "pending" ELSE step[s].st
        /\ step'[s] \in [st : {"none", "pending", "queued", "finished", "cancelled"},
                         ticket : Tickets \cup {0}]
  BY DEF SInv, Typed, StepType
<1>3. step' \in StepType
  BY <1>2 DEF StepType
<1>4. /\ group' \in GroupType
      /\ \A h \in Groups : group'[h].st = "none" => group[h].st = "none"
  BY DEF SInv, Typed, GroupType
<1>5. Typed'
  BY <1>3, <1>4 DEF SInv, Typed, RowType
<1>6. OneWaits' /\ Joining'
  BY <1>2, <1>4, StepsHaveGroups DEF SInv, OneWaits, Joining, Typed, Requests
<1>7. \A s \in Steps : Rides(s)'
  BY <1>1, <1>2, <1>4, StepsHaveGroups DEF SInv, Rides
<1>8. \A t \in Tickets : row'[t] \in {"queued", "running"} => Wanted(t)'
  <2>1. \A t \in Tickets, s \in Steps : step[s].ticket = t => s[1] # g
    BY <1>1 DEF Tickets
  <2> QED  BY <1>2, <2>1 DEF SInv, Wanted
<1> QED  BY <1>5, <1>6, <1>7, <1>8 DEF SInv

(* A new ticket belongs to the request or the step that made it.           *)
LEMMA InsertKeeps ==
  ASSUME SInv, NEW req \in Requests, NEW t \in Tickets, Insert(req, t)
  PROVE  SInv'
<1> USE DEF Insert, LockFree, account
<1>1. Queued = {} /\ row[t] = "none" /\ busy.by = "nobody"
  BY TargetIsTicket DEF SInv, Typed, Unused, Free
<1>2. row' = [row EXCEPT ![t] = "queued"] /\ row' \in RowType
  BY DEF SInv, Typed, RowType
<1>3. \A u \in Tickets : u # t => row'[u] = row[u] /\ row[u] # "queued"
  BY <1>1, <1>2 DEF SInv, Typed, RowType, Queued
<1>4. OneWaits' /\ Joining'
  BY <1>1, <1>3 DEF OneWaits, Joining, Free
<1>5. CASE req = <<>>
  <2>1. own' = own \cup {t} /\ UNCHANGED <<step, group>>
    BY <1>5
  <2>2. Typed'
    BY <1>1, <1>2, <2>1 DEF SInv, Typed
  <2>3. \A s \in Steps : Rides(s)'
    BY <1>1, <1>3, <2>1 DEF SInv, Rides, Typed, StepType
  <2>4. \A u \in Tickets : row'[u] \in {"queued", "running"} => Wanted(u)'
    BY <1>3, <2>1 DEF SInv, Wanted
  <2> QED  BY <1>4, <2>2, <2>3, <2>4 DEF SInv
<1>6. CASE req # <<>>
  <2>1. /\ own' = own /\ group' = group /\ req \in Steps
        /\ step[req].st = "pending" /\ group[req[1]].st = "active"
        /\ step' = [step EXCEPT ![req] = [st |-> "queued", ticket |-> t]]
    BY <1>6 DEF Requests, IsRunnable, IsValid
  <2>2. step' \in StepType
    BY <2>1 DEF SInv, Typed, StepType
  <2>3. /\ step'[req].st = "queued" /\ step'[req].ticket = t
        /\ \A s \in Steps : s # req => step'[s] = step[s]
    BY <2>1 DEF SInv, Typed, StepType
  <2>4. Typed'
    BY <1>1, <1>2, <2>1, <2>2 DEF SInv, Typed
  <2>5. \A s \in Steps : Rides(s)'
    BY <1>1, <1>3, <2>1, <2>3 DEF SInv, Rides, Typed, StepType
  <2>6. \A u \in Tickets : row'[u] \in {"queued", "running"} => Wanted(u)'
    BY <1>3, <2>1, <2>3 DEF SInv, Wanted
  <2> QED  BY <1>4, <2>4, <2>5, <2>6 DEF SInv
<1> QED  BY <1>5, <1>6

LEMMA CoalesceKeeps ==
  ASSUME SInv, NEW req \in Requests, Coalesce(req)
  PROVE  SInv'
<1> USE DEF Coalesce, account
<1>1. /\ busy'.by = "submit" /\ busy'.req = req /\ busy'.to = Target
      /\ Target \in Tickets
  BY TargetIsTicket DEF SInv, Typed
<1>2. Joining'
  BY <1>1 DEF SInv, Joining, Rides, IsRunnable, IsValid, Requests
<1>3. Typed'
  BY <1>1 DEF SInv, Typed
<1> QED  BY <1>2, <1>3 DEF SInv, OneWaits, Rides, Wanted

(* A step that is attached had no ticket: no other ticket loses it.        *)
LEMMA AttachKeeps ==
  ASSUME SInv, Attach
  PROVE  SInv'
<1> USE DEF Attach, account
<1>1. busy'.by = "nobody" /\ busy.req \in Requests /\ busy.to \in Tickets
  BY DEF Free, SInv, Typed
<1>2. OneWaits' /\ Joining'
  BY <1>1 DEF SInv, OneWaits, Joining
<1>5. CASE busy.req = <<>>
  <2>1. own' = own \cup {busy.to} /\ step' = step
    BY <1>5
  <2>2. Typed'
    BY <1>1, <2>1 DEF SInv, Typed
  <2> QED  BY <1>2, <2>1, <2>2 DEF SInv, Rides, Wanted
<1>6. CASE busy.req # <<>>
  <2>1. /\ own' = own /\ busy.req \in Steps
        /\ step[busy.req].ticket = 0 /\ group[busy.req[1]].st # "none"
        /\ step' = [step EXCEPT ![busy.req] = [st |-> "queued", ticket |-> busy.to]]
    BY <1>1, <1>6 DEF Requests, SInv, Joining
  <2>2. step' \in StepType
    BY <1>1, <2>1 DEF SInv, Typed, StepType
  <2>3. /\ step'[busy.req].st = "queued" /\ step'[busy.req].ticket = busy.to
        /\ \A s \in Steps : s # busy.req => step'[s] = step[s]
    BY <2>1 DEF SInv, Typed, StepType
  <2>4. Typed'
    BY <1>1, <2>1, <2>2 DEF SInv, Typed
  <2>5. \A s \in Steps : Rides(s)'
    BY <2>1, <2>3 DEF SInv, Rides
  <2>6. \A u \in Tickets : row'[u] \in {"queued", "running"} => Wanted(u)'
    <3>1. ASSUME NEW u \in Tickets, NEW s \in Steps, step[s].ticket = u, step[s].st = "queued"
          PROVE  step'[s].ticket = u /\ step'[s].st = "queued"
      <4>1. s # busy.req
        BY <2>1, <3>1 DEF Tickets
      <4> QED  BY <2>3, <3>1, <4>1
    <3> QED  BY <2>1, <3>1 DEF SInv, Wanted
  <2> QED  BY <1>2, <2>4, <2>5, <2>6 DEF SInv
<1> QED  BY <1>5, <1>6

(* The row is claimed only if it still waits, and then somebody wants it.  *)
LEMMA ClaimKeeps ==
  ASSUME SInv, Claim
  PROVE  SInv'
<1> USE DEF Claim, account
<1>1. busy'.by = "nobody" /\ busy.ticket \in Tickets
  BY DEF Free, SInv, Typed
<1>2. /\ row' \in RowType
      /\ \A t \in Tickets : \/ row'[t] = row[t]
                            \/ row[t] = "queued" /\ row'[t] = "running"
  BY <1>1 DEF SInv, Typed, RowType
<1>3. Typed' /\ OneWaits' /\ Joining'
  BY <1>1, <1>2 DEF SInv, Typed, OneWaits, Joining
<1>4. \A s \in Steps : Rides(s)'
  <2>1. \A s \in Steps : step[s].ticket \in Tickets \cup {0}
    BY DEF SInv, Typed, StepType
  <2> QED  BY <1>2, <2>1 DEF SInv, Rides
<1>5. \A t \in Tickets : row'[t] \in {"queued", "running"} => Wanted(t)'
  BY <1>2 DEF SInv, Wanted
<1> QED  BY <1>3, <1>4, <1>5 DEF SInv

(* Cancelling groups, by whoever does it.                                  *)
LEMMA CancelKeeps ==
  ASSUME SInv, NEW gs, Cancel(gs), own' = own, busy' = busy,
         slot' \in Tickets \cup {0}, config' \in {0, 1}
  PROVE  SInv'
<1> DEFINE st == Struck(gs, step)
           gr == Cancelling(gs, group)
<1>1. step' = st /\ row' = Revoked(st) /\ group' = Settled(gr, st)
  BY DEF Cancel, Cancelling
<1>2. Spares(st)
  BY NothingSpares, StruckSpares
<1>3. gr \in GroupType /\ \A g \in Groups : gr[g].st = "none" => group[g].st = "none"
  BY CancellingFacts DEF SInv, Typed
<1> HIDE DEF st, gr
<1>4. /\ group' \in GroupType
      /\ \A g \in Groups : group'[g].st = "none" => group[g].st = "none"
  BY <1>1, <1>3, SettledFacts
<1>5. row' \in RowType /\ step' \in StepType
  BY <1>1, <1>2, RevokedFacts DEF Spares, SInv, Typed
<1>6. Typed'
  BY <1>4, <1>5 DEF SInv, Typed, Requests
<1> QED  BY <1>1, <1>2, <1>4, <1>6, RevokingKeeps

(* A ticket ends with its steps.                                           *)
LEMMA FinishedFacts ==
  ASSUME NEW t \in Tickets, NEW st \in StepType
  PROVE  /\ Finished(t, st) \in StepType
         /\ \A s \in Steps :
              /\ Finished(t, st)[s].ticket = st[s].ticket
              /\ \/ Finished(t, st)[s].st = st[s].st
                 \/ s \in Riders(t) /\ Finished(t, st)[s].st = "finished"
              /\ s \in Riders(t) => Finished(t, st)[s].st \in {"finished", "cancelled"}
  BY DEF Finished, StepType

LEMMA FinishKeeps ==
  ASSUME SInv, NEW t \in Tickets, Finish(t), own' = own, busy' = busy,
         slot' \in Tickets \cup {0}, config' \in {0, 1}
  PROVE  SInv'
<1>1. /\ row' = [row EXCEPT ![t] = "ended"] /\ step' = Finished(t, step)
      /\ group' = Settled(group, step')
  BY DEF Finish
<1>2. row' \in RowType /\ row'[t] = "ended"
      /\ \A u \in Tickets : u # t => row'[u] = row[u]
  BY <1>1 DEF SInv, Typed, RowType
<1>3. /\ step' \in StepType
      /\ \A s \in Steps :
           /\ step'[s].ticket = step[s].ticket
           /\ step'[s].st = step[s].st \/ (step[s].ticket = t /\ step'[s].st = "finished")
  BY <1>1, FinishedFacts DEF SInv, Typed, Riders
<1>4. /\ group' \in GroupType
      /\ \A g \in Groups : group'[g].st = "none" => group[g].st = "none"
  BY <1>1, SettledFacts DEF SInv, Typed
<1>5. Typed'
  BY <1>2, <1>3, <1>4 DEF SInv, Typed, Requests
<1>6. ASSUME NEW s \in Steps
      PROVE  /\ step'[s].st = "finished" =>
                  step[s].ticket # 0 /\ row'[step[s].ticket] = "ended"
             /\ \A u \in Tickets : step[s].ticket = u /\ row'[u] = "running" =>
                  step'[s].st = step[s].st
  <2>1. step[s].ticket \in Tickets \cup {0} /\ 0 \notin Tickets
    BY DEF SInv, Typed, StepType, Tickets
  <2> QED  BY <1>2, <1>3, <2>1 DEF SInv, Rides
<1>7. ASSUME NEW u \in Tickets, row'[u] = "queued" PROVE Wanted(u)'
  <2>1. u # t /\ row[u] = "queued"
    BY <1>2, <1>7
  <2>2. Wanted(u)
    BY <2>1 DEF SInv
  <2> QED  BY <1>3, <2>1, <2>2 DEF Wanted
<1>8. Narrows
  BY <1>2, <1>3, <1>4, <1>5, <1>6, <1>7 DEF Narrows
<1> QED  BY <1>8, NarrowsKeeps

(* The check of a ticket keeps its valid steps queued and cancels the      *)
(* others, which it does only to a ticket that waits.                      *)
LEMMA CheckedSpares ==
  ASSUME SInv, NEW t \in Tickets, row[t] = "queued"
  PROVE  /\ Spares(Checked(t))
         /\ \A s \in Kept(t) : Checked(t)[s].st = "queued"
<1>1. \A s \in Riders(t) : step[s].st \in {"queued", "cancelled"}
  BY RiderFacts DEF SInv, Riders
<1>2. ASSUME NEW s \in Steps
      PROVE  /\ Checked(t)[s].ticket = step[s].ticket
             /\ \/ Checked(t)[s].st = step[s].st
                \/ Checked(t)[s].st = "cancelled" /\ s \in Riders(t)
             /\ s \in Kept(t) => Checked(t)[s].st = "queued"
             /\ Checked(t)[s] \in [st : {"none", "pending", "queued", "finished", "cancelled"},
                                   ticket : Tickets \cup {0}]
  <2>1. CASE s \notin Riders(t)
    BY <2>1 DEF Checked, Kept, SInv, Typed, StepType
  <2>2. CASE s \in Kept(t)
    <3>1. s \in Riders(t) /\ step[s].st = "queued"
      BY <1>1, <2>2 DEF Kept
    <3>2. Checked(t)[s] = [step[s] EXCEPT !.st = "queued"]
      BY <2>2, <3>1 DEF Checked
    <3> QED  BY <3>1, <3>2 DEF SInv, Typed, StepType
  <2>3. CASE s \in Riders(t) /\ s \notin Kept(t)
    <3>1. Checked(t)[s] = [step[s] EXCEPT !.st = "cancelled"]
      BY <2>3 DEF Checked
    <3> QED  BY <2>3, <3>1 DEF SInv, Typed, StepType
  <2> QED  BY <2>1, <2>2, <2>3
<1>3. Checked(t) \in StepType
  BY <1>2 DEF Checked, StepType
<1>4. Kept(t) \subseteq Steps /\ \A s \in Riders(t) : step[s].ticket = t
  BY DEF Kept, Riders
<1> QED  BY <1>2, <1>3, <1>4 DEF Spares

LEMMA ValidateKeeps ==
  ASSUME SInv, NEW t \in Tickets, Validate(t)
  PROVE  SInv'
<1> DEFINE gs == {s[1] : s \in Riders(t) \ Kept(t)} \cap Active
           st == Struck(gs, Checked(t))
           gr == Cancelling(gs, group)
<1>1. /\ row[t] = "queued" /\ busy.by = "nobody" /\ UNCHANGED <<own, config>>
      /\ step' = st
      /\ group' = IF gs = {} /\ HasRequest(t) THEN group ELSE Settled(gr, st)
      /\ IF HasRequest(t)
         THEN row' = (IF gs = {} THEN row ELSE Revoked(st)) /\ slot' = slot
              /\ busy' = [by |-> "promote", ticket |-> t]
         ELSE row' = [row EXCEPT ![t] = "ended"] /\ busy' = busy
              /\ slot' = (IF slot = t THEN 0 ELSE slot)
  BY DEF Validate, LockFree, Free, Cancelling, account
<1>2. /\ Spares(Checked(t)) /\ Spares(st)
      /\ gs = {} => st = Checked(t)
  BY <1>1, CheckedSpares, StruckSpares, StruckFacts DEF Spares
<1>3. gr \in GroupType /\ \A g \in Groups : gr[g].st = "none" => group[g].st = "none"
  BY CancellingFacts DEF SInv, Typed
<1> HIDE DEF st, gr
<1>4. /\ group' \in GroupType
      /\ \A g \in Groups : group'[g].st = "none" => group[g].st = "none"
  BY <1>1, <1>3, SettledFacts DEF SInv, Typed
<1>5. /\ row' \in RowType
      /\ \A u \in Tickets :
           row'[u] = row[u] \/ (row[u] = "queued" /\ row'[u] = "ended")
  <2>1. CASE HasRequest(t) /\ gs # {}
    BY <1>1, <2>1, RevokedFacts DEF SInv, Typed
  <2>2. CASE HasRequest(t) /\ gs = {}
    BY <1>1, <2>2 DEF SInv, Typed
  <2>3. CASE ~HasRequest(t)
    BY <1>1, <2>3 DEF SInv, Typed, RowType
  <2> QED  BY <2>1, <2>2, <2>3
<1>6. Typed' /\ busy'.by # "submit"
  BY <1>1, <1>2, <1>4, <1>5 DEF SInv, Typed, Spares
<1>7. ASSUME NEW s \in Steps
      PROVE  /\ step'[s].ticket = step[s].ticket
             /\ step'[s].st \in {step[s].st, "cancelled", "finished"}
             /\ step'[s].st = "finished" =>
                  step[s].ticket # 0 /\ row'[step[s].ticket] = "ended"
             /\ \A u \in Tickets : step[s].ticket = u /\ row'[u] = "running" =>
                  step'[s].st = step[s].st
  <2>1. step[s].ticket \in Tickets \cup {0} /\ 0 \notin Tickets
    BY DEF SInv, Typed, StepType, Tickets
  <2>2. step'[s].st = "finished" => step[s].st = "finished"
    BY <1>1, <1>2 DEF Spares
  <2> QED  BY <1>1, <1>2, <1>5, <2>1, <2>2 DEF Spares, SInv, Rides
<1>8. ASSUME NEW u \in Tickets, row'[u] = "queued" PROVE Wanted(u)'
  <2>1. row[u] = "queued" /\ u = t
    BY <1>1, <1>5, <1>8 DEF SInv, OneWaits
  <2>2. HasRequest(t)
    BY <1>1, <1>8, <2>1 DEF SInv, Typed, RowType
  <2>3. CASE gs # {}
    <3>1. Revoked(st)[t] = "queued"
      BY <1>1, <1>8, <2>1, <2>2, <2>3
    <3> QED  BY <1>1, <1>2, <2>1, <3>1, RevokedWants DEF Spares, Wanted
  <2>4. CASE gs = {} /\ t \notin own
    <3>1. Riders(t) # {}
      BY <1>1, <2>4 DEF SInv, Wanted, Riders
    <3>2. PICK s \in Kept(t) : TRUE
      BY <2>2, <2>4, <3>1 DEF HasRequest
    <3>3. Checked(t)[s].st = "queued" /\ s \in Steps /\ step[s].ticket = t
      BY <1>1, <3>2, CheckedSpares DEF Kept, Riders
    <3> QED  BY <1>1, <1>2, <1>7, <2>1, <2>4, <3>3 DEF Wanted
  <2>5. CASE t \in own
    BY <1>1, <2>1, <2>5 DEF Wanted
  <2> QED  BY <2>3, <2>4, <2>5
<1>9. Narrows
  BY <1>1, <1>4, <1>5, <1>6, <1>7, <1>8 DEF Narrows
<1> QED  BY <1>9, NarrowsKeeps

(* The end of a run while the market is closed for all: its steps are      *)
(* finished before those of its groups are struck.                         *)
LEMMA EndClosedKeeps ==
  ASSUME SInv, NEW t \in Tickets, EndClosed(t)
  PROVE  SInv'
<1> DEFINE st  == Finished(t, step)
           mid == Settled(group, st)
           gs  == {g \in {s[1] : s \in Riders(t)} : mid[g].st = "active"}
           all == Struck(gs, st)
           gr  == Cancelling(gs, mid)
<1>1. /\ row[t] = "running" /\ UNCHANGED <<own, slot, config, busy>>
      /\ step' = all /\ row' = [Revoked(all) EXCEPT ![t] = "ended"]
      /\ group' = Settled(gr, all)
  BY DEF EndClosed, Cancelling, account, memory
<1>2. st \in StepType
  BY FinishedFacts DEF SInv, Typed
<1>3. /\ gr \in GroupType
      /\ \A g \in Groups : gr[g].st = "none" => group[g].st = "none"
  BY SettledFacts, CancellingFacts DEF SInv, Typed
<1>4. /\ all \in StepType
      /\ \A s \in Steps :
           /\ all[s].ticket = step[s].ticket
           /\ \/ all[s].st = step[s].st /\ step[s].ticket # t
              \/ step[s].ticket = t /\ all[s].st \in {"finished", "cancelled"}
              \/ /\ all[s].st = "cancelled"
                 /\ step[s].st = "pending" \/ row[step[s].ticket] = "queued"
  BY <1>2, FinishedFacts, StruckFacts DEF SInv, Typed, Riders
<1> HIDE DEF all, gr
<1>5. /\ row' \in RowType /\ row'[t] = "ended"
      /\ \A u \in Tickets : u # t => row'[u] = Revoked(all)[u]
      /\ \A u \in Tickets : row'[u] = row[u] \/ row'[u] = "ended"
      /\ \A u \in Tickets : row'[u] # "ended" => row'[u] = row[u]
  BY <1>1, RevokedFacts DEF SInv, Typed, RowType
<1>6. /\ group' \in GroupType
      /\ \A g \in Groups : group'[g].st = "none" => group[g].st = "none"
  BY <1>1, <1>3, SettledFacts
<1>7. Typed'
  BY <1>1, <1>4, <1>5, <1>6 DEF SInv, Typed, Requests
<1>8. ASSUME NEW s \in Steps
      PROVE  /\ step'[s].ticket = step[s].ticket
             /\ step'[s].st \in {step[s].st, "cancelled", "finished"}
             /\ step'[s].st = "finished" =>
                  step[s].ticket # 0 /\ row'[step[s].ticket] = "ended"
             /\ \A u \in Tickets : step[s].ticket = u /\ row'[u] = "running" =>
                  step'[s].st = step[s].st
  <2>1. /\ step[s].ticket \in Tickets \cup {0} /\ 0 \notin Tickets
        /\ step[s].st = "pending" => step[s].ticket = 0
    BY DEF SInv, Typed, StepType, Tickets, Rides
  <2> QED  BY <1>1, <1>4, <1>5, <2>1 DEF SInv, Rides
<1>9. ASSUME NEW u \in Tickets, row'[u] = "queued" PROVE Wanted(u)'
  <2>1. u # t /\ row[u] = "queued" /\ Revoked(all)[u] = "queued"
    BY <1>5, <1>9
  <2>2. Wanted(u)
    BY <2>1 DEF SInv
  <2>3. CASE u \notin own
    <3>1. Riders(u) # {}
      BY <2>2, <2>3 DEF Wanted, Riders
    <3>2. PICK s \in Riders(u) : all[s].st # "cancelled"
      BY <2>1, <2>3, <3>1, RevokedFacts DEF SInv, Typed
    <3>3. s \in Steps /\ step[s].ticket = u /\ all[s].st = step[s].st
      BY <1>4, <2>1, <3>2 DEF Riders
    <3>4. step[s].st \in {"queued", "cancelled"}
      BY <2>1, <3>3, RiderFacts DEF SInv
    <3> QED  BY <1>1, <1>4, <3>2, <3>3, <3>4 DEF Wanted
  <2>4. CASE u \in own
    BY <1>1, <2>4 DEF Wanted
  <2> QED  BY <2>3, <2>4
<1>10. Narrows
  BY <1>1, <1>5, <1>6, <1>7, <1>8, <1>9 DEF Narrows
<1> QED  BY <1>10, NarrowsKeeps

(* Terminate ends the tickets that wait for a request of their own, with   *)
(* the steps that share them.                                              *)
LEMMA TerminateKeeps ==
  ASSUME SInv, Terminate
  PROVE  SInv'
<1> DEFINE st == Struck(Active, step)
           left == {t \in Queued : Revoked(st)[t] = "queued"}
           fin == [s \in Steps |-> IF step[s].ticket \in left /\ st[s].st # "cancelled"
                                   THEN [st[s] EXCEPT !.st = "finished"] ELSE st[s]]
           gr == Cancelling(Active, group)
<1>1. /\ step' = fin /\ group' = Settled(gr, fin)
      /\ row' = [t \in Tickets |-> IF t \in left THEN "ended" ELSE Revoked(st)[t]]
      /\ UNCHANGED <<own, config, busy>> /\ slot' \in {0, slot}
  BY DEF Terminate, Cancelling, account, memory, Reap
<1>2. Spares(st)
  BY NothingSpares, StruckSpares
<1>3. gr \in GroupType /\ \A g \in Groups : gr[g].st = "none" => group[g].st = "none"
  BY CancellingFacts DEF SInv, Typed
<1>4. left \subseteq Tickets /\ \A t \in left : row[t] = "queued"
  BY DEF Queued
<1>5. ASSUME NEW s \in Steps
      PROVE  /\ fin[s].ticket = step[s].ticket
             /\ fin[s] \in [st : {"none", "pending", "queued", "finished", "cancelled"},
                            ticket : Tickets \cup {0}]
             /\ \/ fin[s].st = st[s].st
                \/ step[s].ticket \in left /\ fin[s].st = "finished"
  <2>1. st[s] \in [st : {"none", "pending", "queued", "finished", "cancelled"},
                   ticket : Tickets \cup {0}]
        /\ st[s].ticket = step[s].ticket
    BY <1>2 DEF Spares, StepType
  <2>2. \/ fin[s] = st[s]
        \/ step[s].ticket \in left /\ fin[s] = [st[s] EXCEPT !.st = "finished"]
    OBVIOUS
  <2> QED  BY <2>1, <2>2
<1>6. fin \in StepType
  BY <1>5 DEF StepType
<1> HIDE DEF st, fin, gr
<1>7. /\ row' \in RowType
      /\ \A t \in Tickets : /\ row'[t] \in {row[t], "ended"} /\ row'[t] # "queued"
                            /\ t \in left => row'[t] = "ended"
  BY <1>1, RevokedFacts DEF SInv, Typed, RowType, Queued
<1>8. /\ group' \in GroupType
      /\ \A g \in Groups : group'[g].st = "none" => group[g].st = "none"
  BY <1>1, <1>3, SettledFacts
<1>9. Typed'
  BY <1>1, <1>6, <1>7, <1>8 DEF SInv, Typed, Requests
<1>10. ASSUME NEW s \in Steps
      PROVE  /\ step'[s].ticket = step[s].ticket
             /\ step'[s].st \in {step[s].st, "cancelled", "finished"}
             /\ step'[s].st = "finished" =>
                  step[s].ticket # 0 /\ row'[step[s].ticket] = "ended"
             /\ \A u \in Tickets : step[s].ticket = u /\ row'[u] = "running" =>
                  step'[s].st = step[s].st
  <2>1. step[s].ticket \in Tickets \cup {0} /\ 0 \notin Tickets
    BY DEF SInv, Typed, StepType, Tickets
  <2>2. /\ st[s].st = "finished" => step[s].st = "finished"
        /\ st[s].st = step[s].st \/ st[s].st = "cancelled"
        /\ st[s].st = step[s].st \/ step[s].ticket = 0 \/ row[step[s].ticket] = "queued"
    BY <1>2 DEF Spares
  <2> QED  BY <1>1, <1>4, <1>5, <1>7, <2>1, <2>2 DEF SInv, Rides
<1>11. Narrows
  BY <1>1, <1>7, <1>8, <1>9, <1>10 DEF Narrows
<1> QED  BY <1>11, NarrowsKeeps

(* Start-up cancels the steps that were missed, and their group if it is   *)
(* over; it looks at a ticket that waits as any cancellation does.         *)
LEMMA RecoverGroupKeeps ==
  ASSUME SInv, NEW g \in Groups, RecoverGroup(g)
  PROVE  SInv'
<1> DEFINE past == {s \in Missed(g) : step[s].st = "pending" \/ row[step[s].ticket] = "queued"}
           st == [s \in Steps |-> IF s \in past THEN [step[s] EXCEPT !.st = "cancelled"]
                                  ELSE step[s]]
           over == Last(g) \in Missed(g) \/ Expiry(g) <= now
           gs == IF over /\ g \in Active THEN {g} ELSE {}
           all == Struck(gs, st)
           gr == Cancelling(gs, group)
<1>1. /\ step' = all /\ row' = Revoked(all)
      /\ group' = IF g \in Active /\ ~over THEN group ELSE Settled(gr, all)
      /\ UNCHANGED <<own, slot, config, busy>>
  BY DEF RecoverGroup, Cancelling, account
<1>2. Spares(st)
  <2>1. ASSUME NEW s \in Steps
        PROVE  /\ st[s] \in [st : {"none", "pending", "queued", "finished", "cancelled"},
                             ticket : Tickets \cup {0}]
               /\ st[s].ticket = step[s].ticket
               /\ \/ st[s].st = step[s].st
                  \/ /\ st[s].st = "cancelled"
                     /\ step[s].st = "pending" \/ row[step[s].ticket] = "queued"
    <3>1. step[s] \in [st : {"none", "pending", "queued", "finished", "cancelled"},
                       ticket : Tickets \cup {0}]
      BY DEF SInv, Typed, StepType
    <3>2. \/ st[s] = step[s]
          \/ /\ st[s] = [step[s] EXCEPT !.st = "cancelled"]
             /\ step[s].st = "pending" \/ row[step[s].ticket] = "queued"
      OBVIOUS
    <3> QED  BY <3>1, <3>2
  <2>2. \A s \in Steps : step[s].st = "pending" => step[s].ticket = 0
    BY DEF SInv, Rides
  <2>3. st \in StepType
    BY <2>1 DEF StepType
  <2> HIDE DEF st
  <2> QED  BY <2>1, <2>2, <2>3 DEF Spares
<1>3. Spares(all)
  BY <1>2, StruckSpares
<1>4. gr \in GroupType /\ \A h \in Groups : gr[h].st = "none" => group[h].st = "none"
  BY CancellingFacts DEF SInv, Typed
<1> HIDE DEF all, gr, over
<1>5. /\ group' \in GroupType
      /\ \A h \in Groups : group'[h].st = "none" => group[h].st = "none"
  BY <1>1, <1>4, SettledFacts DEF SInv, Typed
<1>6. Typed'
  BY <1>1, <1>3, <1>5, RevokedFacts DEF SInv, Typed, Requests, Spares
<1> QED  BY <1>1, <1>3, <1>5, <1>6, RevokingKeeps

LEMMA RecoverIntentsKeeps ==
  ASSUME SInv, RecoverIntents
  PROVE  SInv'
<1>1. /\ UNCHANGED <<own, config, busy>>
      /\ slot' \in Tickets \cup {0}
  BY TargetIsTicket DEF RecoverIntents, account, memory, SInv, Typed
<1>2. CASE Running = {}
  BY <1>1, <1>2, SameKeeps DEF RecoverIntents, SInv, Typed
<1>3. CASE Running # {}
  <2>1. PICK t \in Running : Finish(t)
    BY <1>3 DEF RecoverIntents
  <2>2. t \in Tickets
    BY <2>1 DEF Running
  <2> QED  BY <1>1, <2>1, <2>2, FinishKeeps DEF SInv, Typed
<1> QED  BY <1>2, <1>3

(* The one-click clear supersedes the ticket that waits.                   *)
LEMMA ClearSubmitsKeeps ==
  ASSUME SInv, ClearSubmits
  PROVE  SInv'
<1>1. UNCHANGED <<own, config, busy>> /\ slot' \in Tickets \cup {0}
  BY DEF ClearSubmits, account, SInv, Typed
<1>2. CASE UNCHANGED <<row, step, group>>
  BY <1>1, <1>2, SameKeeps DEF SInv, Typed
<1>3. CASE Queued # {} /\ Finish(Target)
  <2>1. Target \in Tickets
    BY <1>3, TargetIsTicket DEF SInv, Typed, Target, Queued
  <2> QED  BY <1>1, <1>3, <2>1, FinishKeeps DEF SInv, Typed
<1> QED  BY <1>2, <1>3 DEF ClearSubmits

-----------------------------------------------------------------------------
LEMMA StepKeeps ==
  ASSUME SInv, [Next]_vars
  PROVE  SInv'
<1> USE DEF account, memory, bounds
<1>0. slot \in Tickets \cup {0} /\ config \in {0, 1} /\ 0 \in Tickets \cup {0}
  BY DEF SInv, Typed
<1>1. CASE UNCHANGED vars \/ Tick \/ ReleaseSlot \/ ClearReads \/ ClearEnds \/ Crash
  BY <1>0, <1>1, SameKeeps DEF vars, Tick, ReleaseSlot, ClearReads, ClearEnds, Crash, Free
<1>2. ASSUME NEW g \in Groups, CreateGroup(g) \/ ExpireGroup(g) \/ CancelGroup(g) \/ RecoverGroup(g)
      PROVE  SInv'
  <2>1. CASE ExpireGroup(g)
    BY <1>0, <2>1, SameKeeps DEF ExpireGroup
  <2>2. CASE CancelGroup(g)
    BY <1>0, <2>2, CancelKeeps DEF CancelGroup, Reap
  <2> QED  BY <1>2, <2>1, <2>2, CreateGroupKeeps, RecoverGroupKeeps
<1>3. ASSUME NEW req \in Requests,
             SubmitRefused(req) \/ Coalesce(req) \/ \E t \in Tickets : Insert(req, t)
      PROVE  SInv'
  <2>1. CASE SubmitRefused(req)
    BY <1>0, <2>1, SameKeeps DEF SubmitRefused
  <2> QED  BY <1>3, <2>1, CoalesceKeeps, InsertKeeps
<1>4. ASSUME NEW t \in Tickets, Validate(t) \/ FailEarly(t) \/ EndRun(t) \/ EndClosed(t)
      PROVE  SInv'
  <2>1. CASE FailEarly(t) \/ EndRun(t)
    BY <1>0, <2>1, FinishKeeps DEF FailEarly, EndRun
  <2> QED  BY <1>4, <2>1, ValidateKeeps, EndClosedKeeps
<1>5. ASSUME NEW on \in BOOLEAN, NEW c \in {0, 1}, Update(on, c)
      PROVE  SInv'
  BY <1>0, <1>5, CancelKeeps DEF Update, Reap
<1>6. CASE ClearCommits
  BY <1>0, <1>6, CancelKeeps DEF ClearCommits
<1> QED
  BY <1>1, <1>2, <1>3, <1>4, <1>5, <1>6, AttachKeeps, ClaimKeeps, TerminateKeeps,
     ClearSubmitsKeeps, RecoverIntentsKeeps DEF Next

(* The invariant holds in every behaviour.                                 *)
LEMMA SupplementInvariance == Spec => []SInv
  BY InitKeeps, StepKeeps, PTL DEF Spec

(* A run was asked for, by a request in its own right or by a step that is *)
(* not cancelled, whatever cancels steps while their ticket waits, with    *)
(* the lock of the account or without it (promote_intent_to_running,       *)
(* validate_execution_requests, revoke_cancelled_intents).  The property   *)
(* is about tickets that run; the invariant says the same of tickets that  *)
(* wait, so that the compare-and-set of the claim carries it over.         *)
THEOREM CancelledStepsNeverRun == Spec => []CancelledNeverRuns
<1>1. SInv => CancelledNeverRuns
  BY DEF SInv, CancelledNeverRuns, Running, Riders, Wanted
<1> QED  BY SupplementInvariance, <1>1, PTL

=============================================================================
