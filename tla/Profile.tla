------------------------------- MODULE Profile -------------------------------
(***************************************************************************)
(* One profile and its credential: the running daemon (run_forever with    *)
(* the maintenance handshake, and the API requests that refresh the        *)
(* credential on their way), and the commands that change the profile,     *)
(* each in a process of its own (ProfileManager.mutate with its backup and *)
(* rollback, refresh_credential, oauth_login and the auth commands).       *)
(*                                                                         *)
(* Every transaction of the store, file write, lock operation and request  *)
(* is a step.  A process that ends gives its locks back (they are flock    *)
(* locks).  A token is a pair of a family and a generation.                *)
(***************************************************************************)
EXTENDS Naturals

CONSTANTS Commands,      \* processes that each run one command
          Loop, Calls,   \* the daemon: its polling loop, its requests
          Nobody,
          Families,      \* token families the server may issue, 1..n
          Operations,    \* what each command may be asked to do
          MaxFaults, MaxDeaths, MaxLapses,  \* bounds of the environment
          LateFaults     \* may a mutation fail after its revision is visible?

ASSUME ProfileAssumption ==
  /\ Loop # Calls /\ {Loop, Calls, Nobody} \cap Commands = {}
  /\ Nobody \notin {Loop, Calls}
  /\ 1 \in Families /\ Families \subseteq Nat \ {0}
  /\ Operations \in [Commands -> SUBSET {"refresh", "login", "workspace", "capacity",
                                         "logout", "set_pat", "revoke"}]
  /\ {MaxFaults, MaxDeaths, MaxLapses} \subseteq Nat /\ LateFaults \in BOOLEAN

VARIABLES file,     \* config.toml: its revision, who wrote its mappings, its capacity
          db,       \* the SQLite store, all that a backup copies
          lock,     \* holders of the mutation, daemon and credential locks
          srv,      \* the token families in Tether Brain
          lapsed,   \* tokens whose access token has expired
          pc, loc,  \* where each process is, and what it remembers
          loaded,   \* the settings the daemon runs with
          running,  \* an execution in active_tasks
          rots,     \* rotation ids drawn so far
          left,     \* what the environment may still do
          undone,   \* a rollback has written an older credential back
          died      \* a command has died

vars == <<file, db, lock, srv, lapsed, pc, loc, loaded, running, rots, left, undone, died>>
daemonVars == <<loaded, running>>
history == <<undone, died>>
world == <<lapsed, rots, left>>

Procs == Commands \cup {Loop, Calls}
NoCred == [fam |-> 0, tok |-> <<0, 0>>, rot |-> 0, reauth |-> FALSE]
Cred(f, gen) == [fam |-> f, tok |-> <<f, gen>>, rot |-> 0, reauth |-> FALSE]
FreshStore == [cred |-> Cred(1, 1), pat |-> FALSE, pending |-> FALSE, failure |-> "none",
               rev |-> 1, requested |-> FALSE, asked |-> 0, ack |-> 0, claimed |-> FALSE]
FreshFile == [rev |-> 1, body |-> Nobody, cap |-> 1]
NoMemory == [op |-> "none", force |-> FALSE, probe |-> FALSE, cred |-> NoCred,
             ans |-> "none", asked |-> 0, kept |-> FALSE, store |-> FreshStore,
             conf |-> FreshFile]

Init ==
  /\ file = FreshFile
  /\ lock = [mutation |-> Nobody, daemon |-> Nobody, credential |-> Nobody]
  /\ srv = [f \in Families |-> [gen |-> 1, rot |-> 0,
                                state |-> IF f = 1 THEN "active" ELSE "unissued"]]
  /\ lapsed = {} /\ pc = [p \in Procs |-> IF p = Loop THEN "down"
                                         ELSE IF p = Calls THEN "off" ELSE "new"]
  /\ loc = [p \in Procs |-> NoMemory]
  /\ loaded = [file |-> FreshFile, tok |-> <<1, 1>>] /\ running = FALSE /\ rots = 0
  /\ left = [faults |-> MaxFaults, deaths |-> MaxDeaths, lapses |-> MaxLapses]
  /\ undone = FALSE /\ died = FALSE
  \* An older release may have left a credential unclassified.
  /\ \E unclassified \in BOOLEAN :
       db = [FreshStore EXCEPT !.cred.reauth = unclassified]

(***************************************************************************)
(* Small steps shared by the actions.                                      *)
(***************************************************************************)
Goto(p, place) == pc' = [pc EXCEPT ![p] = place]
Holds(p, l) == lock[l] = p
Take(p, l) == lock[l] = Nobody /\ lock' = [lock EXCEPT ![l] = p]
Drop(l) == lock' = [lock EXCEPT ![l] = Nobody]
Fault == left.faults > 0 /\ left' = [left EXCEPT !.faults = @ - 1]

\* Tether Brain takes this access token.
Accepted(tok) == tok # NoCred.tok /\ tok \notin lapsed /\ srv[tok[1]].state \in {"issued", "active"}
\* The requests of the daemon are authorised.
Authorised == IF db.cred = NoCred THEN db.pat
              ELSE ~db.cred.reauth /\ ~db.pending /\ Accepted(db.cred.tok)

(***************************************************************************)
(* Tether Brain: one refresh request, and the activation of a family.      *)
(***************************************************************************)
Answer(tok, rot) ==
  LET f == srv[tok[1]] IN
  IF f.state = "revoked" THEN "revoked"
  ELSE IF f.state # "dead" /\ (tok[2] = f.gen \/ (tok[2] + 1 = f.gen /\ rot = f.rot))
       THEN "token" ELSE "denied"

\* The current token is rotated; its predecessor, sent again under the same
\* rotation id, gets the same answer again.
Rotated(tok, rot) ==
  IF Answer(tok, rot) = "token" /\ tok[2] = srv[tok[1]].gen
  THEN [srv EXCEPT ![tok[1]].gen = @ + 1, ![tok[1]].rot = rot]
  ELSE srv

Activated(f) ==
  IF srv[f].state # "issued" THEN srv
  ELSE [g \in Families |->
          IF g = f THEN [srv[g] EXCEPT !.state = "active"]
          ELSE IF srv[g].state \in {"active", "issued"} THEN [srv[g] EXCEPT !.state = "dead"]
          ELSE srv[g]]

Killed(how) == [g \in Families |-> IF srv[g].state \in {"active", "issued"}
                                   THEN [srv[g] EXCEPT !.state = how] ELSE srv[g]]

(***************************************************************************)
(* refresh_credential, run by a request of the daemon or by a command.     *)
(***************************************************************************)
\* What its caller does with the outcome.  A command that has not entered
\* the mutation yet is still reconciling the credential.
After(p, outcome) ==
  IF p = Calls THEN "off"
  ELSE IF ~Holds(p, "mutation") THEN IF outcome = "error" THEN "done" ELSE "m_lock"
  ELSE CASE loc[p].op = "refresh" /\ outcome = "ok" -> "m_write"
         [] loc[p].op = "revoke" /\ outcome = "ok" -> "v_post"
         [] loc[p].op \in {"revoke", "revoke again"} /\ outcome = "revoked" -> "v_delete"
         [] OTHER -> "m_undo"

Ended(p, outcome) ==
  /\ Goto(p, After(p, outcome))
  /\ loc' = [loc EXCEPT ![p] =
       IF After(p, outcome) \in {"off", "done"} THEN NoMemory
       ELSE [loc[p] EXCEPT
               !.op = IF outcome = "revoked" /\ loc[p].op = "login" THEN "replace"
                      ELSE loc[p].op,
               !.cred = IF After(p, outcome) = "v_post" THEN db.cred ELSE NoCred,
               !.ans = "none", !.force = FALSE, !.probe = FALSE]]

\* Slip: a refresh that fails keeps the lock of the credential.
LeftLocked(p, outcome) ==
  Ended(p, outcome) /\ IF outcome = "error" THEN UNCHANGED lock ELSE Drop("credential")

Left(p, outcome) == Ended(p, outcome) /\ Drop("credential")

RefreshLock(p) ==
  /\ pc[p] = "r_lock"
  /\ \/ Take(p, "credential") /\ Goto(p, "r_read") /\ UNCHANGED loc
     \/ lock.credential # Nobody /\ Ended(p, "error") /\ UNCHANGED lock
  /\ UNCHANGED <<file, db, srv, world, daemonVars, history>>

\* A token that is still good is used as it is.
RefreshIfDue(p, c) ==
  IF ~loc[p].force /\ c.tok \notin lapsed
  THEN Left(p, "ok")
  ELSE Goto(p, "r_prepare") /\ loc' = [loc EXCEPT ![p].cred = c] /\ UNCHANGED lock

RefreshRead(p) ==
  /\ pc[p] = "r_read"
  /\ IF db.cred = NoCred \/ (db.cred.reauth /\ ~loc[p].probe) THEN Left(p, "error")
     ELSE IF db.pending
     THEN /\ Goto(p, "r_activate") /\ UNCHANGED lock
          /\ loc' = [loc EXCEPT ![p].cred = db.cred]
     ELSE RefreshIfDue(p, db.cred)
  /\ UNCHANGED <<file, db, srv, world, daemonVars, history>>

\* An activation that was not confirmed is asked for again.
RefreshActivate(p) ==
  /\ pc[p] = "r_activate"
  /\ IF Accepted(loc[p].cred.tok)
     THEN srv' = Activated(loc[p].cred.tok[1]) /\ db' = [db EXCEPT !.pending = FALSE]
          /\ IF db.cred = NoCred THEN Left(p, "error") ELSE RefreshIfDue(p, db.cred)
     ELSE Left(p, "error") /\ UNCHANGED <<srv, db>>
  /\ UNCHANGED <<file, world, daemonVars, history>>

\* Slip: the rotation id is only remembered by the process.
PreparedInMemory(id) == [db EXCEPT !.cred.rot = IF id = rots + 1 THEN @ ELSE id]

\* prepare_credential_refresh: the rotation id is on disk before the request.
Prepared(id) == [db EXCEPT !.cred.rot = id]

RefreshPrepare(p) ==
  LET id == IF loc[p].cred.rot = 0 THEN rots + 1 ELSE loc[p].cred.rot IN
  /\ pc[p] = "r_prepare"
  /\ rots' = IF loc[p].cred.rot = 0 THEN id ELSE rots
  /\ IF db.cred = NoCred \/ db.cred.rot \notin {0, id}
     THEN Left(p, "error") /\ UNCHANGED db
     ELSE /\ db' = Prepared(id)
          /\ loc' = [loc EXCEPT ![p].cred = db'.cred]
          /\ Goto(p, "r_post") /\ UNCHANGED lock
  /\ UNCHANGED <<file, srv, lapsed, left, daemonVars, history>>

RefreshPost(p) ==
  LET c == loc[p].cred IN
  /\ pc[p] = "r_post" /\ Goto(p, "r_answer")
  /\ srv' = Rotated(c.tok, c.rot)
  /\ loc' = [loc EXCEPT ![p].ans = Answer(c.tok, c.rot)]
  /\ UNCHANGED <<file, db, lock, world, daemonVars, history>>

\* The request or its answer is lost: it is sent again, or given up.
RefreshLost(p) ==
  /\ Fault
  /\ \/ pc[p] \in {"r_post", "r_answer"} /\ Left(p, "error") /\ UNCHANGED srv
     \/ /\ pc[p] = "r_answer" /\ Goto(p, "r_post")
        /\ loc' = [loc EXCEPT ![p].ans = "none"] /\ UNCHANGED <<lock, srv>>
     \/ /\ pc[p] = "r_activate" /\ Left(p, "error")
        /\ srv' \in {srv, Activated(loc[p].cred.tok[1])}
  /\ UNCHANGED <<file, db, lapsed, rots, daemonVars, history>>

\* Slips: the failure code is reset to a text of its own; the update is an
\* upsert, whatever generation is stored.
FinishedWithText(c) == [db EXCEPT !.cred.tok = <<c.tok[1], srv[c.tok[1]].gen>>,
                                  !.cred.reauth = FALSE, !.failure = "false"]
MayUpsert(c) == TRUE

\* finish_credential_refresh compares the generation and nothing else.
FinishedRefresh(c) == [db EXCEPT !.cred.tok = <<c.tok[1], srv[c.tok[1]].gen>>,
                                 !.cred.reauth = FALSE, !.failure = "none"]

MayFinish(c) == db.cred # NoCred /\ db.cred.tok[2] = c.tok[2]

RefreshAnswer(p) ==
  LET c == loc[p].cred IN
  /\ pc[p] = "r_answer"
  /\ IF loc[p].ans # "token"
     THEN /\ db' = [db EXCEPT !.failure = loc[p].ans,
                              !.cred.reauth = db.cred # NoCred]
          /\ Left(p, loc[p].ans)
     ELSE IF MayFinish(c)
     THEN db' = FinishedRefresh(c) /\ Goto(p, "r_status") /\ UNCHANGED <<lock, loc>>
     ELSE Left(p, "error") /\ UNCHANGED db
  /\ UNCHANGED <<file, srv, world, daemonVars, history>>

\* The new token is tried; only then is the rotation id forgotten.
RefreshStatus(p) ==
  /\ pc[p] = "r_status"
  /\ \/ /\ Accepted(db.cred.tok) /\ UNCHANGED left
        /\ db' = [db EXCEPT !.cred.rot = 0] /\ Left(p, "ok")
     \/ /\ Fault \/ (~Accepted(db.cred.tok) /\ UNCHANGED left)
        /\ Left(p, "error") /\ UNCHANGED db
  /\ UNCHANGED <<file, srv, lapsed, rots, daemonVars, history>>

Refresh(p) ==
  \/ RefreshLock(p) \/ RefreshRead(p) \/ RefreshActivate(p) \/ RefreshPrepare(p)
  \/ RefreshPost(p) \/ RefreshAnswer(p) \/ RefreshStatus(p)

(***************************************************************************)
(* The commands, up to the profile mutation.                               *)
(***************************************************************************)
Finish(p) == Goto(p, "done") /\ loc' = [loc EXCEPT ![p] = NoMemory]

Begin(p) ==
  /\ pc[p] = "new"
  /\ \E op \in Operations[p] :
       IF \/ op = "revoke" /\ (lock.daemon # Nobody \/ db.cred = NoCred)
          \/ op \in {"logout", "workspace"} /\ db.cred = NoCred /\ ~db.pat
       THEN Finish(p)
       ELSE /\ loc' = [loc EXCEPT ![p].op = op]
            /\ Goto(p, IF op = "login" THEN "reconcile" ELSE "m_lock")
  /\ UNCHANGED <<file, db, lock, srv, world, daemonVars, history>>

\* _reconcile_oauth_credential: is the credential to be renewed or replaced?
\* It asks Tether Brain when the store does not say.
Reconcile(p) ==
  LET c == db.cred
      f == IF c = NoCred THEN "none" ELSE srv[c.tok[1]].state
      Ask(probe) == /\ Goto(p, "r_lock") /\ UNCHANGED <<db, left>>
                    /\ loc' = [loc EXCEPT ![p].force = TRUE, ![p].probe = probe]
      Replace == /\ Goto(p, "m_lock") /\ loc' = [loc EXCEPT ![p].op = "replace"]
                 /\ UNCHANGED <<db, left>>
      Renew == Goto(p, "m_lock") /\ UNCHANGED <<db, loc, left>>
  IN
  /\ pc[p] = "reconcile"
  /\ IF c = NoCred THEN Renew
     ELSE IF db.failure = "revoked" THEN Replace
     ELSE IF c.reauth THEN IF db.failure # "none" THEN Renew ELSE Ask(TRUE)
     ELSE IF c.tok \in lapsed THEN Ask(FALSE)
     ELSE \/ f = "active" /\ Renew
          \/ f = "revoked" /\ Replace
          \/ f = "dead" /\ Ask(FALSE)
          \/ /\ f = "issued" /\ Goto(p, "r_lock")
             /\ db' = [db EXCEPT !.pending = TRUE] /\ UNCHANGED <<loc, left>>
          \/ Fault /\ Finish(p) /\ UNCHANGED db
  /\ UNCHANGED <<file, lock, srv, lapsed, rots, daemonVars, history>>

(***************************************************************************)
(* ProfileManager.mutate; mutate_live_configuration ("capacity") skips the *)
(* maintenance and keeps no copy of the store.                             *)
(***************************************************************************)
MutateLock(p) ==
  /\ pc[p] = "m_lock"
  /\ \/ /\ Take(p, "mutation")
        /\ IF loc[p].op = "capacity"
           THEN Goto(p, "m_write") /\ loc' = [loc EXCEPT ![p].conf = file]
           ELSE Goto(p, "m_enter") /\ UNCHANGED loc
     \/ lock.mutation # Nobody /\ Finish(p) /\ UNCHANGED lock
  /\ UNCHANGED <<file, db, srv, world, daemonVars, history>>

\* Slip: a request that is not counted.
RequestedUncounted == [db EXCEPT !.requested = TRUE]

\* request_maintenance counts up, so that an older answer does not count.
Requested == [db EXCEPT !.requested = TRUE, !.asked = @ + 1]

EnterMaintenance(p) ==
  /\ pc[p] = "m_enter"
  /\ IF lock.daemon = Nobody
     THEN Goto(p, IF db.claimed THEN "m_leave" ELSE "m_backup") /\ UNCHANGED <<db, loc>>
     ELSE db' = Requested /\ loc' = [loc EXCEPT ![p].asked = db'.asked] /\ Goto(p, "m_wait")
  /\ UNCHANGED <<file, lock, srv, world, daemonVars, history>>

MaintenanceEntered(p) ==
  /\ pc[p] = "m_wait" /\ db.ack >= loc[p].asked /\ ~db.claimed
  /\ Goto(p, "m_backup")
  /\ UNCHANGED <<file, db, lock, srv, loc, world, daemonVars, history>>

MaintenanceTimedOut(p) ==
  /\ pc[p] = "m_wait" /\ Goto(p, "m_leave")
  /\ db' = [db EXCEPT !.requested = FALSE] /\ loc' = [loc EXCEPT ![p].asked = 0]
  /\ UNCHANGED <<file, lock, srv, world, daemonVars, history>>

Change(op) == CASE op \in {"refresh", "revoke"} -> "r_lock"
                [] op \in {"login", "replace"} -> "l_lock"
                [] op = "workspace" -> IF db.cred = NoCred THEN "m_write" ELSE "l_lock"
                [] op = "logout" -> "x_delete"
                [] op = "set_pat" -> "x_post"

\* The configuration and the whole store are set aside.
Backup(p) ==
  /\ pc[p] = "m_backup" /\ Goto(p, Change(loc[p].op))
  /\ loc' = [loc EXCEPT ![p].store = db, ![p].conf = file, ![p].kept = TRUE,
                        ![p].force = loc[p].op \in {"refresh", "revoke"}]
  /\ UNCHANGED <<file, db, lock, srv, world, daemonVars, history>>

\* Slip: the revision is kept.
ProposedUnnumbered(p) ==
  [loc[p].conf EXCEPT !.body = IF loc[p].op = "workspace" THEN p ELSE @,
                      !.cap = IF loc[p].op = "capacity" THEN 2 ELSE @]

Proposed(p) ==
  LET op == loc[p].op
      old == loc[p].conf
  IN  [rev |-> old.rev + 1, body |-> IF op = "workspace" THEN p ELSE old.body,
       cap |-> IF op = "capacity" THEN 2 ELSE old.cap]

WriteConfig(p) ==
  /\ pc[p] = "m_write"
  /\ \/ file' = Proposed(p) /\ Goto(p, "m_revision") /\ UNCHANGED left
     \/ Fault /\ Goto(p, "m_undo") /\ UNCHANGED file
  /\ UNCHANGED <<db, lock, srv, loc, lapsed, rots, daemonVars, history>>

\* With LateFaults the last write, after the revision, may fail as well.
SetRevision(p) ==
  /\ pc[p] = "m_revision"
  /\ db' = [db EXCEPT !.rev = file.rev]
  /\ \/ Goto(p, "m_leave") /\ UNCHANGED left
     \/ LateFaults /\ Fault /\ Goto(p, "m_undo")
  /\ UNCHANGED <<file, lock, srv, loc, lapsed, rots, daemonVars, history>>

RestoreConfig(p) ==
  /\ pc[p] = "m_undo" /\ file' = loc[p].conf
  /\ Goto(p, IF loc[p].kept THEN "m_restore" ELSE "m_leave")
  /\ UNCHANGED <<db, lock, srv, loc, world, daemonVars, history>>

\* The store of before the change, with everything in it.
RestoreStore(p) ==
  /\ pc[p] = "m_restore" /\ Goto(p, "m_leave")
  /\ db' = loc[p].store
  /\ undone' = (undone \/ db.cred # loc[p].store.cred)
  /\ UNCHANGED <<file, lock, srv, loc, world, daemonVars, died>>

\* Slip: it is left to the daemon to notice that the command is done.
ClearedNever(p) == db

\* clear_maintenance, by a command that asked for one.
Cleared(p) == IF loc[p].asked > 0 THEN [db EXCEPT !.requested = FALSE] ELSE db

Leave(p) ==
  /\ pc[p] = "m_leave" /\ Finish(p) /\ Drop("mutation") /\ db' = Cleared(p)
  /\ UNCHANGED <<file, srv, world, daemonVars, history>>

(***************************************************************************)
(* oauth_login inside the mutation, and the other changes of a credential. *)
(***************************************************************************)
\* Slip: a login does not take the lock of the credential.
LoginUnlocked(p) ==
  /\ pc[p] = "l_lock" /\ Goto(p, "l_exchange")
  /\ UNCHANGED <<file, db, lock, srv, loc, world, daemonVars, history>>

LoginLock(p) ==
  /\ pc[p] = "l_lock"
  /\ \/ Take(p, "credential") /\ Goto(p, "l_exchange")
     \/ lock.credential # Nobody /\ Goto(p, "m_undo") /\ UNCHANGED lock
  /\ UNCHANGED <<file, db, srv, loc, world, daemonVars, history>>

\* The browser grants a family of tokens, or the callback brings an error.
LoginExchange(p) ==
  /\ pc[p] = "l_exchange"
  /\ \/ \E f \in Families :
           /\ srv[f].state = "unissued" /\ srv' = [srv EXCEPT ![f].state = "issued"]
           /\ loc' = [loc EXCEPT ![p].cred = Cred(f, 1)]
           /\ Goto(p, "l_store") /\ UNCHANGED lock
     \/ Goto(p, "m_undo") /\ Drop("credential") /\ UNCHANGED <<srv, loc>>
  /\ UNCHANGED <<file, db, world, daemonVars, history>>

\* activate_installation_credential; a replacement also ends the claims.
LoginStore(p) ==
  /\ pc[p] = "l_store" /\ Goto(p, "l_activate")
  /\ db' = IF loc[p].op = "replace"
           THEN [db EXCEPT !.cred = loc[p].cred, !.failure = "none",
                           !.pat = FALSE, !.claimed = FALSE]
           ELSE [db EXCEPT !.cred = loc[p].cred, !.failure = "none"]
  /\ UNCHANGED <<file, lock, srv, loc, world, daemonVars, history>>

LoginActivate(p) ==
  LET f == loc[p].cred.fam
      Stored(pending) == [db EXCEPT !.pending = pending,
                            !.pat = IF loc[p].op = "login" THEN FALSE ELSE @]
  IN
  /\ pc[p] = "l_activate" /\ Goto(p, "m_write") /\ Drop("credential")
  /\ loc' = [loc EXCEPT ![p].cred = NoCred]
  /\ \/ /\ UNCHANGED left
        /\ IF Accepted(loc[p].cred.tok)
           THEN srv' = Activated(f) /\ db' = Stored(FALSE)
           ELSE srv' = srv /\ db' = Stored(TRUE)
     \/ Fault /\ srv' \in {srv, Activated(f)} /\ db' = Stored(TRUE)
  /\ UNCHANGED <<file, lapsed, rots, daemonVars, history>>

Logout(p) ==
  /\ pc[p] = "x_delete" /\ Goto(p, "m_write")
  /\ db' = [db EXCEPT !.cred = NoCred, !.pat = FALSE, !.failure = "none"]
  /\ UNCHANGED <<file, lock, srv, loc, world, daemonVars, history>>

\* use-pat ends the OAuth credentials of the installation on the server.  (Without
\* one nothing is posted; here the post then ends nothing.)
PostUsePat(p) ==
  /\ pc[p] = "x_post"
  /\ \/ srv' = Killed("dead") /\ Goto(p, "x_pat") /\ UNCHANGED left
     \/ Fault /\ srv' \in {srv, Killed("dead")} /\ Goto(p, "m_undo")
  /\ UNCHANGED <<file, db, lock, loc, lapsed, rots, daemonVars, history>>

StorePat(p) ==
  /\ pc[p] = "x_pat" /\ Goto(p, "m_write")
  /\ db' = [db EXCEPT !.cred = NoCred, !.pat = TRUE, !.failure = "none"]
  /\ UNCHANGED <<file, lock, srv, loc, world, daemonVars, history>>

\* A refused revocation refreshes once more, to learn whether it was done.
PostRevoke(p) ==
  /\ pc[p] = "v_post"
  /\ \/ /\ Accepted(loc[p].cred.tok) /\ srv' = Killed("revoked")
        /\ Goto(p, "v_delete") /\ UNCHANGED <<loc, left>>
     \/ /\ ~Accepted(loc[p].cred.tok) /\ Goto(p, "r_lock") /\ UNCHANGED <<srv, left>>
        /\ loc' = [loc EXCEPT ![p].op = "revoke again", ![p].force = TRUE]
     \/ Fault /\ srv' \in {srv, Killed("revoked")} /\ Goto(p, "m_undo") /\ UNCHANGED loc
  /\ UNCHANGED <<file, db, lock, lapsed, rots, daemonVars, history>>

DeleteRevoked(p) ==
  /\ pc[p] = "v_delete" /\ Goto(p, "m_write")
  /\ db' = [db EXCEPT !.cred = NoCred, !.failure = "revoked"]
  /\ UNCHANGED <<file, lock, srv, loc, world, daemonVars, history>>

Command(p) ==
  \/ Begin(p) \/ Reconcile(p) \/ MutateLock(p) \/ EnterMaintenance(p)
  \/ MaintenanceEntered(p) \/ MaintenanceTimedOut(p) \/ Backup(p)
  \/ WriteConfig(p) \/ SetRevision(p) \/ RestoreConfig(p) \/ RestoreStore(p) \/ Leave(p)
  \/ LoginLock(p) \/ LoginExchange(p) \/ LoginStore(p) \/ LoginActivate(p)
  \/ Logout(p) \/ PostUsePat(p) \/ StorePat(p) \/ PostRevoke(p) \/ DeleteRevoked(p)

(***************************************************************************)
(* The daemon: its settings, its polling loop and its requests.            *)
(***************************************************************************)
AtLoop(place, next) == pc[Loop] = place /\ Goto(Loop, next)

\* The settings are read before any lock is taken.
LoadSettings ==
  /\ AtLoop("down", "start")
  /\ loaded' = [file |-> file, tok |-> db.cred.tok]
  /\ UNCHANGED <<file, db, lock, srv, loc, world, running, history>>

\* Startup passes through the mutation lock.
StartDaemon ==
  /\ \/ AtLoop("start", "top") /\ lock.mutation = Nobody /\ Take(Loop, "daemon")
     \/ AtLoop("start", "down") /\ lock.mutation # Nobody /\ UNCHANGED lock
  /\ UNCHANGED <<file, db, srv, loc, world, daemonVars, history>>

\* The top of a pass.  _reload_live_capacity_if_changed comes first, and only
\* takes over a change of the capacity alone (the token is one of the settings).
\* _reload_if_changed reads the revision here, if idle, and the settings after.
LiveReload ==
  /\ AtLoop("top", "gate") /\ db.rev > loaded.file.rev
  /\ file.body = loaded.file.body /\ db.cred.tok = loaded.tok
  /\ loaded' = [loaded EXCEPT !.file = [file EXCEPT !.rev = db.rev]]
  /\ UNCHANGED <<file, db, lock, srv, loc, world, running, history>>

ReadRevision ==
  /\ \/ /\ AtLoop("top", "load") /\ ~running /\ db.rev > loaded.file.rev
        /\ file.body # loaded.file.body \/ db.cred.tok # loaded.tok
        /\ loaded' = [loaded EXCEPT !.file.rev = db.rev]
     \/ /\ AtLoop("top", "gate") /\ UNCHANGED loaded
        /\ running \/ db.rev <= loaded.file.rev
  /\ UNCHANGED <<file, db, lock, srv, loc, world, running, history>>

Reload ==
  /\ AtLoop("load", "gate")
  /\ loaded' = [file |-> [file EXCEPT !.rev = loaded.file.rev], tok |-> db.cred.tok]
  /\ UNCHANGED <<file, db, lock, srv, loc, world, running, history>>

\* Nothing new is begun while maintenance is asked for.
Gate ==
  /\ \/ AtLoop("gate", "work") /\ ~db.requested
     \/ AtLoop("gate", "top") /\ db.requested /\ running
     \/ AtLoop("gate", "idle") /\ db.requested /\ ~running
  /\ UNCHANGED <<file, db, lock, srv, loc, world, daemonVars, history>>

\* _reconcile_idle_active_runs: a claim nobody executes is ended if the server
\* can be asked.
ReconcileIdle ==
  /\ \/ AtLoop("idle", "ack") /\ ~db.claimed /\ UNCHANGED <<db, left>>
     \/ /\ AtLoop("idle", "ack") /\ db.claimed /\ Authorised
        /\ db' = [db EXCEPT !.claimed = FALSE] /\ UNCHANGED left
     \/ /\ AtLoop("idle", "top") /\ db.claimed /\ UNCHANGED db
        /\ Fault \/ (~Authorised /\ UNCHANGED left)
  /\ UNCHANGED <<file, lock, srv, loc, lapsed, rots, daemonVars, history>>

AcknowledgeMaintenance ==
  /\ AtLoop("ack", "top") /\ db' = [db EXCEPT !.ack = db.asked]
  /\ UNCHANGED <<file, lock, srv, loc, world, daemonVars, history>>

\* The rest of a pass: a claim left behind is resumed or ended, a new run is
\* claimed, or there is nothing to do.
Work ==
  /\ AtLoop("work", "top")
  /\ \/ UNCHANGED <<db, running>>
     \/ Authorised /\ ~running /\ running' = TRUE /\ UNCHANGED db
     \/ /\ Authorised /\ ~running /\ db.claimed
        /\ db' = [db EXCEPT !.claimed = FALSE] /\ UNCHANGED running
  /\ UNCHANGED <<file, lock, srv, loc, world, loaded, history>>

\* The execution saves its claim, and gives it up (or not) at its end.
SaveClaim ==
  /\ running /\ ~db.claimed /\ db' = [db EXCEPT !.claimed = TRUE]
  /\ UNCHANGED <<file, lock, srv, pc, loc, world, daemonVars, history>>

RunEnds ==
  /\ running /\ db.claimed /\ running' = FALSE
  /\ \E kept \in BOOLEAN : db' = [db EXCEPT !.claimed = kept]
  /\ UNCHANGED <<file, lock, srv, pc, loc, world, loaded, history>>

\* A request of the daemon: each takes the credential first, and once more by
\* force when it was refused.  (One that finds a good token changes nothing, and
\* is left out.)
CallStarts ==
  /\ pc[Calls] = "off" /\ Holds(Loop, "daemon")
  /\ ~db.requested \/ pc[Loop] = "idle"
  /\ \E force \in BOOLEAN :
       /\ IF force THEN ~Accepted(db.cred.tok) ELSE db.pending \/ db.cred.tok \in lapsed
       /\ loc' = [loc EXCEPT ![Calls].op = "request", ![Calls].force = force]
  /\ Goto(Calls, "r_lock")
  /\ UNCHANGED <<file, db, lock, srv, world, daemonVars, history>>

DaemonStep ==
  \/ LoadSettings \/ StartDaemon \/ LiveReload \/ ReadRevision \/ Reload \/ Gate
  \/ ReconcileIdle \/ AcknowledgeMaintenance \/ Work

(***************************************************************************)
(* The environment.                                                        *)
(***************************************************************************)
TokenLapses ==
  /\ left.lapses > 0 /\ left' = [left EXCEPT !.lapses = @ - 1]
  /\ db.cred # NoCred /\ db.cred.tok \notin lapsed
  /\ lapsed' = lapsed \cup {db.cred.tok}
  /\ UNCHANGED <<file, db, lock, srv, pc, loc, rots, daemonVars, history>>

RevokedInBrowser ==
  /\ Fault /\ Killed("revoked") # srv /\ srv' = Killed("revoked")
  /\ UNCHANGED <<file, db, lock, pc, loc, lapsed, rots, daemonVars, history>>

Deaths == left.deaths > 0 /\ left' = [left EXCEPT !.deaths = @ - 1]
\* The locks of a process go with it.
Released(ps) == lock' = [l \in DOMAIN lock |-> IF lock[l] \in ps THEN Nobody ELSE lock[l]]

CommandDies(p) ==
  /\ Deaths /\ pc[p] \notin {"new", "done"}
  /\ Finish(p) /\ Released({p}) /\ died' = TRUE
  /\ UNCHANGED <<file, db, srv, lapsed, rots, daemonVars, undone>>

DaemonDies ==
  /\ Deaths /\ pc[Loop] # "down"
  /\ pc' = [pc EXCEPT ![Loop] = "down", ![Calls] = "off"]
  /\ loc' = [loc EXCEPT ![Calls] = NoMemory]
  /\ Released({Loop, Calls}) /\ running' = FALSE
  /\ UNCHANGED <<file, db, srv, lapsed, rots, loaded, history>>

Environment == TokenLapses \/ RevokedInBrowser \/ DaemonDies

Next ==
  \/ \E p \in Commands : Command(p) \/ Refresh(p) \/ RefreshLost(p) \/ CommandDies(p)
  \/ Refresh(Calls) \/ RefreshLost(Calls) \/ CallStarts
  \/ DaemonStep \/ SaveClaim \/ RunEnds
  \/ Environment

Spec == Init /\ [][Next]_vars

\* Processes that run take their steps; a service manager starts the daemon
\* again; executions end.  Nobody has to issue a command, and faults, deaths
\* and expiries need not happen.
FairSpec ==
  /\ Spec
  /\ WF_vars(DaemonStep) /\ WF_vars(SaveClaim) /\ WF_vars(RunEnds)
  /\ WF_vars(Refresh(Calls)) /\ WF_vars(CallStarts)
  /\ \A p \in Commands : WF_vars((Command(p) /\ pc[p] # "new") \/ Refresh(p))

(***************************************************************************)
(* Properties.                                                             *)
(***************************************************************************)
Tokens == {NoCred.tok} \cup (Families \X (Nat \ {0}))
Credentials == [fam : Families \cup {0}, tok : Tokens, rot : Nat, reauth : BOOLEAN]
Stores == [cred : Credentials, pat : BOOLEAN, pending : BOOLEAN,
           failure : {"none", "denied", "revoked"}, rev : Nat, requested : BOOLEAN,
           asked : Nat, ack : Nat, claimed : BOOLEAN]
Files == [rev : Nat, body : Commands \cup {Nobody}, cap : {1, 2}]

CommandPlaces ==
  {"new", "reconcile", "m_lock", "m_enter", "m_wait", "m_backup", "l_lock", "l_exchange",
   "l_store", "l_activate", "x_delete", "x_post", "x_pat", "v_post", "v_delete", "m_write",
   "m_revision", "m_undo", "m_restore", "m_leave", "done"}
RefreshPlaces ==
  {"r_lock", "r_read", "r_activate", "r_prepare", "r_post", "r_answer", "r_status"}
LoopPlaces == {"down", "start", "top", "load", "gate", "idle", "ack", "work"}

\* Every variable is in the set its code keeps it in.
TypeOK ==
  /\ file \in Files /\ db \in Stores
  /\ lock \in [{"mutation", "daemon", "credential"} -> Procs \cup {Nobody}]
  /\ \A f \in Families :
       srv[f] \in [gen : Nat \ {0}, rot : Nat,
                   state : {"unissued", "issued", "active", "dead", "revoked"}]
  /\ lapsed \subseteq Tokens
  /\ pc[Loop] \in LoopPlaces /\ pc[Calls] \in RefreshPlaces \cup {"off"}
  /\ \A p \in Commands : pc[p] \in CommandPlaces \cup RefreshPlaces
  /\ \A p \in Procs : loc[p].cred \in Credentials /\ loc[p].store \in Stores
  /\ loaded.file \in Files /\ loaded.tok \in Tokens
  /\ {running, undone, died} \subseteq BOOLEAN /\ rots \in Nat

\* The stored credential can still be used or refreshed: it is the current one
\* of its family, or the one before under the rotation id Tether Brain knows.
\* (A family that was replaced or revoked is beyond help.)
Recoverable ==
  db.cred # NoCred =>
    LET c == db.cred
        s == srv[c.tok[1]]
    IN  \/ s.state \in {"dead", "revoked"}
        \/ c.tok[2] = s.gen
        \/ c.tok[2] + 1 = s.gen /\ c.rot # 0 /\ c.rot = s.rot

\* Whatever is lost and whoever dies during a refresh, and whichever refresh
\* comes after it, the credential stays usable, as long as no rollback of a
\* mutation has written an older one back.
RecoverableUnlessUndone == undone \/ Recoverable

\* While a command changes the profile nothing executes and no lease is held:
\* the handshake with the loop, the startup lock and the deaths of either leave
\* no gap.
MutationExclusive ==
  \A p \in Commands : loc[p].kept => ~running /\ ~db.claimed

\* Tokens of two families are never mixed in one record, although the late
\* answer of a refresh is compared by its generation alone.
FamilyUnmixed == undone \/ db.cred.tok[1] = db.cred.fam

\* A credential that was deleted stays deleted: only a login or a rollback
\* brings one back, never the late answer of a refresh.
LogoutSticks ==
  [][db.cred = NoCred /\ db'.cred # NoCred =>
       \E p \in Commands : pc[p] \in {"l_store", "m_restore"}]_vars

\* A maintenance that was asked for is over in the end, unless its command died.
MaintenanceEnds == db.requested ~> (~db.requested \/ died)

\* The daemon replaces an expired token, finds it refused or loses it to a
\* command, except behind an activation nobody confirmed.
Expired == db.cred # NoCred /\ ~db.cred.reauth /\ db.cred.tok \in lapsed
RefreshedInTheEnd == Expired ~> (~Expired \/ db.pending \/ died)

\* A daemon that is idle at the top of a pass again and again ends up with the
\* configuration on disk, whether it was up or starting when that was written.
\* (One that always has some execution may keep an older one.)
Idle == pc[Loop] = "top" /\ ~running
ConfigCatchesUp ==
  []<>Idle => <>[](died \/ (loaded.file.body = file.body /\ loaded.file.cap = file.cap))
=============================================================================
