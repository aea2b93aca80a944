---------------------------- MODULE ProfileProofs ----------------------------
(***************************************************************************)
(* Proofs about Profile, for any set of commands and token families, and   *)
(* any bounds on faults, deaths and expiries, with and without LateFaults. *)
(***************************************************************************)
EXTENDS Profile, TLAPS

-----------------------------------------------------------------------------
(* The types, with what the processes remember. *)

\* A record without a token is no credential.
GoodCreds == {c \in Credentials : c.tok = NoCred.tok => c = NoCred}
GoodStores == {s \in Stores : s.cred \in GoodCreds}

MutationOps == {"refresh", "login", "replace", "workspace", "logout", "set_pat", "revoke"}
Ops == MutationOps \cup {"none", "capacity", "revoke again", "request"}

Memory == [op : Ops, force : BOOLEAN, probe : BOOLEAN, cred : GoodCreds,
           ans : {"none", "token", "denied", "revoked"}, asked : Nat, kept : BOOLEAN,
           store : GoodStores, conf : Files]

Family == [gen : Nat \ {0}, rot : Nat,
           state : {"unissued", "issued", "active", "dead", "revoked"}]

\* What the place of a process, and who mutates, say of what it has in mind.
Placed(p, place, m, holder) ==
  /\ p \in Commands =>
       /\ place \in RefreshPlaces /\ holder # p => m.op = "login"
       /\ place = "reconcile" => m.op = "login"
       /\ place = "m_lock" => m.op \in MutationOps \cup {"capacity"}
       /\ place \in {"m_enter", "m_wait", "m_backup"} => m.op \in MutationOps
  /\ place \in {"r_activate", "r_prepare", "r_post", "r_answer"} => m.cred.tok # NoCred.tok
  /\ place \in {"l_store", "l_activate"} => m.cred.fam \in Families

PlaceInv == \A p \in Procs : Placed(p, pc[p], loc[p], lock.mutation)

Places(p) ==
  IF p = Loop THEN LoopPlaces
  ELSE IF p = Calls THEN RefreshPlaces \cup {"off"} ELSE CommandPlaces \cup RefreshPlaces

AllPlaces == CommandPlaces \cup RefreshPlaces \cup LoopPlaces \cup {"off"}
Worker == Commands \cup {Calls}
Locks == [{"mutation", "daemon", "credential"} -> Procs \cup {Nobody}]

Types ==
  /\ file \in Files /\ db \in GoodStores
  /\ lock \in Locks
  /\ srv \in [Families -> Family] /\ lapsed \subseteq Tokens
  /\ pc \in [Procs -> AllPlaces]
  /\ \A p \in Procs : pc[p] \in Places(p)
  /\ loc \in [Procs -> Memory]
  /\ loaded \in [file : Files, tok : Tokens]
  /\ running \in BOOLEAN /\ undone \in BOOLEAN /\ died \in BOOLEAN /\ rots \in Nat

TypeInv == Types /\ PlaceInv

-----------------------------------------------------------------------------
(* The mutation and the daemon. *)

\* The daemon is not past its startup lock.
Off == pc[Loop] \in {"down", "start"}

\* The daemon executes only behind its lock, and is idle where it says so.
DaemonInv ==
  /\ ~Off => lock.daemon = Loop
  /\ running => ~Off /\ pc[Loop] \notin {"idle", "ack"}
  /\ pc[Loop] = "ack" => ~db.claimed
  /\ db.ack <= db.asked

\* The places of a mutation, inside its lock.
MutationPlaces ==
  {"m_enter", "m_wait", "m_backup", "l_lock", "l_exchange", "l_store", "l_activate",
   "x_delete", "x_post", "x_pat", "v_post", "v_delete", "m_write", "m_revision",
   "m_undo", "m_restore", "m_leave"}

Locked(p) ==
  /\ pc[p] \in MutationPlaces \/ loc[p].kept => lock.mutation = p
  /\ pc[p] = "m_restore" => loc[p].kept
  /\ pc[p] \in {"m_enter", "m_wait", "m_backup"} => ~loc[p].kept

LockInv == \A p \in Commands : Locked(p)

\* Nothing executes, and nothing will be begun.
Quiet == ~running /\ ~db.claimed /\ (Off \/ (db.requested /\ pc[Loop] # "work"))

\* An answer to the newest request comes from a daemon that is quiet, and stays so.
Handshake(p) ==
  /\ pc[p] = "m_wait" => /\ db.requested /\ loc[p].asked = db.asked
                         /\ db.ack >= db.asked => Quiet
  /\ pc[p] = "m_backup" \/ loc[p].kept => Quiet
  /\ loc[p].kept => LET s == loc[p].store
                    IN  ~s.claimed /\ (Off \/ s.requested) /\ s.ack <= s.asked

HandshakeInv == \A p \in Commands : Handshake(p)

MutationInv == DaemonInv /\ LockInv /\ HandshakeInv

-----------------------------------------------------------------------------
(* The credential. *)

\* The places that are reached with the lock of the credential.
CredentialPlaces ==
  {"r_read", "r_activate", "r_prepare", "r_post", "r_answer", "r_status",
   "l_exchange", "l_store", "l_activate"}

HolderInv ==
  \A p \in Procs : pc[p] \in CredentialPlaces => lock.credential = p

\* A credential anywhere is of a family the server has issued.
Issued(c) == c = NoCred \/ srv[c.tok[1]].state # "unissued"

IssueInv ==
  /\ \A f \in Families : srv[f].state = "unissued" => srv[f].gen = 1
  /\ Issued(db.cred) /\ Issued(FreshStore.cred)
  /\ \A p \in Procs : Issued(loc[p].cred) /\ Issued(loc[p].store.cred)

\* What the holder of the lock knows: unless it is deleted meanwhile, the stored
\* credential is the one that was read, under a rotation id that is on disk.
Copied(p) ==
  LET c == loc[p].cred
  IN  /\ pc[p] \in {"r_activate", "r_prepare", "r_post", "r_answer"}
           => undone \/ db.cred = NoCred \/ db.cred = c
      /\ pc[p] \in {"r_post", "r_answer"} => c.rot # 0
      /\ pc[p] = "r_status" => \/ undone \/ db.cred = NoCred
                               \/ db.cred.tok[2] = srv[db.cred.tok[1]].gen
      /\ pc[p] = "l_store" => \E f \in Families : c = Cred(f, 1) /\ srv[f].gen = 1
      /\ undone \/ c.tok[1] = c.fam

CopyInv == \A p \in Procs : Copied(p)

CredentialInv ==
  HolderInv /\ IssueInv /\ CopyInv /\ RecoverableUnlessUndone /\ FamilyUnmixed

ProfileInv == TypeInv /\ MutationInv /\ CredentialInv

-----------------------------------------------------------------------------
(* Records and their updates. *)

\* A credential that is one keeps its type and the rest of its fields.
LEMMA CredentialUpdates ==
  ASSUME NEW c \in GoodCreds, c # NoCred
  PROVE  /\ c.tok \in Families \X (Nat \ {0}) /\ c.fam \in Families \cup {0} /\ c.rot \in Nat
         /\ \A n \in Nat : LET d == [c EXCEPT !.rot = n]
                           IN  /\ d \in GoodCreds /\ d # NoCred /\ d.rot = n
                               /\ d.tok = c.tok /\ d.fam = c.fam /\ d.reauth = c.reauth
         /\ \A b \in BOOLEAN : LET d == [c EXCEPT !.reauth = b]
                               IN  /\ d \in GoodCreds /\ d # NoCred /\ d.rot = c.rot
                                   /\ d.tok = c.tok /\ d.fam = c.fam
         /\ \A t \in Families \X (Nat \ {0}) :
              LET d == [c EXCEPT !.tok = t, !.reauth = FALSE]
              IN  /\ d \in GoodCreds /\ d # NoCred /\ d.rot = c.rot
                  /\ d.tok = t /\ d.fam = c.fam
<1>1. /\ c.tok # <<0, 0>> /\ c \in Credentials /\ c.tok \in Tokens
  BY DEF GoodCreds, NoCred, Credentials
<1>2. c.tok \in Families \X (Nat \ {0})
  BY <1>1 DEF Tokens, NoCred
<1>3. \A t \in Families \X (Nat \ {0}) : t # <<0, 0>> /\ t \in Tokens
  BY DEF Tokens
<1>4. \A n \in Nat : LET d == [c EXCEPT !.rot = n]
                     IN  /\ d \in Credentials /\ d.rot = n
                         /\ d.tok = c.tok /\ d.fam = c.fam /\ d.reauth = c.reauth
  BY <1>1 DEF Credentials
<1>5. \A b \in BOOLEAN : LET d == [c EXCEPT !.reauth = b]
                         IN  /\ d \in Credentials /\ d.rot = c.rot
                             /\ d.tok = c.tok /\ d.fam = c.fam
  BY <1>1 DEF Credentials
<1>6. \A t \in Tokens : LET d == [c EXCEPT !.tok = t, !.reauth = FALSE]
                        IN  /\ d \in Credentials /\ d.rot = c.rot
                            /\ d.tok = t /\ d.fam = c.fam
  BY <1>1 DEF Credentials
<1>7. \A d \in Credentials : d.tok # <<0, 0>> => d \in GoodCreds /\ d # NoCred
  BY DEF GoodCreds, NoCred
<1>8. c.fam \in Families \cup {0} /\ c.rot \in Nat
  BY <1>1 DEF Credentials
<1> QED
  BY <1>1, <1>2, <1>3, <1>4, <1>5, <1>6, <1>7, <1>8

\* A new credential is one.
LEMMA NewCredentials ==
  /\ NoCred \in GoodCreds
  /\ \A f \in Families : LET c == Cred(f, 1)
                         IN  /\ c \in GoodCreds /\ c # NoCred /\ c.tok = <<f, 1>>
                             /\ c.fam = f /\ c.rot = 0
                             /\ [c EXCEPT !.reauth = FALSE] \in GoodCreds
<1>1. NoCred \in GoodCreds
  BY DEF GoodCreds, NoCred, Credentials, Tokens
<1>2. ASSUME NEW f \in Families
      PROVE  /\ Cred(f, 1) \in Credentials /\ Cred(f, 1).tok = <<f, 1>>
             /\ Cred(f, 1).fam = f /\ Cred(f, 1).rot = 0
  <2>1. <<f, 1>> \in Tokens
    BY DEF Tokens
  <2> QED
    BY <2>1 DEF Cred, Credentials
<1>3. \A f \in Families : f # 0
  BY ProfileAssumption DEF ProfileAssumption
<1>4. ASSUME NEW f \in Families
      PROVE  Cred(f, 1) \in GoodCreds /\ Cred(f, 1) # NoCred
  BY <1>2, <1>3, <1>4 DEF GoodCreds, NoCred
<1>5. \A f \in Families : [Cred(f, 1) EXCEPT !.reauth = FALSE] \in GoodCreds
  BY <1>4, CredentialUpdates
<1> QED
  BY <1>1, <1>2, <1>4, <1>5

\* The fields of a store have their types.
LEMMA StoreFields ==
  ASSUME NEW s \in GoodStores
  PROVE  /\ s.cred \in GoodCreds /\ s.pat \in BOOLEAN /\ s.pending \in BOOLEAN
         /\ s.failure \in {"none", "denied", "revoked"} /\ s.rev \in Nat
         /\ s.requested \in BOOLEAN /\ s.asked \in Nat /\ s.ack \in Nat /\ s.claimed \in BOOLEAN
  BY DEF GoodStores, Stores

\* A credential marked for a new login is still the same credential.
LEMMA SameReauth ==
  [NoCred EXCEPT !.reauth = FALSE] = NoCred
<1>1. \A c \in Credentials : [c EXCEPT !.reauth = c.reauth] = c
  BY DEF Credentials
<1>2. NoCred \in Credentials /\ NoCred.reauth = FALSE
  BY NewCredentials DEF GoodCreds, NoCred
<1> QED
  BY <1>1, <1>2

\* A store d with the handshake of s, and with this credential.
Like(d, s, c) ==
  /\ d \in GoodStores /\ d.cred = c
  /\ d.requested = s.requested /\ d.asked = s.asked /\ d.ack = s.ack
  /\ d.claimed = s.claimed

\* Every update of the credential in the code leaves the handshake.
LEMMA StoreUpdates ==
  ASSUME NEW s \in GoodStores
  PROVE  /\ \A n \in Nat : Like([s EXCEPT !.rev = n], s, s.cred)
         /\ \A b \in BOOLEAN : Like([s EXCEPT !.pending = b], s, s.cred)
         /\ \A b, a \in BOOLEAN : Like([s EXCEPT !.pending = b, !.pat = a], s, s.cred)
         /\ \A c \in GoodCreds : Like([s EXCEPT !.cred = c, !.failure = "none"], s, c)
         /\ \A b \in BOOLEAN :
              Like([s EXCEPT !.cred = NoCred, !.pat = b, !.failure = "none"], s, NoCred)
         /\ Like([s EXCEPT !.cred = NoCred, !.failure = "revoked"], s, NoCred)
         /\ \A a \in {"none", "denied", "revoked"} :
              Like([s EXCEPT !.failure = a, !.cred.reauth = s.cred # NoCred], s,
                   [s.cred EXCEPT !.reauth = s.cred # NoCred])
         /\ \A n \in Nat : s.cred # NoCred =>
              Like([s EXCEPT !.cred.rot = n], s, [s.cred EXCEPT !.rot = n])
         /\ \A t \in Families \X (Nat \ {0}) : s.cred # NoCred =>
              Like([s EXCEPT !.cred.tok = t, !.cred.reauth = FALSE, !.failure = "none"], s,
                   [s.cred EXCEPT !.tok = t, !.reauth = FALSE])
<1>1. s \in Stores /\ s.cred \in GoodCreds
  BY StoreFields DEF GoodStores
<1>2. \A d \in Stores : d.cred \in GoodCreds => d \in GoodStores
  BY DEF GoodStores, GoodCreds
<1>3. /\ \A n \in Nat : Like([s EXCEPT !.rev = n], s, s.cred)
      /\ \A b \in BOOLEAN : Like([s EXCEPT !.pending = b], s, s.cred)
      /\ \A b, a \in BOOLEAN : Like([s EXCEPT !.pending = b, !.pat = a], s, s.cred)
  BY <1>1, <1>2 DEF Stores, Like
<1>4. /\ \A c \in GoodCreds : Like([s EXCEPT !.cred = c, !.failure = "none"], s, c)
      /\ \A b \in BOOLEAN :
           Like([s EXCEPT !.cred = NoCred, !.pat = b, !.failure = "none"], s, NoCred)
      /\ Like([s EXCEPT !.cred = NoCred, !.failure = "revoked"], s, NoCred)
  BY <1>1, <1>2, NewCredentials, Zenon DEF Stores, GoodCreds, Like
<1>5. ASSUME NEW a \in {"none", "denied", "revoked"}
      PROVE  Like([s EXCEPT !.failure = a, !.cred.reauth = s.cred # NoCred], s,
                  [s.cred EXCEPT !.reauth = s.cred # NoCred])
  <2>1. [s.cred EXCEPT !.reauth = s.cred # NoCred] \in GoodCreds
    <3>1. CASE s.cred = NoCred
      BY <3>1, NewCredentials, SameReauth
    <3>2. CASE s.cred # NoCred
      <4>1. [s.cred EXCEPT !.reauth = TRUE] \in GoodCreds
        BY <1>1, <3>2, CredentialUpdates
      <4> QED
        BY <3>2, <4>1
    <3> QED
      BY <3>1, <3>2
  <2> QED
    BY <1>1, <1>2, <2>1 DEF Stores, GoodCreds, Like
<1>6. ASSUME NEW n \in Nat, s.cred # NoCred
      PROVE  Like([s EXCEPT !.cred.rot = n], s, [s.cred EXCEPT !.rot = n])
  <2>1. [s.cred EXCEPT !.rot = n] \in GoodCreds
    BY <1>1, <1>6, CredentialUpdates
  <2> QED
    BY <1>1, <1>2, <2>1 DEF Stores, GoodCreds, Like
<1>7. ASSUME NEW t \in Families \X (Nat \ {0}), s.cred # NoCred
      PROVE  Like([s EXCEPT !.cred.tok = t, !.cred.reauth = FALSE, !.failure = "none"], s,
                  [s.cred EXCEPT !.tok = t, !.reauth = FALSE])
  <2>1. [s.cred EXCEPT !.tok = t, !.reauth = FALSE] \in GoodCreds
    BY <1>1, <1>7, CredentialUpdates
  <2> QED
    BY <1>1, <1>2, <2>1 DEF Stores, GoodCreds, Like
<1> QED
  BY <1>3, <1>4, <1>5, <1>6, <1>7

\* A store d with the credential of s, and with this handshake.
Agreed(d, s, requested, asked, ack, claimed) ==
  /\ d \in GoodStores /\ d.cred = s.cred /\ d.requested = requested /\ d.asked = asked
  /\ d.ack = ack /\ d.claimed = claimed

\* Every update of the handshake in the code leaves the credential.
LEMMA HandshakeUpdates ==
  ASSUME NEW s \in GoodStores
  PROVE  /\ Agreed([s EXCEPT !.requested = FALSE], s, FALSE, s.asked, s.ack, s.claimed)
         /\ \A n \in Nat : Agreed([s EXCEPT !.requested = TRUE, !.asked = n], s,
                                  TRUE, n, s.ack, s.claimed)
         /\ Agreed([s EXCEPT !.ack = s.asked], s, s.requested, s.asked, s.asked, s.claimed)
         /\ \A b \in BOOLEAN :
              Agreed([s EXCEPT !.claimed = b], s, s.requested, s.asked, s.ack, b)
<1>1. s \in Stores /\ s.cred \in GoodCreds
  BY StoreFields DEF GoodStores
<1>2. \A d \in Stores : d.cred \in GoodCreds => d \in GoodStores
  BY DEF GoodStores, GoodCreds
<1> QED
  BY <1>1, <1>2 DEF Stores, GoodCreds, Agreed

\* A replacement of the credential also ends the claims.
LEMMA Replaced ==
  ASSUME NEW s \in GoodStores, NEW c \in GoodCreds
  PROVE  LET d == [s EXCEPT !.cred = c, !.failure = "none", !.pat = FALSE,
                            !.claimed = FALSE]
         IN  /\ d \in GoodStores /\ d.cred = c /\ d.requested = s.requested
             /\ d.asked = s.asked /\ d.ack = s.ack /\ d.claimed = FALSE
<1>1. s \in Stores /\ s.cred \in GoodCreds
  BY StoreFields DEF GoodStores
<1>2. \A d \in Stores : d.cred \in GoodCreds => d \in GoodStores
  BY DEF GoodStores, GoodCreds
<1> QED
  BY <1>1, <1>2 DEF Stores, GoodCreds

-----------------------------------------------------------------------------
(* The memory of a process. *)

\* The fields of a memory have their types.
LEMMA MemoryFields ==
  ASSUME NEW m \in Memory
  PROVE  /\ m.op \in Ops /\ m.force \in BOOLEAN /\ m.probe \in BOOLEAN
         /\ m.cred \in GoodCreds /\ m.ans \in {"none", "token", "denied", "revoked"}
         /\ m.asked \in Nat /\ m.kept \in BOOLEAN /\ m.store \in GoodStores /\ m.conf \in Files
  BY DEF Memory

\* A memory d with the copies of m, and with this operation and credential.
Recalls(d, m, o, c) ==
  /\ d \in Memory /\ d.op = o /\ d.cred = c
  /\ d.kept = m.kept /\ d.store = m.store /\ d.asked = m.asked

\* Every update of a memory outside of the handshake leaves its copies.
LEMMA MemoryUpdates ==
  ASSUME NEW m \in Memory
  PROVE  /\ \A o \in Ops : Recalls([m EXCEPT !.op = o], m, o, m.cred)
         /\ \A o \in Ops, b \in BOOLEAN :
              Recalls([m EXCEPT !.op = o, !.force = b], m, o, m.cred)
         /\ \A b, a \in BOOLEAN :
              Recalls([m EXCEPT !.force = b, !.probe = a], m, m.op, m.cred)
         /\ \A c \in GoodCreds : Recalls([m EXCEPT !.cred = c], m, m.op, c)
         /\ \A a \in {"none", "token", "denied", "revoked"} :
              Recalls([m EXCEPT !.ans = a], m, m.op, m.cred)
         /\ \A f \in Files : Recalls([m EXCEPT !.conf = f], m, m.op, m.cred)
         /\ \A o \in Ops, c \in GoodCreds :
              Recalls([m EXCEPT !.op = o, !.cred = c, !.ans = "none", !.force = FALSE,
                                !.probe = FALSE], m, o, c)
<1> QED
  BY ZenonT(60) DEF Memory, Recalls

\* A memory d with the operation and the credential of m, and with this copy.
Keeps(d, m, asked, kept, store) ==
  /\ d \in Memory /\ d.op = m.op /\ d.cred = m.cred
  /\ d.asked = asked /\ d.kept = kept /\ d.store = store

\* The request and the backup are remembered beside the rest.
LEMMA MutationUpdates ==
  ASSUME NEW m \in Memory
  PROVE  /\ \A n \in Nat : Keeps([m EXCEPT !.asked = n], m, n, m.kept, m.store)
         /\ \A s \in GoodStores, f \in Files, b \in BOOLEAN :
              Keeps([m EXCEPT !.store = s, !.conf = f, !.kept = TRUE, !.force = b], m,
                    m.asked, TRUE, s)
  BY ZenonT(60) DEF Memory, Keeps

\* What a process remembers at its start, and after its end.
LEMMA NothingInMemory ==
  /\ NoMemory \in Memory /\ NoMemory.cred = NoCred /\ NoMemory.kept = FALSE
  /\ NoMemory.op = "none"
  /\ FreshStore \in GoodStores /\ FreshFile \in Files /\ FreshStore.cred = Cred(1, 1)
  /\ FreshStore.ack = 0 /\ FreshStore.asked = 0 /\ FreshStore.claimed = FALSE
  /\ NoMemory.store = FreshStore
<1>1. 1 \in Families /\ Cred(1, 1) \in GoodCreds
  BY NewCredentials, ProfileAssumption DEF ProfileAssumption
<1>2. FreshStore \in Stores /\ FreshStore.cred = Cred(1, 1) /\ FreshFile \in Files
  BY <1>1 DEF FreshStore, Stores, GoodCreds, FreshFile, Files
<1>3. FreshStore \in GoodStores
  BY <1>1, <1>2 DEF GoodStores
<1>4. NoMemory \in Memory
  BY <1>2, <1>3, NewCredentials DEF NoMemory, Memory, Ops
<1> QED
  BY <1>2, <1>3, <1>4 DEF NoMemory, FreshStore

-----------------------------------------------------------------------------
(* Tether Brain. *)

\* It may activate or end families, and rotates no token.
NoneRotated(new) ==
  \A f \in Families :
    /\ new[f].gen = srv[f].gen /\ new[f].rot = srv[f].rot
    /\ new[f].state = "unissued" <=> srv[f].state = "unissued"
    /\ srv[f].state \in {"dead", "revoked"} => new[f].state \in {"dead", "revoked"}

\* An activation or a revocation rotates nothing.
LEMMA FamiliesKept ==
  ASSUME srv \in [Families -> Family]
  PROVE  /\ NoneRotated(srv)
         /\ \A f \in Families : Activated(f) \in [Families -> Family]
                                /\ NoneRotated(Activated(f))
         /\ \A how \in {"dead", "revoked"} : Killed(how) \in [Families -> Family]
                                             /\ NoneRotated(Killed(how))
<1>1. \A s \in Family, x \in {"active", "dead", "revoked"} :
        LET t == [s EXCEPT !.state = x]
        IN  t \in Family /\ t.gen = s.gen /\ t.rot = s.rot /\ t.state = x
  BY DEF Family
<1>2. ASSUME NEW f \in Families
      PROVE  Activated(f) \in [Families -> Family] /\ NoneRotated(Activated(f))
  BY <1>1 DEF Activated, NoneRotated
<1>3. ASSUME NEW how \in {"dead", "revoked"}
      PROVE  Killed(how) \in [Families -> Family] /\ NoneRotated(Killed(how))
  <2>1. ASSUME NEW f \in Families
        PROVE  LET t == IF srv[f].state \in {"active", "issued"}
                        THEN [srv[f] EXCEPT !.state = how] ELSE srv[f]
               IN  /\ t \in Family /\ t.gen = srv[f].gen /\ t.rot = srv[f].rot
                   /\ t.state = "unissued" <=> srv[f].state = "unissued"
                   /\ srv[f].state \in {"dead", "revoked"} => t.state \in {"dead", "revoked"}
    <3>1. CASE srv[f].state \in {"active", "issued"}
      <4>1. srv[f] \in Family /\ how # "unissued"
        OBVIOUS
      <4>2. LET t == [srv[f] EXCEPT !.state = how]
            IN  t \in Family /\ t.gen = srv[f].gen /\ t.rot = srv[f].rot /\ t.state = how
        BY <4>1 DEF Family
      <4> QED
        BY <3>1, <4>1, <4>2
    <3>2. CASE srv[f].state \notin {"active", "issued"}
      BY <3>2
    <3> QED
      BY <3>1, <3>2
  <2> QED
    BY <2>1 DEF Killed, NoneRotated
<1> QED
  BY <1>2, <1>3 DEF NoneRotated

\* A refresh rotates its own family, and only from its newest generation.
LEMMA FamilyRotated ==
  ASSUME srv \in [Families -> Family],
         NEW tok \in Families \X (Nat \ {0}), NEW rot \in Nat
  PROVE  /\ Answer(tok, rot) \in {"token", "denied", "revoked"}
         /\ Rotated(tok, rot) \in [Families -> Family]
         /\ \A f \in Families : Rotated(tok, rot)[f].state = srv[f].state
         /\ \/ Rotated(tok, rot) = srv
            \/ /\ tok[2] = srv[tok[1]].gen
               /\ Rotated(tok, rot)[tok[1]].gen = srv[tok[1]].gen + 1
               /\ Rotated(tok, rot)[tok[1]].rot = rot
               /\ \A f \in Families \ {tok[1]} : Rotated(tok, rot)[f] = srv[f]
<1>1. tok[1] \in Families /\ srv[tok[1]] \in Family
  OBVIOUS
<1>2. \A s \in Family, n \in Nat \ {0} :
        LET t == [s EXCEPT !.gen = n, !.rot = rot]
        IN  t \in Family /\ t.gen = n /\ t.rot = rot /\ t.state = s.state
  BY DEF Family
<1>a. srv[tok[1]].gen + 1 \in Nat \ {0}
  BY <1>1 DEF Family
<1>3. CASE Answer(tok, rot) = "token" /\ tok[2] = srv[tok[1]].gen
  <2>1. Rotated(tok, rot)
          = [srv EXCEPT ![tok[1]] = [srv[tok[1]] EXCEPT !.gen = srv[tok[1]].gen + 1,
                                                        !.rot = rot]]
    BY <1>1, <1>3 DEF Rotated
  <2>2. LET t == [srv[tok[1]] EXCEPT !.gen = srv[tok[1]].gen + 1, !.rot = rot]
        IN  /\ t \in Family /\ t.gen = srv[tok[1]].gen + 1 /\ t.rot = rot
            /\ t.state = srv[tok[1]].state
    BY <1>1, <1>2, <1>a
  <2>3. Answer(tok, rot) \in {"token", "denied", "revoked"}
    BY DEF Answer
  <2> QED
    BY <1>1, <1>3, <2>1, <2>2, <2>3
<1>4. CASE ~(Answer(tok, rot) = "token" /\ tok[2] = srv[tok[1]].gen)
  BY <1>4 DEF Rotated, Answer
<1> QED
  BY <1>3, <1>4

-----------------------------------------------------------------------------
(* One process takes a step. *)

Alone(p) == \A q \in Procs \ {p} : pc'[q] = pc[q] /\ loc'[q] = loc[q]

\* What Types says of the variables that are not of one process.
SharedTypes ==
  /\ file \in Files /\ db \in GoodStores /\ lock \in Locks
  /\ srv \in [Families -> Family] /\ lapsed \subseteq Tokens
  /\ loaded \in [file : Files, tok : Tokens]
  /\ running \in BOOLEAN /\ undone \in BOOLEAN /\ died \in BOOLEAN /\ rots \in Nat

\* The mutation lock goes to or from nobody else.
LockApart(p) == \A q \in Commands \ {p} : lock.mutation = q => lock'.mutation = q

\* A step of one request or command keeps the types.
LEMMA WorkerTypes ==
  ASSUME TypeInv, NEW p \in Worker, NEW place \in Places(p), NEW m \in Memory,
         pc' = [pc EXCEPT ![p] = place],
         loc' = [loc EXCEPT ![p] = m] \/ (loc' = loc /\ m = loc[p]),
         Placed(p, place, m, lock'.mutation), LockApart(p), SharedTypes'
  PROVE  TypeInv' /\ Alone(p) /\ pc'[p] = place /\ loc'[p] = m
<1>1. /\ p \in Procs /\ p # Loop /\ pc \in [Procs -> AllPlaces]
      /\ loc \in [Procs -> Memory] /\ PlaceInv /\ \A q \in Procs : pc[q] \in Places(q)
  BY ProfileAssumption DEF TypeInv, Types, Worker, Procs, ProfileAssumption
<1>2. place \in AllPlaces
  BY <1>1 DEF Places, AllPlaces
<1>3. Alone(p) /\ pc'[p] = place /\ loc'[p] = m
  BY <1>1 DEF Alone
<1>4. pc' \in [Procs -> AllPlaces] /\ loc' \in [Procs -> Memory]
  BY <1>1, <1>2
<1>5. \A q \in Procs : pc'[q] \in Places(q)
  BY <1>1, <1>3 DEF Alone
<1>6. Types'
  BY <1>4, <1>5 DEF SharedTypes, Types, Places
<1>7. ASSUME NEW q \in Procs
      PROVE  Placed(q, pc'[q], loc'[q], lock'.mutation)
  <2>1. CASE q = p
    BY <1>3, <2>1
  <2>2. CASE q # p
    <3>1. pc'[q] = pc[q] /\ loc'[q] = loc[q] /\ Placed(q, pc[q], loc[q], lock.mutation)
      BY <1>1, <1>3, <2>2 DEF Alone, PlaceInv
    <3> QED
      BY <2>2, <3>1 DEF Placed, LockApart
  <2> QED
    BY <2>1, <2>2
<1> QED
  BY <1>3, <1>6, <1>7 DEF TypeInv, PlaceInv

\* The outcome of a refresh.
LEMMA EndedEffect ==
  ASSUME TypeInv, NEW p \in Worker, pc[p] \in RefreshPlaces,
         NEW outcome \in {"ok", "error", "none", "denied", "revoked"}, Ended(p, outcome),
         lock'.mutation = lock.mutation
  PROVE  \E place \in Places(p), m \in Memory :
           /\ pc' = [pc EXCEPT ![p] = place] /\ loc' = [loc EXCEPT ![p] = m]
           /\ Placed(p, place, m, lock'.mutation)
           /\ place \in {"off", "done", "m_lock", "m_write", "v_post", "v_delete", "m_undo"}
           /\ place \in {"m_write", "v_post", "v_delete", "m_undo"} => lock.mutation = p
           /\ m.cred \in {NoCred, db.cred}
           /\ \/ m.kept = loc[p].kept /\ m.store = loc[p].store
              \/ m.kept = FALSE /\ m.store = FreshStore
<1> DEFINE place == After(p, outcome)
           o == IF outcome = "revoked" /\ loc[p].op = "login" THEN "replace" ELSE loc[p].op
           c == IF place = "v_post" THEN db.cred ELSE NoCred
           m == IF place \in {"off", "done"} THEN NoMemory
                ELSE [loc[p] EXCEPT !.op = o, !.cred = c, !.ans = "none", !.force = FALSE,
                                    !.probe = FALSE]
<1>1. /\ p \in Procs /\ p # Loop /\ loc[p] \in Memory /\ db.cred \in GoodCreds
      /\ Placed(p, pc[p], loc[p], lock.mutation) /\ (p = Calls \/ p \in Commands)
      /\ Calls \notin Commands /\ loc \in [Procs -> Memory]
  BY ProfileAssumption, StoreFields
     DEF TypeInv, Types, PlaceInv, Worker, Procs, ProfileAssumption
<1>2. /\ pc' = [pc EXCEPT ![p] = place]
      /\ loc' = [loc EXCEPT ![p] = m]
  <2>1. /\ pc' = [pc EXCEPT ![p] = place]
        /\ loc' = [loc EXCEPT ![p] =
             IF place \in {"off", "done"} THEN NoMemory
             ELSE [loc[p] EXCEPT
                     !.op = IF outcome = "revoked" /\ loc[p].op = "login" THEN "replace"
                            ELSE loc[p].op,
                     !.cred = IF place = "v_post" THEN db.cred ELSE NoCred,
                     !.ans = "none", !.force = FALSE, !.probe = FALSE]]
    BY DEF Ended, Goto
  <2> QED
    BY <2>1
<1>3. c \in GoodCreds /\ c \in {NoCred, db.cred} /\ o \in Ops
  BY <1>1, NewCredentials, MemoryFields DEF Ops, MutationOps
<1>4. CASE place \in {"off", "done"}
  <2>1. m = NoMemory
    BY <1>4
  <2>2. place \in Places(p)
    BY <1>1, <1>4 DEF After, Places, CommandPlaces
  <2>3. Placed(p, place, NoMemory, lock'.mutation)
    BY <1>4 DEF Placed, RefreshPlaces
  <2> QED
    BY <1>2, <1>4, <2>1, <2>2, <2>3, NothingInMemory
<1>5. CASE place \notin {"off", "done"}
  <2>1. Recalls(m, loc[p], o, c)
    BY <1>1, <1>3, <1>5, MemoryUpdates, Zenon
  <2>2. /\ p \in Commands
        /\ place \in {"m_lock", "m_write", "v_post", "v_delete", "m_undo"}
        /\ place = "m_lock" => lock.mutation # p
        /\ place # "m_lock" => lock.mutation = p
    BY <1>1, <1>5 DEF After, Holds
  <2>3. place = "m_lock" => o \in MutationOps
    BY <1>1, <2>2 DEF Placed, MutationOps
  <2>4. Placed(p, place, m, lock'.mutation)
    BY <2>1, <2>2, <2>3 DEF Placed, Recalls, RefreshPlaces
  <2>5. place \in Places(p)
    BY <1>1, <2>2 DEF Places, CommandPlaces
  <2> QED
    BY <1>2, <1>3, <2>1, <2>2, <2>4, <2>5, ZenonT(60) DEF Recalls
<1> QED
  BY <1>4, <1>5

-----------------------------------------------------------------------------
(* A step that is inside a mutation or outside of all, and leaves the       *)
(* handshake alone.                                                         *)

InnerStep(p) ==
  /\ running' = running /\ pc'[Loop] = pc[Loop]
  /\ lock'.mutation = lock.mutation /\ lock'.daemon = lock.daemon
  /\ db'.requested = db.requested /\ db'.asked = db.asked /\ db'.ack = db.ack
  /\ db'.claimed => db.claimed
  /\ loc'[p].kept => loc[p].kept /\ loc'[p].store = loc[p].store
  /\ pc'[p] \in MutationPlaces => lock.mutation = p
  /\ pc'[p] \notin {"m_restore", "m_enter", "m_wait", "m_backup"}

\* Such a step keeps the exclusion of the mutation.
LEMMA InnerStepKeeps ==
  ASSUME TypeInv, MutationInv, NEW p \in Worker, Alone(p), InnerStep(p), TypeInv'
  PROVE  MutationInv'
<1>1. /\ Commands \subseteq Procs /\ \A q \in Commands : q # p => q \in Procs \ {p}
      /\ running \in BOOLEAN /\ db.claimed \in BOOLEAN /\ db'.claimed \in BOOLEAN
      /\ \A q \in Procs : loc[q].kept \in BOOLEAN /\ loc'[q].kept \in BOOLEAN
  BY StoreFields, MemoryFields DEF Procs, TypeInv, Types
<1>2. /\ Off' <=> Off
      /\ Quiet => Quiet'
  BY DEF InnerStep, Off, Quiet
<1>3. DaemonInv'
  BY <1>1, <1>2 DEF MutationInv, DaemonInv, InnerStep, Off
<1>4. LockInv'
  <2> SUFFICES ASSUME NEW q \in Commands
               PROVE  Locked(q)'
    BY DEF LockInv
  <2>1. CASE q = p
    BY <2>1 DEF MutationInv, LockInv, Locked, InnerStep
  <2>2. CASE q # p
    BY <1>1, <2>2 DEF MutationInv, LockInv, Locked, InnerStep, Alone
  <2> QED
    BY <2>1, <2>2
<1>5. HandshakeInv'
  <2> SUFFICES ASSUME NEW q \in Commands
               PROVE  Handshake(q)'
    BY DEF HandshakeInv
  <2>1. CASE q = p
    BY <1>2, <2>1 DEF MutationInv, HandshakeInv, Handshake, InnerStep
  <2>2. CASE q # p
    <3>1. pc'[q] = pc[q] /\ loc'[q] = loc[q]
      BY <1>1, <2>2 DEF Alone
    <3> QED
      BY <1>2, <3>1 DEF MutationInv, HandshakeInv, Handshake, InnerStep
  <2> QED
    BY <2>1, <2>2
<1> QED
  BY <1>3, <1>4, <1>5 DEF MutationInv

-----------------------------------------------------------------------------
(* A step that changes the credential nowhere, except that it may delete    *)
(* it.                                                                      *)

NeutralStep(p) ==
  /\ \A q \in Procs \ {p} : lock.credential = q => lock'.credential = q
  /\ pc'[p] \in CredentialPlaces => lock'.credential = p
  /\ db'.cred \in {db.cred, NoCred} /\ undone' = undone /\ NoneRotated(srv')
  /\ loc'[p].cred \in {loc[p].cred, db.cred, NoCred}
  /\ loc'[p].store.cred \in {loc[p].store.cred, FreshStore.cred, db.cred}
  /\ pc'[p] \in {"r_activate", "r_prepare", "r_post", "r_answer"}
       => undone \/ db'.cred = NoCred \/ db'.cred = loc'[p].cred
  /\ pc'[p] \in {"r_post", "r_answer"} => loc'[p].cred.rot # 0
  /\ pc'[p] \notin {"r_status", "l_store"}

\* What was issued stays so.
LEMMA IssuedKept ==
  ASSUME \A f \in Families : srv[f].state # "unissued" => srv'[f].state # "unissued",
         NEW c \in GoodCreds, Issued(c)
  PROVE  Issued(c)'
<1>1. c = NoCred \/ c.tok[1] \in Families
  BY CredentialUpdates
<1> QED
  BY <1>1 DEF Issued

\* Such a step keeps what is known of the credential.
LEMMA NeutralStepKeeps ==
  ASSUME TypeInv, CredentialInv, NEW p \in Procs, Alone(p), NeutralStep(p), TypeInv'
  PROVE  CredentialInv'
<1>1. /\ srv \in [Families -> Family] /\ db.cred \in GoodCreds /\ undone \in BOOLEAN
      /\ \A q \in Procs : loc[q].cred \in GoodCreds /\ loc[q].store.cred \in GoodCreds
      /\ FreshStore.cred \in GoodCreds
  BY StoreFields, MemoryFields, NothingInMemory DEF TypeInv, Types
<1>2. HolderInv'
  BY DEF CredentialInv, HolderInv, NeutralStep, Alone
<1>3. NoneRotated(srv')
  BY DEF NeutralStep
<1>4. IssueInv'
  <2>1. \A f \in Families : srv'[f].state = "unissued" => srv'[f].gen = 1
    BY <1>3 DEF CredentialInv, IssueInv, NoneRotated
  <2>2. \A c \in GoodCreds : Issued(c) => Issued(c)'
    BY <1>1, <1>3, IssuedKept, SMTT(60) DEF NoneRotated
  <2>3. Issued(NoCred)' /\ Issued(db.cred) /\ Issued(FreshStore.cred)
    BY DEF Issued, CredentialInv, IssueInv
  <2>4. ASSUME NEW q \in Procs
        PROVE  Issued(loc[q].cred) /\ Issued(loc[q].store.cred)
    BY DEF CredentialInv, IssueInv
  <2>5. ASSUME NEW c, c \in {db.cred, FreshStore.cred, NoCred}
        PROVE  (c = NoCred \/ srv'[c.tok[1]].state # "unissued")
    BY <1>1, <2>2, <2>3, <2>5 DEF Issued
  <2>6. ASSUME NEW q \in Procs, NEW c, c \in {loc[q].cred, loc[q].store.cred}
        PROVE  (c = NoCred \/ srv'[c.tok[1]].state # "unissued")
    BY <1>1, <2>2, <2>4, <2>6 DEF Issued
  <2>7. Issued(db.cred)' /\ Issued(FreshStore.cred)'
    BY <2>5 DEF Issued, NeutralStep
  <2>8. ASSUME NEW q \in Procs
        PROVE  Issued(loc[q].cred)' /\ Issued(loc[q].store.cred)'
    <3>1. CASE q = p
      BY <2>5, <2>6, <3>1 DEF Issued, NeutralStep
    <3>2. CASE q # p
      BY <2>6, <3>2 DEF Issued, Alone
    <3> QED
      BY <3>1, <3>2
  <2> QED
    BY <2>1, <2>7, <2>8 DEF IssueInv
<1>5. CopyInv'
  <2> SUFFICES ASSUME NEW q \in Procs
               PROVE  Copied(q)'
    BY DEF CopyInv
  <2>1. undone \/ db.cred.tok[1] = db.cred.fam
    BY DEF CredentialInv, FamilyUnmixed
  <2>2. NoCred.tok[1] = NoCred.fam
    BY DEF NoCred
  <2>3. db.cred = NoCred \/ srv'[db.cred.tok[1]].gen = srv[db.cred.tok[1]].gen
    BY <1>1, <1>3, CredentialUpdates DEF NoneRotated
  <2>4. CASE q = p
    BY <2>1, <2>2, <2>4 DEF CredentialInv, CopyInv, Copied, NeutralStep
  <2>5. CASE q # p
    <3>1. pc'[q] = pc[q] /\ loc'[q] = loc[q]
      BY <2>5 DEF Alone
    <3>2. \A f \in Families : srv[f].gen = 1 => srv'[f].gen = 1
      BY <1>3 DEF NoneRotated
    <3> QED
      BY <2>3, <3>1, <3>2 DEF CredentialInv, CopyInv, Copied, NeutralStep
  <2> QED
    BY <2>4, <2>5
<1>6. RecoverableUnlessUndone' /\ FamilyUnmixed'
  <2>1. db.cred # NoCred => db.cred.tok[1] \in Families
    BY <1>1, CredentialUpdates
  <2>2. NoCred.tok[1] = NoCred.fam
    BY DEF NoCred
  <2>3. FamilyUnmixed'
    BY <2>2 DEF CredentialInv, FamilyUnmixed, NeutralStep
  <2>4. RecoverableUnlessUndone'
    BY <2>1, <1>3
       DEF CredentialInv, RecoverableUnlessUndone, Recoverable, NeutralStep, NoneRotated
  <2> QED
    BY <2>3, <2>4
<1> QED
  BY <1>2, <1>4, <1>5, <1>6 DEF CredentialInv

\* A step of the process that holds the lock of the credential.
LEMMA HolderStepKeeps ==
  ASSUME TypeInv, CredentialInv, NEW p \in Procs, lock.credential = p, Alone(p), TypeInv',
         undone' = undone, lock'.credential \in {p, Nobody},
         pc'[p] \in CredentialPlaces => lock'.credential = p,
         \A f \in Families : srv[f].state # "unissued" => srv'[f].state # "unissued",
         \A f \in Families : srv'[f].state = "unissued" => srv'[f].gen = 1,
         Issued(db.cred)', Issued(loc[p].cred)',
         loc'[p].store.cred \in {loc[p].store.cred, FreshStore.cred},
         Copied(p)', RecoverableUnlessUndone', FamilyUnmixed'
  PROVE  CredentialInv'
<1>1. /\ \A q \in Procs : loc[q].cred \in GoodCreds /\ loc[q].store.cred \in GoodCreds
      /\ FreshStore.cred \in GoodCreds
  BY StoreFields, MemoryFields, NothingInMemory DEF TypeInv, Types
<1>2. ASSUME NEW q \in Procs \ {p}
      PROVE  pc'[q] = pc[q] /\ loc'[q] = loc[q] /\ pc[q] \notin CredentialPlaces
  BY DEF CredentialInv, HolderInv, Alone
<1>3. HolderInv'
  BY <1>2 DEF HolderInv
<1>4. \A c \in GoodCreds : Issued(c) => Issued(c)'
  BY IssuedKept
<1>5. IssueInv'
  <2>1. Issued(FreshStore.cred)
    BY DEF CredentialInv, IssueInv
  <2>2. FreshStore.cred = NoCred \/ srv'[FreshStore.cred.tok[1]].state # "unissued"
    BY <1>1, <1>4, <2>1 DEF Issued
  <2>3. ASSUME NEW q \in Procs, NEW c, c \in {loc[q].cred, loc[q].store.cred}
        PROVE  c = NoCred \/ srv'[c.tok[1]].state # "unissued"
    <3>1. c \in GoodCreds /\ Issued(c)
      BY <1>1, <2>3 DEF CredentialInv, IssueInv
    <3> QED
      BY <1>4, <3>1 DEF Issued
  <2>4. ASSUME NEW q \in Procs
        PROVE  Issued(loc[q].cred)' /\ Issued(loc[q].store.cred)'
    <3>1. CASE q = p
      BY <2>2, <2>3, <3>1 DEF Issued
    <3>2. CASE q # p
      BY <1>2, <2>3, <3>2 DEF Issued
    <3> QED
      BY <3>1, <3>2
  <2> QED
    BY <2>2, <2>4, Zenon DEF IssueInv, Issued
<1>6. CopyInv'
  <2>1. ASSUME NEW q \in Procs, q # p
        PROVE  Copied(q)'
    <3>1. undone \/ loc[q].cred.tok[1] = loc[q].cred.fam
      BY DEF CredentialInv, CopyInv, Copied
    <3> QED
      BY <1>2, <2>1, <3>1 DEF Copied, CredentialPlaces
  <2> QED
    BY <2>1 DEF CopyInv
<1> QED
  BY <1>3, <1>5, <1>6 DEF CredentialInv

-----------------------------------------------------------------------------
(* The steps of a refresh. *)

\* What a step of a request or a command starts from.
LEMMA WorkerFacts ==
  ASSUME TypeInv, NEW p \in Worker
  PROVE  /\ p \in Procs /\ p # Loop /\ p # Nobody /\ Nobody \notin Procs
         /\ p = Calls \/ p \in Commands
         /\ loc[p] \in Memory /\ pc[p] \in Places(p) /\ db \in GoodStores /\ lock \in Locks
         /\ srv \in [Families -> Family] /\ pc \in [Procs -> AllPlaces]
         /\ loc \in [Procs -> Memory] /\ lapsed \subseteq Tokens /\ rots \in Nat
         /\ Placed(p, pc[p], loc[p], lock.mutation) /\ SharedTypes
  BY ProfileAssumption
     DEF TypeInv, Types, PlaceInv, Worker, Procs, ProfileAssumption, SharedTypes

\* A lock that is taken or given back leaves the others.
LEMMA LockUpdates ==
  ASSUME lock \in Locks
  PROVE  /\ \A p \in Procs \cup {Nobody} :
              LET new == [lock EXCEPT !["credential"] = p]
              IN  /\ new \in Locks /\ new.credential = p
                  /\ new.mutation = lock.mutation /\ new.daemon = lock.daemon
         /\ \A p \in Procs \cup {Nobody} :
              LET new == [lock EXCEPT !["mutation"] = p]
              IN  /\ new \in Locks /\ new.mutation = p
                  /\ new.credential = lock.credential /\ new.daemon = lock.daemon
         /\ \A p \in Procs \cup {Nobody} :
              LET new == [lock EXCEPT !["daemon"] = p]
              IN  /\ new \in Locks /\ new.daemon = p
                  /\ new.credential = lock.credential /\ new.mutation = lock.mutation
  BY DEF Locks

HandshakeKept ==
  /\ db'.requested = db.requested /\ db'.asked = db.asked /\ db'.ack = db.ack
  /\ db'.claimed => db.claimed

\* A step that only moves its process, inside a mutation or outside of all.
LEMMA InnerMove ==
  ASSUME TypeInv, NEW p \in Worker, NEW place \in Places(p), NEW m \in Memory,
         pc' = [pc EXCEPT ![p] = place],
         loc' = [loc EXCEPT ![p] = m] \/ (loc' = loc /\ m = loc[p]),
         Placed(p, place, m, lock.mutation), SharedTypes',
         lock'.mutation = lock.mutation, lock'.daemon = lock.daemon,
         running' = running, HandshakeKept,
         m.kept => loc[p].kept /\ m.store = loc[p].store,
         place \in MutationPlaces => lock.mutation = p,
         place \notin {"m_restore", "m_enter", "m_wait", "m_backup"}
  PROVE  /\ TypeInv' /\ Alone(p) /\ InnerStep(p)
         /\ pc'[p] = place /\ loc'[p] = m
<1>1. LockApart(p)
  BY DEF LockApart
<1>2. TypeInv' /\ Alone(p) /\ pc'[p] = place /\ loc'[p] = m
  BY <1>1, WorkerTypes
<1>3. pc'[Loop] = pc[Loop]
  BY WorkerFacts
<1> QED
  BY <1>2, <1>3 DEF InnerStep, HandshakeKept

\* A refresh that ends.
LEMMA RefreshLeft ==
  ASSUME TypeInv, HolderInv, NEW p \in Worker, pc[p] \in RefreshPlaces,
         NEW outcome \in {"ok", "error", "none", "denied", "revoked"}, Ended(p, outcome),
         (pc[p] = "r_lock" /\ lock' = lock) \/ (pc[p] # "r_lock" /\ Drop("credential")),
         SharedTypes', running' = running, HandshakeKept
  PROVE  /\ TypeInv' /\ Alone(p) /\ InnerStep(p)
         /\ db'.cred \in {db.cred, NoCred} /\ undone' = undone /\ NoneRotated(srv')
              => NeutralStep(p)
         /\ pc'[p] \notin CredentialPlaces /\ loc'[p].cred \in {db.cred, NoCred}
         /\ loc'[p].store.cred \in {loc[p].store.cred, FreshStore.cred}
         /\ \A q \in Procs \ {p} : lock.credential = q => lock'.credential = q
<1>1. /\ lock'.mutation = lock.mutation /\ lock'.daemon = lock.daemon
      /\ \A q \in Procs \ {p} : lock.credential = q => lock'.credential = q
  <2>1. CASE pc[p] = "r_lock" /\ lock' = lock
    BY <2>1
  <2>2. CASE pc[p] # "r_lock" /\ Drop("credential")
    <3>1. lock.credential = p
      BY <2>2, WorkerFacts DEF HolderInv, RefreshPlaces, CredentialPlaces
    <3> QED
      BY <2>2, <3>1, WorkerFacts, LockUpdates DEF Drop
  <2> QED
    BY <2>1, <2>2
<1>2. PICK place \in Places(p), m \in Memory :
        /\ pc' = [pc EXCEPT ![p] = place] /\ loc' = [loc EXCEPT ![p] = m]
        /\ Placed(p, place, m, lock'.mutation)
        /\ place \in {"off", "done", "m_lock", "m_write", "v_post", "v_delete", "m_undo"}
        /\ place \in {"m_write", "v_post", "v_delete", "m_undo"} => lock.mutation = p
        /\ m.cred \in {NoCred, db.cred}
        /\ \/ m.kept = loc[p].kept /\ m.store = loc[p].store
           \/ m.kept = FALSE /\ m.store = FreshStore
  BY <1>1, EndedEffect
<1>3. /\ TypeInv' /\ Alone(p) /\ InnerStep(p)
      /\ pc'[p] = place /\ loc'[p] = m
  <2>1. place \in MutationPlaces => lock.mutation = p
    BY <1>2 DEF MutationPlaces
  <2>2. place \notin {"m_restore", "m_enter", "m_wait", "m_backup"}
    BY <1>2
  <2>3. m.kept => loc[p].kept /\ m.store = loc[p].store
    BY <1>2
  <2> QED
    BY <1>1, <1>2, <2>1, <2>2, <2>3, InnerMove
<1>4. /\ pc'[p] \notin CredentialPlaces /\ loc'[p].cred \in {db.cred, NoCred}
      /\ loc'[p].store.cred \in {loc[p].store.cred, FreshStore.cred}
  BY <1>2, <1>3 DEF CredentialPlaces
<1>5. pc'[p] \notin {"r_activate", "r_prepare", "r_post", "r_answer", "r_status", "l_store"}
  BY <1>4 DEF CredentialPlaces
<1> QED
  BY <1>1, <1>3, <1>4, <1>5 DEF NeutralStep

\* A step from one place of a refresh to another.
LEMMA RefreshOn ==
  ASSUME TypeInv, NEW p \in Worker, pc[p] \in RefreshPlaces, NEW place \in RefreshPlaces,
         NEW c \in GoodCreds, NEW m, Recalls(m, loc[p], loc[p].op, c), Goto(p, place),
         loc' = [loc EXCEPT ![p] = m] \/ (loc' = loc /\ m = loc[p]),
         place \in {"r_activate", "r_prepare", "r_post", "r_answer"} => c # NoCred,
         SharedTypes', lock'.mutation = lock.mutation, lock'.daemon = lock.daemon,
         running' = running, HandshakeKept
  PROVE  /\ TypeInv' /\ Alone(p) /\ InnerStep(p) /\ pc'[p] = place /\ loc'[p] = m
         /\ loc'[p].cred = c /\ loc'[p].store = loc[p].store
<1>1. m \in Memory /\ m.op = loc[p].op /\ m.kept = loc[p].kept /\ m.store = loc[p].store
      /\ m.cred = c
  BY DEF Recalls
<1>2. place \in Places(p)
  BY WorkerFacts DEF Places
<1>3. Placed(p, place, m, lock.mutation)
  <2>1. c # NoCred => c.tok # NoCred.tok
    BY DEF GoodCreds
  <2> QED
    BY <1>1, <2>1, WorkerFacts DEF Placed, RefreshPlaces
<1>4. place \notin MutationPlaces /\ place \notin {"m_restore", "m_enter", "m_wait", "m_backup"}
  BY DEF MutationPlaces, RefreshPlaces
<1>5. pc' = [pc EXCEPT ![p] = place]
  BY DEF Goto
<1>6. /\ TypeInv' /\ Alone(p) /\ InnerStep(p)
      /\ pc'[p] = place /\ loc'[p] = m
  <2>1. place \in MutationPlaces => lock.mutation = p
    BY <1>4
  <2>2. m.kept => loc[p].kept /\ m.store = loc[p].store
    BY <1>1
  <2>3. m \in Memory /\ place \notin {"m_restore", "m_enter", "m_wait", "m_backup"}
    BY <1>1, <1>4
  <2> QED
    BY <1>2, <1>3, <1>5, <2>1, <2>2, <2>3, InnerMove
<1> QED
  BY <1>1, <1>6

\* A memory left alone.
LEMMA SameMemory ==
  ASSUME NEW m \in Memory
  PROVE  Recalls(m, m, m.op, m.cred)
  BY DEF Recalls

\* The lock of the credential is taken, or is not free.
LEMMA RefreshLockStep ==
  ASSUME TypeInv, HolderInv, NEW p \in Worker, RefreshLock(p)
  PROVE  TypeInv' /\ Alone(p) /\ InnerStep(p) /\ NeutralStep(p)
<1>1. /\ pc[p] = "r_lock" /\ pc[p] \in RefreshPlaces
      /\ UNCHANGED <<file, db, srv, lapsed, rots, left, loaded, running, undone, died>>
  BY DEF RefreshLock, world, daemonVars, history, RefreshPlaces
<1>2. NoneRotated(srv') /\ HandshakeKept
  BY <1>1, WorkerFacts, FamiliesKept, StoreFields DEF HandshakeKept
<1>3. CASE Take(p, "credential") /\ Goto(p, "r_read") /\ UNCHANGED loc
  <2>1. /\ lock' \in Locks /\ lock'.credential = p /\ lock.credential = Nobody
        /\ lock'.mutation = lock.mutation /\ lock'.daemon = lock.daemon
    BY <1>3, WorkerFacts, LockUpdates DEF Take
  <2>2. SharedTypes'
    BY <1>1, <2>1, WorkerFacts DEF SharedTypes
  <2>3. Recalls(loc[p], loc[p], loc[p].op, loc[p].cred) /\ loc[p].cred \in GoodCreds
    BY WorkerFacts, SameMemory, MemoryFields
  <2>4. "r_read" \in RefreshPlaces
    BY DEF RefreshPlaces
  <2>5. /\ TypeInv' /\ Alone(p) /\ InnerStep(p) /\ pc'[p] = "r_read"
        /\ loc'[p].cred = loc[p].cred /\ loc'[p].store = loc[p].store
    BY <1>1, <1>2, <1>3, <2>1, <2>2, <2>3, <2>4, RefreshOn
  <2> QED
    BY <1>1, <1>2, <2>1, <2>5, WorkerFacts DEF NeutralStep
<1>4. CASE lock.credential # Nobody /\ Ended(p, "error") /\ UNCHANGED lock
  <2>1. SharedTypes'
    BY <1>1, <1>4, WorkerFacts DEF SharedTypes
  <2> QED
    BY <1>1, <1>2, <1>4, <2>1, RefreshLeft
<1> QED
  BY <1>3, <1>4 DEF RefreshLock

\* A credential that was read, or is read again after its activation.
LEMMA RefreshIfDueStep ==
  ASSUME TypeInv, HolderInv, NEW p \in Worker, pc[p] \in {"r_read", "r_activate"},
         db.cred # NoCred, RefreshIfDue(p, db.cred), db'.cred = db.cred,
         SharedTypes', running' = running, HandshakeKept, NoneRotated(srv'), undone' = undone
  PROVE  TypeInv' /\ Alone(p) /\ InnerStep(p) /\ NeutralStep(p)
<1>1. pc[p] \in RefreshPlaces /\ pc[p] # "r_lock" /\ pc[p] \in CredentialPlaces
  BY DEF RefreshPlaces, CredentialPlaces
<1>2. CASE Left(p, "ok")
  BY <1>1, <1>2, RefreshLeft DEF Left
<1>3. CASE /\ Goto(p, "r_prepare") /\ loc' = [loc EXCEPT ![p].cred = db.cred]
           /\ UNCHANGED lock
  <2> DEFINE m == [loc[p] EXCEPT !.cred = db.cred]
  <2>1. db.cred \in GoodCreds /\ loc' = [loc EXCEPT ![p] = m]
    BY <1>3, WorkerFacts, StoreFields
  <2>2. Recalls(m, loc[p], loc[p].op, db.cred)
    BY <2>1, WorkerFacts, MemoryUpdates, Zenon
  <2>3. "r_prepare" \in RefreshPlaces
    BY DEF RefreshPlaces
  <2> HIDE DEF m
  <2>4. PICK c \in GoodCreds : c = db.cred
    BY <2>1
  <2>5. Recalls(m, loc[p], loc[p].op, c)
    BY <2>2, <2>4
  <2>6. loc' = [loc EXCEPT ![p] = m] \/ (loc' = loc /\ m = loc[p])
    BY <2>1
  <2>7. /\ lock'.mutation = lock.mutation /\ lock'.daemon = lock.daemon
        /\ Goto(p, "r_prepare") /\ c # NoCred
    BY <1>3, <2>4
  <2>8. /\ TypeInv' /\ Alone(p) /\ InnerStep(p) /\ pc'[p] = "r_prepare"
        /\ loc'[p].cred = c /\ loc'[p].store = loc[p].store
    BY <1>1, <2>3, <2>5, <2>6, <2>7, RefreshOn
  <2>9. lock' = lock /\ lock.credential = p
    BY <1>1, <1>3, WorkerFacts DEF HolderInv
  <2> QED
    BY <2>4, <2>8, <2>9 DEF NeutralStep
<1> QED
  BY <1>2, <1>3 DEF RefreshIfDue

\* The credential is read behind the lock.
LEMMA RefreshReadStep ==
  ASSUME TypeInv, HolderInv, NEW p \in Worker, RefreshRead(p)
  PROVE  TypeInv' /\ Alone(p) /\ InnerStep(p) /\ NeutralStep(p)
<1>1. /\ pc[p] = "r_read" /\ pc[p] \in RefreshPlaces /\ pc[p] \in CredentialPlaces
      /\ UNCHANGED <<file, db, srv, lapsed, rots, left, loaded, running, undone, died>>
  BY DEF RefreshRead, world, daemonVars, history, RefreshPlaces, CredentialPlaces
<1>2. NoneRotated(srv') /\ HandshakeKept
  BY <1>1, WorkerFacts, FamiliesKept, StoreFields DEF HandshakeKept
<1>3. lock.credential = p
  BY <1>1, WorkerFacts DEF HolderInv
<1>4. lock' \in Locks => SharedTypes'
  BY <1>1, WorkerFacts DEF SharedTypes
<1>5. CASE Left(p, "error")
  <2>1. lock' \in Locks
    BY <1>5, WorkerFacts, LockUpdates DEF Left, Drop
  <2> QED
    BY <1>1, <1>2, <1>4, <1>5, <2>1, RefreshLeft DEF Left
<1>6. CASE /\ db.cred # NoCred /\ Goto(p, "r_activate") /\ UNCHANGED lock
           /\ loc' = [loc EXCEPT ![p].cred = db.cred]
  <2> DEFINE m == [loc[p] EXCEPT !.cred = db.cred]
  <2>1. db.cred \in GoodCreds /\ loc' = [loc EXCEPT ![p] = m]
    BY <1>6, WorkerFacts, StoreFields
  <2>2. Recalls(m, loc[p], loc[p].op, db.cred)
    BY <2>1, WorkerFacts, MemoryUpdates, Zenon
  <2>3. "r_activate" \in RefreshPlaces
    BY DEF RefreshPlaces
  <2>4. SharedTypes'
    BY <1>4, <1>6, WorkerFacts
  <2> HIDE DEF m
  <2>5. /\ TypeInv' /\ Alone(p) /\ InnerStep(p) /\ pc'[p] = "r_activate"
        /\ loc'[p].cred = db.cred /\ loc'[p].store = loc[p].store
    BY <1>1, <1>2, <1>6, <2>1, <2>2, <2>3, <2>4, RefreshOn
  <2> QED
    BY <1>1, <1>2, <1>3, <1>6, <2>5 DEF NeutralStep
<1>7. CASE db.cred # NoCred /\ RefreshIfDue(p, db.cred)
  <2>1. lock' \in Locks
    BY <1>7, WorkerFacts, LockUpdates DEF RefreshIfDue, Left, Drop
  <2> QED
    BY <1>1, <1>2, <1>4, <1>7, <2>1, RefreshIfDueStep
<1> QED
  BY <1>5, <1>6, <1>7 DEF RefreshRead

\* The activation of a family is asked for again.
LEMMA RefreshActivateStep ==
  ASSUME TypeInv, HolderInv, NEW p \in Worker, RefreshActivate(p)
  PROVE  TypeInv' /\ Alone(p) /\ InnerStep(p) /\ NeutralStep(p)
<1>1. /\ pc[p] = "r_activate" /\ pc[p] \in RefreshPlaces
      /\ UNCHANGED <<file, lapsed, rots, left, loaded, running, undone, died>>
  BY DEF RefreshActivate, world, daemonVars, history, RefreshPlaces
<1>2. loc[p].cred.tok[1] \in Families
  <2>1. loc[p].cred \in GoodCreds /\ loc[p].cred # NoCred
    BY <1>1, WorkerFacts, MemoryFields, SMTT(60) DEF Placed
  <2> QED
    BY <2>1, CredentialUpdates
<1>3. CASE /\ srv' = Activated(loc[p].cred.tok[1]) /\ db' = [db EXCEPT !.pending = FALSE]
           /\ IF db.cred = NoCred THEN Left(p, "error") ELSE RefreshIfDue(p, db.cred)
  <2>1. srv' \in [Families -> Family] /\ NoneRotated(srv')
    BY <1>2, <1>3, WorkerFacts, FamiliesKept
  <2>2. Like(db', db, db.cred)
    BY <1>3, WorkerFacts, StoreUpdates
  <2>3. lock' \in Locks
    BY <1>3, WorkerFacts, LockUpdates DEF RefreshIfDue, Left, Drop
  <2>4. SharedTypes'
    BY <1>1, <2>1, <2>2, <2>3, WorkerFacts DEF SharedTypes, Like
  <2>5. HandshakeKept /\ db'.cred = db.cred
    BY <2>2, WorkerFacts, StoreFields DEF HandshakeKept, Like
  <2> QED
    BY <1>1, <1>3, <2>1, <2>4, <2>5, RefreshIfDueStep, RefreshLeft DEF Left
<1>4. CASE Left(p, "error") /\ UNCHANGED <<srv, db>>
  <2>1. lock' \in Locks
    BY <1>4, WorkerFacts, LockUpdates DEF Left, Drop
  <2>2. SharedTypes'
    BY <1>1, <1>4, <2>1, WorkerFacts DEF SharedTypes
  <2>3. HandshakeKept /\ NoneRotated(srv')
    BY <1>4, WorkerFacts, FamiliesKept, StoreFields DEF HandshakeKept
  <2> QED
    BY <1>1, <1>4, <2>2, <2>3, RefreshLeft DEF Left
<1> QED
  BY <1>3, <1>4 DEF RefreshActivate

StaysDeleted == db.cred = NoCred => db'.cred = NoCred

\* The holder leaves the refresh; its copy is that of the store, or none.
LEMMA LeavingKeeps ==
  ASSUME TypeInv, CredentialInv, NEW p \in Worker, lock.credential = p, Alone(p), TypeInv',
         undone' = undone, lock'.credential = Nobody, pc'[p] \notin CredentialPlaces,
         loc'[p].cred \in {db.cred, NoCred},
         loc'[p].store.cred \in {loc[p].store.cred, FreshStore.cred}, srv' = srv,
         Issued(db.cred)', RecoverableUnlessUndone', FamilyUnmixed'
  PROVE  CredentialInv'
<1>1. p \in Procs
  BY WorkerFacts
<1>2. Issued(loc[p].cred)'
  BY DEF Issued, CredentialInv, IssueInv
<1>3. Copied(p)'
  <2>1. undone \/ db.cred.tok[1] = db.cred.fam
    BY DEF CredentialInv, FamilyUnmixed
  <2>2. NoCred.tok[1] = NoCred.fam
    BY DEF NoCred
  <2>3. pc'[p] \notin {"r_activate", "r_prepare", "r_post", "r_answer", "r_status", "l_store"}
    BY DEF CredentialPlaces
  <2> QED
    BY <2>1, <2>2, <2>3 DEF Copied
<1>4. \A f \in Families : srv'[f].state = "unissued" => srv'[f].gen = 1
  BY DEF CredentialInv, IssueInv
<1> QED
  BY <1>1, <1>2, <1>3, <1>4, HolderStepKeeps

\* The rotation id is on disk before the request.
LEMMA RefreshPrepareStep ==
  ASSUME TypeInv, CredentialInv, NEW p \in Worker, RefreshPrepare(p)
  PROVE  TypeInv' /\ Alone(p) /\ InnerStep(p) /\ CredentialInv' /\ StaysDeleted
<1> DEFINE id == IF loc[p].cred.rot = 0 THEN rots + 1 ELSE loc[p].cred.rot
<1>1. /\ pc[p] = "r_prepare" /\ pc[p] \in RefreshPlaces /\ pc[p] \in CredentialPlaces
      /\ UNCHANGED <<file, srv, lapsed, left, loaded, running, undone, died>>
      /\ rots' = IF loc[p].cred.rot = 0 THEN id ELSE rots
  BY DEF RefreshPrepare, daemonVars, history, RefreshPlaces, CredentialPlaces
<1>2. /\ lock.credential = p /\ HolderInv /\ p \in Procs /\ p # Nobody
      /\ loc[p].cred \in GoodCreds /\ db.cred \in GoodCreds /\ srv \in [Families -> Family]
  BY <1>1, WorkerFacts, MemoryFields, StoreFields DEF CredentialInv, HolderInv
<1>3. id \in Nat /\ id # 0 /\ rots' \in Nat
  <2>1. loc[p].cred.rot \in Nat /\ rots \in Nat
    BY <1>2, WorkerFacts DEF GoodCreds, Credentials
  <2> QED
    BY <1>1, <2>1
<1> HIDE DEF id
<1>4. CASE Left(p, "error") /\ UNCHANGED db
  <2>1. lock' \in Locks
    BY <1>4, WorkerFacts, LockUpdates DEF Left, Drop
  <2>2. SharedTypes'
    BY <1>1, <1>3, <1>4, <2>1, WorkerFacts DEF SharedTypes
  <2>3. HandshakeKept /\ NoneRotated(srv')
    BY <1>1, <1>4, WorkerFacts, FamiliesKept, StoreFields DEF HandshakeKept
  <2>4. TypeInv' /\ Alone(p) /\ InnerStep(p) /\ NeutralStep(p)
    BY <1>1, <1>2, <1>4, <2>2, <2>3, RefreshLeft DEF Left
  <2> QED
    BY <1>2, <2>4, NeutralStepKeeps DEF NeutralStep, StaysDeleted
<1>5. CASE /\ db.cred # NoCred /\ db.cred.rot \in {0, id} /\ db' = Prepared(id)
           /\ loc' = [loc EXCEPT ![p].cred = db'.cred]
           /\ Goto(p, "r_post") /\ UNCHANGED lock
  <2>a. db.cred # NoCred /\ db.cred \in GoodCreds
    BY <1>2, <1>5
  <2> DEFINE c == [db.cred EXCEPT !.rot = id]
             m == [loc[p] EXCEPT !.cred = c]
  <2>1. /\ c \in GoodCreds /\ c # NoCred /\ c.rot = id
        /\ c.tok = db.cred.tok /\ c.fam = db.cred.fam
    <3>1. \A n \in Nat : LET d == [db.cred EXCEPT !.rot = n]
                         IN  /\ d \in GoodCreds /\ d # NoCred /\ d.rot = n
                             /\ d.tok = db.cred.tok /\ d.fam = db.cred.fam
                             /\ d.reauth = db.cred.reauth
      BY <2>a, CredentialUpdates
    <3> QED
      BY <1>3, <3>1
  <2>2. Like(db', db, c)
    BY <1>3, <1>5, WorkerFacts, StoreUpdates DEF Prepared
  <2>3. Recalls(m, loc[p], loc[p].op, c)
    BY <2>1, WorkerFacts, MemoryUpdates, Zenon
  <2>4. loc' = [loc EXCEPT ![p] = m]
    BY <1>5, <2>2 DEF Like
  <2>5. SharedTypes' /\ HandshakeKept
    BY <1>1, <1>3, <1>5, <2>2, WorkerFacts, StoreFields DEF SharedTypes, Like, HandshakeKept
  <2>6. "r_post" \in RefreshPlaces
    BY DEF RefreshPlaces
  <2> HIDE DEF m, c
  <2>7. /\ TypeInv' /\ Alone(p) /\ InnerStep(p) /\ pc'[p] = "r_post"
        /\ loc'[p].cred = c /\ loc'[p].store = loc[p].store
    <3>1. /\ lock'.mutation = lock.mutation /\ lock'.daemon = lock.daemon
          /\ running' = running /\ Goto(p, "r_post") /\ pc[p] \in RefreshPlaces
      BY <1>1, <1>5
    <3> QED
      BY <2>1, <2>3, <2>4, <2>5, <2>6, <3>1, RefreshOn
  <2>8. db'.cred = c /\ Issued(db.cred)' /\ Issued(loc[p].cred)'
    <3>1. Issued(db.cred)
      BY DEF CredentialInv, IssueInv
    <3> QED
      BY <1>1, <1>5, <2>1, <2>2, <2>7, <3>1 DEF Issued, Like
  <2>9. FamilyUnmixed'
    BY <1>1, <2>1, <2>8 DEF CredentialInv, FamilyUnmixed
  <2>10. RecoverableUnlessUndone'
    BY <1>1, <1>3, <1>5, <2>1, <2>8 DEF CredentialInv, RecoverableUnlessUndone, Recoverable
  <2>11. Copied(p)'
    BY <1>3, <2>1, <2>7, <2>8, <2>9 DEF Copied, FamilyUnmixed
  <2>12. \A f \in Families : srv'[f].state = "unissued" => srv'[f].gen = 1
    BY <1>1 DEF CredentialInv, IssueInv
  <2>13. lock'.credential = p
    BY <1>2, <1>5, SMTT(60)
  <2> QED
    BY <1>1, <1>2, <2>a, <2>7, <2>8, <2>9, <2>10, <2>11, <2>12, <2>13, HolderStepKeeps
       DEF StaysDeleted
<1> QED
  BY <1>4, <1>5 DEF RefreshPrepare, id

\* The request rotates the family under the id that is on disk.
LEMMA RefreshPostStep ==
  ASSUME TypeInv, CredentialInv, NEW p \in Worker, RefreshPost(p)
  PROVE  TypeInv' /\ Alone(p) /\ InnerStep(p) /\ CredentialInv' /\ StaysDeleted
<1> DEFINE c == loc[p].cred
           m == [loc[p] EXCEPT !.ans = Answer(c.tok, c.rot)]
<1>1. /\ pc[p] = "r_post" /\ pc[p] \in RefreshPlaces /\ pc[p] \in CredentialPlaces
      /\ UNCHANGED <<file, db, lock, lapsed, rots, left, loaded, running, undone, died>>
      /\ srv' = Rotated(c.tok, c.rot) /\ Goto(p, "r_answer") /\ loc' = [loc EXCEPT ![p] = m]
  BY DEF RefreshPost, world, daemonVars, history, RefreshPlaces, CredentialPlaces
<1>2. /\ lock.credential = p /\ p \in Procs /\ c \in GoodCreds /\ c # NoCred
      /\ srv \in [Families -> Family] /\ db.cred \in GoodCreds
  BY <1>1, WorkerFacts, MemoryFields, StoreFields DEF CredentialInv, HolderInv, Placed
<1>3. /\ c.tok \in Families \X (Nat \ {0}) /\ c.rot \in Nat /\ c.rot # 0
      /\ c.tok[1] \in Families
  BY <1>1, <1>2, CredentialUpdates, ZenonT(60) DEF CredentialInv, CopyInv, Copied
<1>4. /\ Answer(c.tok, c.rot) \in {"token", "denied", "revoked"}
      /\ srv' \in [Families -> Family]
      /\ \A f \in Families : srv'[f].state = srv[f].state
      /\ \/ srv' = srv
         \/ /\ c.tok[2] = srv[c.tok[1]].gen
            /\ srv'[c.tok[1]].gen = srv[c.tok[1]].gen + 1
            /\ srv'[c.tok[1]].rot = c.rot
            /\ \A f \in Families \ {c.tok[1]} : srv'[f] = srv[f]
  BY <1>1, <1>2, <1>3, FamilyRotated
<1>5. Recalls(m, loc[p], loc[p].op, c)
  BY <1>4, WorkerFacts, MemoryUpdates, Zenon
<1>6. SharedTypes' /\ HandshakeKept
  BY <1>1, <1>4, WorkerFacts, StoreFields, Zenon DEF SharedTypes, HandshakeKept
<1>7. "r_answer" \in RefreshPlaces
  BY DEF RefreshPlaces
<1> HIDE DEF m
<1>8. /\ TypeInv' /\ Alone(p) /\ InnerStep(p) /\ pc'[p] = "r_answer"
      /\ loc'[p].cred = c /\ loc'[p].store = loc[p].store
  BY <1>1, <1>2, <1>5, <1>6, <1>7, RefreshOn, ZenonT(60)
<1>9. c.tok[1] \in Families /\ Issued(c) /\ Issued(db.cred)
  BY <1>2, <1>3 DEF CredentialInv, IssueInv
<1>10. \A f \in Families : srv[f].state # "unissued" => srv'[f].state # "unissued"
  BY <1>4
<1>11. Issued(db.cred)' /\ Issued(loc[p].cred)'
  <2>1. db.cred = NoCred \/ db.cred.tok[1] \in Families
    BY <1>2, CredentialUpdates
  <2> QED
    BY <1>1, <1>3, <1>8, <1>9, <1>10, <2>1, Zenon DEF Issued
<1>12. \A f \in Families : srv'[f].state = "unissued" => srv'[f].gen = 1
  <2>1. \A f \in Families : srv[f].state = "unissued" => srv[f].gen = 1
    BY DEF CredentialInv, IssueInv
  <2>2. c # NoCred /\ srv[c.tok[1]].state # "unissued"
    BY <1>2, <1>9 DEF Issued
  <2>3. srv' = srv \/ \A f \in Families \ {c.tok[1]} : srv'[f] = srv[f]
    BY <1>4
  <2>4. \A f \in Families : srv'[f].state = "unissued" => f # c.tok[1]
    BY <1>4, <1>9, <2>2
  <2> QED
    BY <1>4, <2>1, <2>3, <2>4
<1>13. undone \/ db.cred = NoCred \/ db.cred = c
  BY <1>1, <1>2 DEF CredentialInv, CopyInv, Copied
<1>14. RecoverableUnlessUndone'
  BY <1>1, <1>3, <1>4, <1>13, ZenonT(60) DEF CredentialInv, RecoverableUnlessUndone, Recoverable
<1>15. Copied(p)'
  BY <1>1, <1>2, <1>3, <1>8, <1>13 DEF Copied, CredentialInv, CopyInv
<1>16. FamilyUnmixed'
  BY <1>1 DEF CredentialInv, FamilyUnmixed
<1> QED
  BY <1>1, <1>2, <1>8, <1>10, <1>11, <1>12, <1>14, <1>15, <1>16, HolderStepKeeps
  DEF StaysDeleted

\* A refresh that fails without a trace in the store.
LEMMA GivenUp ==
  ASSUME TypeInv, CredentialInv, NEW p \in Worker, pc[p] \in RefreshPlaces \ {"r_lock"},
         NEW outcome \in {"error", "none", "denied", "revoked"}, Left(p, outcome),
         UNCHANGED <<file, db, lapsed, rots, loaded, running, undone, died>>,
         srv' \in [Families -> Family], NoneRotated(srv')
  PROVE  TypeInv' /\ Alone(p) /\ InnerStep(p) /\ CredentialInv' /\ StaysDeleted
<1>1. lock' \in Locks
  BY WorkerFacts, LockUpdates DEF Left, Drop
<1>2. SharedTypes' /\ HandshakeKept
  BY <1>1, WorkerFacts, StoreFields DEF SharedTypes, HandshakeKept
<1>3. TypeInv' /\ Alone(p) /\ InnerStep(p) /\ NeutralStep(p)
  BY <1>2, RefreshLeft DEF Left, CredentialInv
<1> QED
  BY <1>3, WorkerFacts, NeutralStepKeeps DEF StaysDeleted

\* The answer is stored if its generation is still the one stored.
LEMMA RefreshAnswerStep ==
  ASSUME TypeInv, CredentialInv, NEW p \in Worker, RefreshAnswer(p)
  PROVE  TypeInv' /\ Alone(p) /\ InnerStep(p) /\ CredentialInv' /\ StaysDeleted
<1> DEFINE c == loc[p].cred
<1>1. /\ pc[p] = "r_answer" /\ pc[p] \in RefreshPlaces \ {"r_lock"}
      /\ pc[p] \in CredentialPlaces
      /\ UNCHANGED <<file, srv, lapsed, rots, left, loaded, running, undone, died>>
  BY DEF RefreshAnswer, world, daemonVars, history, RefreshPlaces, CredentialPlaces
<1>2. /\ lock.credential = p /\ HolderInv /\ p \in Procs /\ c \in GoodCreds /\ c # NoCred
      /\ srv \in [Families -> Family] /\ db.cred \in GoodCreds /\ db \in GoodStores
  BY <1>1, WorkerFacts, MemoryFields, StoreFields DEF CredentialInv, HolderInv, Placed
<1>3. NoneRotated(srv')
  BY <1>1, <1>2, FamiliesKept
<1>4. ASSUME loc[p].ans # "token", Left(p, loc[p].ans),
             db' = [db EXCEPT !.failure = loc[p].ans, !.cred.reauth = db.cred # NoCred]
      PROVE  TypeInv' /\ Alone(p) /\ InnerStep(p) /\ CredentialInv' /\ StaysDeleted
  <2>1. loc[p].ans \in {"none", "denied", "revoked"}
    BY <1>4, WorkerFacts, MemoryFields
  <2>2. Like(db', db, [db.cred EXCEPT !.reauth = db.cred # NoCred])
    BY <1>2, <1>4, <2>1, StoreUpdates
  <2>3. /\ db.cred = NoCred => db'.cred = NoCred
        /\ db.cred # NoCred => /\ db'.cred # NoCred /\ db'.cred.tok = db.cred.tok
                               /\ db'.cred.fam = db.cred.fam /\ db'.cred.rot = db.cred.rot
    <3>1. CASE db.cred = NoCred
      BY <2>2, <3>1, SameReauth DEF Like
    <3>2. CASE db.cred # NoCred
      <4>1. \A b \in BOOLEAN : LET d == [db.cred EXCEPT !.reauth = b]
                               IN  /\ d \in GoodCreds /\ d # NoCred /\ d.rot = db.cred.rot
                                   /\ d.tok = db.cred.tok /\ d.fam = db.cred.fam
        BY <1>2, <3>2, CredentialUpdates
      <4>2. db'.cred = [db.cred EXCEPT !.reauth = TRUE]
        BY <2>2, <3>2 DEF Like
      <4> QED
        BY <3>2, <4>1, <4>2
    <3> QED
      BY <3>1, <3>2
  <2>4. lock' \in Locks /\ lock'.credential = Nobody
    BY <1>4, WorkerFacts, LockUpdates DEF Left, Drop
  <2>5. SharedTypes' /\ HandshakeKept
    BY <1>1, <2>2, <2>4, WorkerFacts, StoreFields DEF SharedTypes, HandshakeKept, Like
  <2>6. /\ TypeInv' /\ Alone(p) /\ InnerStep(p)
        /\ pc'[p] \notin CredentialPlaces /\ loc'[p].cred \in {db.cred, NoCred}
        /\ loc'[p].store.cred \in {loc[p].store.cred, FreshStore.cred}
    BY <1>1, <1>2, <1>4, <2>1, <2>5, RefreshLeft, SMTT(60) DEF Left
  <2>7. Issued(db.cred)'
    BY <1>1, <2>3 DEF Issued, CredentialInv, IssueInv
  <2>8. RecoverableUnlessUndone'
    BY <1>1, <2>3, SMTT(60) DEF CredentialInv, RecoverableUnlessUndone, Recoverable
  <2>9. FamilyUnmixed'
    BY <1>1, <2>3 DEF CredentialInv, FamilyUnmixed
  <2> QED
    BY <1>1, <1>2, <2>3, <2>4, <2>6, <2>7, <2>8, <2>9, LeavingKeeps DEF StaysDeleted
<1>5. ASSUME MayFinish(c), db' = FinishedRefresh(c), Goto(p, "r_status"),
             UNCHANGED <<lock, loc>>
      PROVE  TypeInv' /\ Alone(p) /\ InnerStep(p) /\ CredentialInv' /\ StaysDeleted
  <2> DEFINE t == <<c.tok[1], srv[c.tok[1]].gen>>
             new == [db.cred EXCEPT !.tok = t, !.reauth = FALSE]
  <2>1. /\ db.cred # NoCred /\ c.tok[1] \in Families
        /\ t \in Families \X (Nat \ {0})
    <3>1. c.tok \in Families \X (Nat \ {0})
      BY <1>2, CredentialUpdates
    <3> QED
      BY <1>2, <1>5, <3>1 DEF MayFinish, Family
  <2>2. Like(db', db, new)
    BY <1>2, <1>5, <2>1, StoreUpdates, Zenon DEF FinishedRefresh
  <2>3. new # NoCred /\ new.tok = t /\ new.fam = db.cred.fam
    <3>1. \A u \in Families \X (Nat \ {0}) :
            LET d == [db.cred EXCEPT !.tok = u, !.reauth = FALSE]
            IN  /\ d \in GoodCreds /\ d # NoCred /\ d.rot = db.cred.rot
                /\ d.tok = u /\ d.fam = db.cred.fam
      BY <1>2, <2>1, CredentialUpdates, Zenon
    <3> QED
      BY <2>1, <3>1, Zenon
  <2> HIDE DEF new
  <2>4. SharedTypes' /\ HandshakeKept
    BY <1>1, <1>5, <2>2, WorkerFacts, StoreFields DEF SharedTypes, HandshakeKept, Like
  <2>5. Recalls(loc[p], loc[p], loc[p].op, loc[p].cred) /\ "r_status" \in RefreshPlaces
    BY WorkerFacts, SameMemory DEF RefreshPlaces
  <2>6. /\ TypeInv' /\ Alone(p) /\ InnerStep(p) /\ pc'[p] = "r_status"
        /\ loc'[p].cred = c /\ loc'[p].store = loc[p].store
    BY <1>1, <1>2, <1>5, <2>4, <2>5, RefreshOn
  <2>7. db'.cred = new /\ t[1] = c.tok[1] /\ t[2] = srv[c.tok[1]].gen
    BY <2>2 DEF Like
  <2>8. Issued(db.cred)' /\ Issued(loc[p].cred)'
    BY <1>1, <1>2, <2>3, <2>6, <2>7, Zenon DEF Issued, CredentialInv, IssueInv
  <2>9. undone \/ db.cred = c
    BY <1>1, <1>2, <2>1, SMTT(60) DEF CredentialInv, CopyInv, Copied
  <2>10. undone \/ c.tok[1] = c.fam
    BY <1>2 DEF CredentialInv, CopyInv, Copied
  <2>11. FamilyUnmixed'
    BY <1>1, <2>3, <2>7, <2>9, <2>10 DEF FamilyUnmixed
  <2>12. RecoverableUnlessUndone'
    BY <1>1, <2>3, <2>7 DEF RecoverableUnlessUndone, Recoverable
  <2>13. Copied(p)'
    BY <1>1, <2>3, <2>6, <2>7, <2>10 DEF Copied
  <2>14. \A f \in Families : srv'[f].state = "unissued" => srv'[f].gen = 1
    BY <1>1 DEF CredentialInv, IssueInv
  <2>15. lock'.credential = p
    BY <1>2, <1>5
  <2> QED
    BY <1>1, <1>2, <2>1, <2>6, <2>8, <2>11, <2>12, <2>13, <2>14, <2>15, HolderStepKeeps
       DEF StaysDeleted
<1>6. ASSUME Left(p, "error"), UNCHANGED db
      PROVE  TypeInv' /\ Alone(p) /\ InnerStep(p) /\ CredentialInv' /\ StaysDeleted
  BY <1>1, <1>2, <1>3, <1>6, GivenUp
<1> QED
  BY <1>4, <1>5, <1>6 DEF RefreshAnswer

\* Once the new token was tried the rotation id is forgotten.
LEMMA RefreshStatusStep ==
  ASSUME TypeInv, CredentialInv, NEW p \in Worker, RefreshStatus(p)
  PROVE  TypeInv' /\ Alone(p) /\ InnerStep(p) /\ CredentialInv' /\ StaysDeleted
<1>1. /\ pc[p] = "r_status" /\ pc[p] \in RefreshPlaces \ {"r_lock"}
      /\ pc[p] \in CredentialPlaces
      /\ UNCHANGED <<file, srv, lapsed, rots, loaded, running, undone, died>>
  BY DEF RefreshStatus, daemonVars, history, RefreshPlaces, CredentialPlaces
<1>2. /\ lock.credential = p /\ HolderInv /\ p \in Procs
      /\ srv \in [Families -> Family] /\ db.cred \in GoodCreds /\ db \in GoodStores
  BY <1>1, WorkerFacts, StoreFields DEF CredentialInv, HolderInv
<1>3. NoneRotated(srv')
  BY <1>1, <1>2, FamiliesKept
<1>4. ASSUME Accepted(db.cred.tok), db' = [db EXCEPT !.cred.rot = 0], Left(p, "ok")
      PROVE  TypeInv' /\ Alone(p) /\ InnerStep(p) /\ CredentialInv' /\ StaysDeleted
  <2>1. db.cred # NoCred
    BY <1>4 DEF Accepted
  <2>2. Like(db', db, [db.cred EXCEPT !.rot = 0])
    BY <1>2, <1>4, <2>1, StoreUpdates
  <2>3. /\ db'.cred # NoCred /\ db'.cred.tok = db.cred.tok /\ db'.cred.fam = db.cred.fam
    <3>1. \A n \in Nat : LET d == [db.cred EXCEPT !.rot = n]
                         IN  /\ d \in GoodCreds /\ d # NoCred /\ d.rot = n
                             /\ d.tok = db.cred.tok /\ d.fam = db.cred.fam
                             /\ d.reauth = db.cred.reauth
      BY <1>2, <2>1, CredentialUpdates
    <3> QED
      BY <2>2, <3>1 DEF Like
  <2>4. lock' \in Locks /\ lock'.credential = Nobody
    BY <1>4, WorkerFacts, LockUpdates DEF Left, Drop
  <2>5. SharedTypes' /\ HandshakeKept
    BY <1>1, <2>2, <2>4, WorkerFacts, StoreFields DEF SharedTypes, HandshakeKept, Like
  <2>6. /\ TypeInv' /\ Alone(p) /\ InnerStep(p)
        /\ pc'[p] \notin CredentialPlaces /\ loc'[p].cred \in {db.cred, NoCred}
        /\ loc'[p].store.cred \in {loc[p].store.cred, FreshStore.cred}
    BY <1>1, <1>2, <1>4, <2>5, RefreshLeft DEF Left
  <2>7. Issued(db.cred)'
    BY <1>1, <2>1, <2>3, SMTT(60) DEF Issued, CredentialInv, IssueInv
  <2>8. RecoverableUnlessUndone'
    BY <1>1, <1>2, <2>1, <2>3
       DEF CredentialInv, CopyInv, Copied, RecoverableUnlessUndone, Recoverable
  <2>9. FamilyUnmixed'
    BY <1>1, <2>3 DEF CredentialInv, FamilyUnmixed
  <2> QED
    BY <1>1, <1>2, <2>1, <2>4, <2>6, <2>7, <2>8, <2>9, LeavingKeeps DEF StaysDeleted
<1>5. ASSUME Left(p, "error"), UNCHANGED db
      PROVE  TypeInv' /\ Alone(p) /\ InnerStep(p) /\ CredentialInv' /\ StaysDeleted
  BY <1>1, <1>2, <1>3, <1>5, GivenUp
<1> QED
  BY <1>4, <1>5 DEF RefreshStatus

\* A request or its answer is lost.
LEMMA RefreshLostStep ==
  ASSUME TypeInv, CredentialInv, NEW p \in Worker, RefreshLost(p)
  PROVE  TypeInv' /\ Alone(p) /\ InnerStep(p) /\ CredentialInv' /\ StaysDeleted
<1>1. /\ UNCHANGED <<file, db, lapsed, rots, loaded, running, undone, died>>
      /\ p \in Procs /\ srv \in [Families -> Family] /\ HolderInv
  BY WorkerFacts DEF RefreshLost, daemonVars, history, CredentialInv
<1>2. CASE pc[p] \in {"r_post", "r_answer"} /\ Left(p, "error") /\ UNCHANGED srv
  BY <1>1, <1>2, FamiliesKept, GivenUp DEF RefreshPlaces
<1>3. CASE /\ pc[p] = "r_answer" /\ Goto(p, "r_post")
           /\ loc' = [loc EXCEPT ![p].ans = "none"] /\ UNCHANGED <<lock, srv>>
  <2> DEFINE m == [loc[p] EXCEPT !.ans = "none"]
  <2>1. loc' = [loc EXCEPT ![p] = m] /\ Recalls(m, loc[p], loc[p].op, loc[p].cred)
    BY <1>3, WorkerFacts, MemoryUpdates, Zenon
  <2>2. SharedTypes' /\ HandshakeKept /\ NoneRotated(srv')
    BY <1>1, <1>3, WorkerFacts, StoreFields, FamiliesKept DEF SharedTypes, HandshakeKept
  <2>3. /\ pc[p] \in RefreshPlaces /\ "r_post" \in RefreshPlaces /\ lock.credential = p
        /\ loc[p].cred \in GoodCreds /\ loc[p].cred # NoCred
    BY <1>1, <1>3, WorkerFacts, MemoryFields
       DEF RefreshPlaces, HolderInv, CredentialPlaces, Placed
  <2> HIDE DEF m
  <2>4. /\ TypeInv' /\ Alone(p) /\ InnerStep(p) /\ pc'[p] = "r_post"
        /\ loc'[p].cred = loc[p].cred /\ loc'[p].store = loc[p].store
    <3>1. /\ lock'.mutation = lock.mutation /\ lock'.daemon = lock.daemon
          /\ running' = running /\ Goto(p, "r_post")
      BY <1>1, <1>3
    <3>2. PICK c \in GoodCreds : c = loc[p].cred /\ c # NoCred
      BY <2>3
    <3>3. Recalls(m, loc[p], loc[p].op, c)
      BY <2>1, <3>2
    <3>4. loc' = [loc EXCEPT ![p] = m] \/ (loc' = loc /\ m = loc[p])
      BY <2>1
    <3>5. SharedTypes' /\ HandshakeKept /\ pc[p] \in RefreshPlaces
      BY <2>2, <2>3
    <3>6. "r_post" \in RefreshPlaces
      BY <2>3
    <3> QED
      BY <3>1, <3>2, <3>3, <3>4, <3>5, <3>6, RefreshOn
  <2>5. NeutralStep(p)
    BY <1>1, <1>3, <2>2, <2>3, <2>4 DEF NeutralStep, CredentialInv, CopyInv, Copied
  <2> QED
    BY <1>1, <2>4, <2>5, NeutralStepKeeps DEF StaysDeleted
<1>4. CASE /\ pc[p] = "r_activate" /\ Left(p, "error")
           /\ srv' \in {srv, Activated(loc[p].cred.tok[1])}
  <2>1. loc[p].cred \in GoodCreds /\ loc[p].cred # NoCred
    BY <1>4, WorkerFacts, MemoryFields DEF Placed
  <2>2. loc[p].cred.tok[1] \in Families
    BY <2>1, CredentialUpdates
  <2>3. srv' \in [Families -> Family] /\ NoneRotated(srv')
    BY <1>1, <1>4, <2>2, FamiliesKept
  <2> QED
    BY <1>1, <1>4, <2>3, GivenUp DEF RefreshPlaces
<1> QED
  BY <1>2, <1>3, <1>4 DEF RefreshLost

-----------------------------------------------------------------------------
(* The steps of a command that leave the handshake alone. *)

InnerPlaces ==
  {"l_lock", "l_exchange", "l_store", "l_activate", "x_delete", "x_post", "x_pat", "v_post",
   "v_delete", "m_write", "m_revision", "m_undo", "m_leave", "r_lock"}

\* A command is not the daemon.
LEMMA CommandFacts ==
  ASSUME TypeInv, NEW p \in Commands
  PROVE  p \in Worker /\ p # Calls /\ p # Loop
  BY ProfileAssumption DEF Worker, ProfileAssumption

\* A command goes on inside its mutation.
LEMMA CommandOn ==
  ASSUME TypeInv, LockInv, NEW p \in Commands, pc[p] \in MutationPlaces,
         NEW place \in InnerPlaces, NEW o \in Ops, NEW c \in GoodCreds, NEW m,
         Recalls(m, loc[p], o, c), Goto(p, place),
         loc' = [loc EXCEPT ![p] = m] \/ (loc' = loc /\ m = loc[p]),
         place \in {"l_store", "l_activate"} => c.fam \in Families,
         SharedTypes', lock'.mutation = lock.mutation, lock'.daemon = lock.daemon,
         running' = running, HandshakeKept
  PROVE  /\ TypeInv' /\ Alone(p) /\ InnerStep(p) /\ pc'[p] = place /\ loc'[p] = m
         /\ loc'[p].cred = c /\ loc'[p].store = loc[p].store /\ lock.mutation = p
<1>1. m \in Memory /\ m.op = o /\ m.kept = loc[p].kept /\ m.store = loc[p].store /\ m.cred = c
  BY DEF Recalls
<1>2. p \in Worker /\ place \in Places(p) /\ lock.mutation = p
  BY CommandFacts
     DEF Places, InnerPlaces, CommandPlaces, RefreshPlaces, LockInv, Locked
<1>3. Placed(p, place, m, lock.mutation)
  BY <1>1, <1>2 DEF Placed, InnerPlaces
<1>4. pc' = [pc EXCEPT ![p] = place]
  BY DEF Goto
<1>5. place \notin {"m_restore", "m_enter", "m_wait", "m_backup"}
  BY DEF InnerPlaces
<1>6. m.kept => loc[p].kept /\ m.store = loc[p].store
  BY <1>1
<1>7. place \in MutationPlaces => lock.mutation = p
  BY <1>2
<1>8. /\ TypeInv' /\ Alone(p) /\ InnerStep(p)
      /\ pc'[p] = place /\ loc'[p] = m
  BY <1>1, <1>2, <1>3, <1>4, <1>5, <1>6, <1>7, InnerMove
<1> QED
  BY <1>1, <1>2, <1>8

\* A command ends.
LEMMA FinishedStep ==
  ASSUME TypeInv, NEW p \in Commands, Finish(p), SharedTypes',
         lock'.mutation = lock.mutation, lock'.daemon = lock.daemon,
         running' = running, HandshakeKept
  PROVE  /\ TypeInv' /\ Alone(p) /\ InnerStep(p) /\ pc'[p] = "done" /\ loc'[p] = NoMemory
<1>1. p \in Worker /\ "done" \in Places(p)
  BY CommandFacts DEF Places, CommandPlaces
<1>2. Placed(p, "done", NoMemory, lock.mutation)
  BY DEF Placed, RefreshPlaces
<1>3. pc' = [pc EXCEPT ![p] = "done"] /\ loc' = [loc EXCEPT ![p] = NoMemory]
  BY DEF Finish, Goto
<1>4. "done" \notin MutationPlaces /\ "done" \notin {"m_restore", "m_enter", "m_wait", "m_backup"}
  BY DEF MutationPlaces
<1>5. NoMemory \in Memory /\ NoMemory.kept = FALSE
  BY NothingInMemory
<1> QED
  BY <1>1, <1>2, <1>3, <1>4, <1>5, InnerMove

\* A command begins.
LEMMA BeginStep ==
  ASSUME TypeInv, CredentialInv, NEW p \in Commands, Begin(p)
  PROVE  TypeInv' /\ Alone(p) /\ InnerStep(p) /\ CredentialInv' /\ StaysDeleted
<1>1. /\ p \in Worker /\ p \in Procs /\ pc[p] = "new"
      /\ UNCHANGED <<file, db, lock, srv, lapsed, rots, loaded, running, undone, died>>
  BY CommandFacts, WorkerFacts DEF Begin, world, daemonVars, history
<1>2. SharedTypes' /\ HandshakeKept /\ NoneRotated(srv')
  BY <1>1, WorkerFacts, StoreFields, FamiliesKept DEF SharedTypes, HandshakeKept
<1>3. CASE Finish(p)
  <2>1. /\ TypeInv' /\ Alone(p) /\ InnerStep(p) /\ pc'[p] = "done" /\ loc'[p] = NoMemory
    BY <1>1, <1>2, <1>3, FinishedStep
  <2>2. NeutralStep(p)
    BY <1>1, <1>2, <2>1, NothingInMemory DEF NeutralStep, CredentialPlaces
  <2> QED
    BY <1>1, <2>1, <2>2, NeutralStepKeeps DEF StaysDeleted
<1>4. ASSUME NEW op \in Operations[p], loc' = [loc EXCEPT ![p].op = op],
             Goto(p, IF op = "login" THEN "reconcile" ELSE "m_lock")
      PROVE  TypeInv' /\ Alone(p) /\ InnerStep(p) /\ CredentialInv' /\ StaysDeleted
  <2> DEFINE m == [loc[p] EXCEPT !.op = op]
             place == IF op = "login" THEN "reconcile" ELSE "m_lock"
  <2>1. op \in {"refresh", "login", "workspace", "capacity", "logout", "set_pat", "revoke"}
    BY ProfileAssumption DEF ProfileAssumption
  <2>2. op \in Ops /\ op \in MutationOps \cup {"capacity"}
    BY <2>1 DEF Ops, MutationOps
  <2>3. loc' = [loc EXCEPT ![p] = m] /\ Recalls(m, loc[p], op, loc[p].cred)
    BY <1>1, <1>4, <2>2, WorkerFacts, MemoryUpdates, Zenon
  <2>4. /\ m \in Memory /\ m.op = op /\ m.kept = loc[p].kept /\ m.store = loc[p].store
        /\ m.cred = loc[p].cred
    BY <2>3 DEF Recalls
  <2>5. place \in Places(p) /\ pc' = [pc EXCEPT ![p] = place]
    BY <1>1, <1>4, CommandFacts DEF Places, CommandPlaces, Goto
  <2>6. Placed(p, place, m, lock.mutation)
    BY <2>2, <2>4 DEF Placed, RefreshPlaces
  <2>7. /\ place \notin MutationPlaces
        /\ place \notin {"m_restore", "m_enter", "m_wait", "m_backup"}
        /\ place \notin CredentialPlaces /\ place \notin {"r_status", "l_store"}
        /\ place \notin {"r_activate", "r_prepare", "r_post", "r_answer"}
    BY DEF MutationPlaces, CredentialPlaces
  <2>8. m.kept => loc[p].kept /\ m.store = loc[p].store
    BY <2>4
  <2> HIDE DEF m, place
  <2>9. /\ TypeInv' /\ Alone(p) /\ InnerStep(p) /\ pc'[p] = place /\ loc'[p] = m
    BY <1>1, <1>2, <2>3, <2>4, <2>5, <2>6, <2>7, <2>8, InnerMove, ZenonT(60)
  <2>10. NeutralStep(p)
    BY <1>1, <1>2, <2>4, <2>7, <2>9 DEF NeutralStep
  <2> QED
    BY <1>1, <2>9, <2>10, NeutralStepKeeps DEF StaysDeleted
<1> QED
  BY <1>3, <1>4 DEF Begin

\* A login is decided to be a renewal or a replacement, or asks Tether Brain first.
LEMMA Reconciled ==
  ASSUME TypeInv, CredentialInv, NEW p \in Commands, pc[p] = "reconcile",
         NEW place \in {"m_lock", "r_lock"}, NEW o \in {"login", "replace"},
         place = "r_lock" => o = "login", Goto(p, place),
         NEW m, Recalls(m, loc[p], o, loc[p].cred),
         loc' = [loc EXCEPT ![p] = m] \/ (loc' = loc /\ m = loc[p]),
         Like(db', db, db.cred),
         UNCHANGED <<file, lock, srv, lapsed, rots, loaded, running, undone, died>>
  PROVE  TypeInv' /\ Alone(p) /\ InnerStep(p) /\ CredentialInv' /\ StaysDeleted
<1>1. p \in Worker /\ p \in Procs
  BY CommandFacts, WorkerFacts
<1>2. SharedTypes' /\ HandshakeKept /\ NoneRotated(srv') /\ db'.cred = db.cred
  BY <1>1, WorkerFacts, StoreFields, FamiliesKept DEF SharedTypes, HandshakeKept, Like
<1>3. m \in Memory /\ m.op = o /\ m.kept = loc[p].kept /\ m.store = loc[p].store
      /\ m.cred = loc[p].cred
  BY DEF Recalls
<1>4. place \in Places(p) /\ pc' = [pc EXCEPT ![p] = place]
  BY <1>1, CommandFacts DEF Places, CommandPlaces, RefreshPlaces, Goto
<1>5. Placed(p, place, m, lock.mutation)
  BY <1>3 DEF Placed, RefreshPlaces, MutationOps
<1>6. /\ place \notin MutationPlaces
      /\ place \notin {"m_restore", "m_enter", "m_wait", "m_backup"}
      /\ place \notin CredentialPlaces /\ place \notin {"r_status", "l_store"}
      /\ place \notin {"r_activate", "r_prepare", "r_post", "r_answer"}
  BY DEF MutationPlaces, CredentialPlaces
<1>7. m.kept => loc[p].kept /\ m.store = loc[p].store
  BY <1>3
<1>8. /\ lock'.mutation = lock.mutation /\ lock'.daemon = lock.daemon /\ running' = running
      /\ lock' = lock /\ undone' = undone
  OBVIOUS
<1>9. /\ TypeInv' /\ Alone(p) /\ InnerStep(p) /\ pc'[p] = place /\ loc'[p] = m
  BY <1>1, <1>2, <1>3, <1>4, <1>5, <1>6, <1>7, <1>8, InnerMove
<1>10. NeutralStep(p)
  BY <1>1, <1>2, <1>3, <1>6, <1>8, <1>9 DEF NeutralStep
<1> QED
  BY <1>1, <1>2, <1>9, <1>10, NeutralStepKeeps DEF StaysDeleted

\* A login asks whether it renews or replaces the credential.
LEMMA ReconcileStep ==
  ASSUME TypeInv, CredentialInv, NEW p \in Commands, Reconcile(p)
  PROVE  TypeInv' /\ Alone(p) /\ InnerStep(p) /\ CredentialInv' /\ StaysDeleted
<1>1. /\ p \in Worker /\ p \in Procs /\ pc[p] = "reconcile" /\ loc[p].op = "login"
      /\ UNCHANGED <<file, lock, srv, lapsed, rots, loaded, running, undone, died>>
  BY CommandFacts, WorkerFacts DEF Reconcile, daemonVars, history, Placed
<1>2. loc[p] \in Memory /\ Recalls(loc[p], loc[p], "login", loc[p].cred)
      /\ db \in GoodStores /\ loc \in [Procs -> Memory]
  BY <1>1, WorkerFacts, SameMemory
<1>3. db' = db => Like(db', db, db.cred)
  BY <1>2 DEF Like
<1>4. CASE Goto(p, "m_lock") /\ db' = db /\ loc' = loc
  BY <1>1, <1>2, <1>3, <1>4, Reconciled
<1>5. CASE Goto(p, "m_lock") /\ db' = db /\ loc' = [loc EXCEPT ![p].op = "replace"]
  <2> DEFINE m == [loc[p] EXCEPT !.op = "replace"]
  <2>1. Recalls(m, loc[p], "replace", loc[p].cred)
    BY <1>2, MemoryUpdates, Zenon DEF Ops, MutationOps
  <2>2. loc' = [loc EXCEPT ![p] = m]
    BY <1>5
  <2> HIDE DEF m
  <2> QED
    BY <1>1, <1>3, <1>5, <2>1, <2>2, Reconciled
<1>6. ASSUME NEW probe \in BOOLEAN, Goto(p, "r_lock"), db' = db,
             loc' = [loc EXCEPT ![p].force = TRUE, ![p].probe = probe]
      PROVE  TypeInv' /\ Alone(p) /\ InnerStep(p) /\ CredentialInv' /\ StaysDeleted
  <2> DEFINE m == [loc[p] EXCEPT !.force = TRUE, !.probe = probe]
  <2>1. Recalls(m, loc[p], "login", loc[p].cred)
    BY <1>1, <1>2, MemoryUpdates, Zenon
  <2>2. loc' = [loc EXCEPT ![p] = m]
    BY <1>1, <1>2, <1>6
  <2> HIDE DEF m
  <2> QED
    BY <1>1, <1>3, <1>6, <2>1, <2>2, Reconciled
<1>7. CASE Goto(p, "r_lock") /\ db' = [db EXCEPT !.pending = TRUE] /\ loc' = loc
  <2>1. Like(db', db, db.cred)
    BY <1>2, <1>7, StoreUpdates
  <2> QED
    BY <1>1, <1>2, <1>7, <2>1, Reconciled
<1>8. CASE Finish(p) /\ db' = db
  <2>1. SharedTypes' /\ HandshakeKept /\ NoneRotated(srv')
    BY <1>1, <1>8, WorkerFacts, StoreFields, FamiliesKept DEF SharedTypes, HandshakeKept
  <2>2. /\ TypeInv' /\ Alone(p) /\ InnerStep(p) /\ pc'[p] = "done" /\ loc'[p] = NoMemory
    BY <1>1, <1>8, <2>1, FinishedStep
  <2>3. NeutralStep(p)
    BY <1>1, <1>8, <2>1, <2>2, NothingInMemory DEF NeutralStep, CredentialPlaces
  <2> QED
    BY <1>1, <1>8, <2>2, <2>3, NeutralStepKeeps DEF StaysDeleted
<1> QED
  BY <1>4, <1>5, <1>6, <1>7, <1>8 DEF Reconcile

\* A step inside a mutation that changes no credential, except that it may delete it.
LEMMA CommandNeutral ==
  ASSUME TypeInv, LockInv, CredentialInv, NEW p \in Commands, pc[p] \in MutationPlaces,
         NEW place \in InnerPlaces \ {"l_exchange", "l_store", "l_activate"}, NEW o \in Ops,
         NEW c \in {loc[p].cred, NoCred}, NEW m, Recalls(m, loc[p], o, c), Goto(p, place),
         loc' = [loc EXCEPT ![p] = m] \/ (loc' = loc /\ m = loc[p]),
         \/ lock' = lock
         \/ pc[p] \in CredentialPlaces /\ Drop("credential"),
         db' = db \/ Like(db', db, db.cred) \/ Like(db', db, NoCred),
         file' \in Files, srv' \in [Families -> Family], NoneRotated(srv'),
         UNCHANGED <<lapsed, rots, loaded, running, undone, died>>
  PROVE  TypeInv' /\ Alone(p) /\ InnerStep(p) /\ CredentialInv' /\ StaysDeleted
<1>1. /\ p \in Worker /\ p \in Procs /\ p # Nobody /\ loc[p].cred \in GoodCreds
      /\ db \in GoodStores /\ lock \in Locks
  BY CommandFacts, WorkerFacts, MemoryFields
<1>2. /\ lock' \in Locks /\ lock'.mutation = lock.mutation /\ lock'.daemon = lock.daemon
      /\ \A q \in Procs \ {p} : lock.credential = q => lock'.credential = q
  <2>1. CASE lock' = lock
    BY <1>1, <2>1
  <2>2. CASE pc[p] \in CredentialPlaces /\ Drop("credential")
    <3>1. lock.credential = p
      BY <1>1, <2>2 DEF CredentialInv, HolderInv
    <3> QED
      BY <1>1, <2>2, <3>1, LockUpdates DEF Drop
  <2> QED
    BY <2>1, <2>2
<1>3. HandshakeKept /\ db'.cred \in {db.cred, NoCred} /\ db' \in GoodStores
  BY <1>1, StoreFields DEF HandshakeKept, Like
<1>4. SharedTypes'
  BY <1>1, <1>2, <1>3, WorkerFacts DEF SharedTypes
<1>5. c \in GoodCreds /\ place \in InnerPlaces /\ place \notin {"l_store", "l_activate"}
  BY <1>1, NewCredentials
<1>6. /\ place \notin CredentialPlaces /\ place \notin {"r_status", "l_store"}
      /\ place \notin {"r_activate", "r_prepare", "r_post", "r_answer"}
  BY DEF InnerPlaces, CredentialPlaces
<1>7. /\ TypeInv' /\ Alone(p) /\ InnerStep(p) /\ pc'[p] = place
      /\ loc'[p].cred = c /\ loc'[p].store = loc[p].store
  <2>1. running' = running
    OBVIOUS
  <2> QED
    BY <1>2, <1>3, <1>4, <1>5, <2>1, CommandOn
<1>8. NeutralStep(p)
  BY <1>2, <1>3, <1>6, <1>7 DEF NeutralStep
<1> QED
  BY <1>1, <1>3, <1>7, <1>8, NeutralStepKeeps DEF StaysDeleted

\* The configuration is written, or cannot be.
LEMMA WriteConfigStep ==
  ASSUME TypeInv, LockInv, CredentialInv, NEW p \in Commands, WriteConfig(p)
  PROVE  TypeInv' /\ Alone(p) /\ InnerStep(p) /\ CredentialInv' /\ StaysDeleted
<1>1. /\ pc[p] \in MutationPlaces
      /\ UNCHANGED <<db, lock, srv, loc, lapsed, rots, loaded, running, undone, died>>
  BY DEF WriteConfig, MutationPlaces, daemonVars, history
<1>2. /\ p \in Worker /\ loc[p] \in Memory /\ srv \in [Families -> Family] /\ file \in Files
      /\ NoneRotated(srv') /\ Recalls(loc[p], loc[p], loc[p].op, loc[p].cred)
      /\ loc[p].op \in Ops /\ loc[p].conf \in Files
  BY <1>1, CommandFacts, WorkerFacts, MemoryFields, SameMemory, FamiliesKept DEF SharedTypes
<1>3. Proposed(p) \in Files
  <2>1. /\ loc[p].conf.rev \in Nat /\ loc[p].conf.body \in Commands \cup {Nobody}
        /\ loc[p].conf.cap \in {1, 2}
    BY <1>2 DEF Files
  <2>2. loc[p].conf.rev + 1 \in Nat
    BY <2>1
  <2> QED
    BY <2>1, <2>2 DEF Proposed, Files
<1>4. PICK place \in {"m_revision", "m_undo"} : Goto(p, place) /\ file' \in Files
  BY <1>2, <1>3 DEF WriteConfig
<1>5. place \in InnerPlaces \ {"l_exchange", "l_store", "l_activate"}
  BY DEF InnerPlaces
<1> QED
  BY <1>1, <1>2, <1>4, <1>5, CommandNeutral

\* The revision becomes visible.
LEMMA SetRevisionStep ==
  ASSUME TypeInv, LockInv, CredentialInv, NEW p \in Commands, SetRevision(p)
  PROVE  TypeInv' /\ Alone(p) /\ InnerStep(p) /\ CredentialInv' /\ StaysDeleted
<1>1. /\ pc[p] \in MutationPlaces /\ db' = [db EXCEPT !.rev = file.rev]
      /\ UNCHANGED <<file, lock, srv, loc, lapsed, rots, loaded, running, undone, died>>
  BY DEF SetRevision, MutationPlaces, daemonVars, history
<1>2. /\ p \in Worker /\ loc[p] \in Memory /\ srv \in [Families -> Family] /\ file \in Files
      /\ NoneRotated(srv') /\ Recalls(loc[p], loc[p], loc[p].op, loc[p].cred)
      /\ loc[p].op \in Ops /\ file.rev \in Nat /\ db \in GoodStores
  BY <1>1, CommandFacts, WorkerFacts, MemoryFields, SameMemory, FamiliesKept
     DEF SharedTypes, Files
<1>3. Like(db', db, db.cred)
  BY <1>1, <1>2, StoreUpdates
<1>4. PICK place \in {"m_leave", "m_undo"} : Goto(p, place)
  BY DEF SetRevision
<1>5. place \in InnerPlaces \ {"l_exchange", "l_store", "l_activate"}
  BY DEF InnerPlaces
<1>6. file' \in Files /\ srv' \in [Families -> Family] /\ lock' = lock
  BY <1>1, <1>2
<1> QED
  BY <1>1, <1>2, <1>3, <1>4, <1>5, <1>6, CommandNeutral

\* The credential is deleted.
LEMMA DeletionStep ==
  ASSUME TypeInv, LockInv, CredentialInv, NEW p \in Commands,
         Logout(p) \/ StorePat(p) \/ DeleteRevoked(p)
  PROVE  TypeInv' /\ Alone(p) /\ InnerStep(p) /\ CredentialInv' /\ StaysDeleted
<1>1. /\ pc[p] \in MutationPlaces /\ Goto(p, "m_write")
      /\ UNCHANGED <<file, lock, srv, loc, lapsed, rots, loaded, running, undone, died>>
  BY DEF Logout, StorePat, DeleteRevoked, MutationPlaces, world, daemonVars, history
<1>2. /\ p \in Worker /\ loc[p] \in Memory /\ srv \in [Families -> Family] /\ file \in Files
      /\ NoneRotated(srv') /\ Recalls(loc[p], loc[p], loc[p].op, loc[p].cred)
      /\ loc[p].op \in Ops /\ db \in GoodStores
  BY <1>1, CommandFacts, WorkerFacts, MemoryFields, SameMemory, FamiliesKept
     DEF SharedTypes
<1>3. Like(db', db, NoCred)
  BY <1>2, StoreUpdates DEF Logout, StorePat, DeleteRevoked
<1>4. "m_write" \in InnerPlaces \ {"l_exchange", "l_store", "l_activate"}
  BY DEF InnerPlaces
<1>5. file' \in Files /\ srv' \in [Families -> Family] /\ lock' = lock
  BY <1>1, <1>2
<1> QED
  BY <1>1, <1>2, <1>3, <1>4, <1>5, CommandNeutral

\* Tether Brain ends the credentials of the installation.
LEMMA PostUsePatStep ==
  ASSUME TypeInv, LockInv, CredentialInv, NEW p \in Commands, PostUsePat(p)
  PROVE  TypeInv' /\ Alone(p) /\ InnerStep(p) /\ CredentialInv' /\ StaysDeleted
<1>1. /\ pc[p] \in MutationPlaces
      /\ UNCHANGED <<file, db, lock, loc, lapsed, rots, loaded, running, undone, died>>
  BY DEF PostUsePat, MutationPlaces, daemonVars, history
<1>2. /\ p \in Worker /\ loc[p] \in Memory /\ srv \in [Families -> Family] /\ file \in Files
      /\ Recalls(loc[p], loc[p], loc[p].op, loc[p].cred) /\ loc[p].op \in Ops
  BY CommandFacts, WorkerFacts, MemoryFields, SameMemory DEF SharedTypes
<1>3. srv' \in [Families -> Family] /\ NoneRotated(srv')
  <2>1. srv' \in {srv, Killed("dead")}
    BY DEF PostUsePat
  <2> QED
    BY <1>2, <2>1, FamiliesKept
<1>4. PICK place \in {"x_pat", "m_undo"} : Goto(p, place)
  BY DEF PostUsePat
<1>5. place \in InnerPlaces \ {"l_exchange", "l_store", "l_activate"}
  BY DEF InnerPlaces
<1>6. file' \in Files
  BY <1>1, <1>2
<1> QED
  BY <1>1, <1>2, <1>3, <1>4, <1>5, <1>6, CommandNeutral

\* Tether Brain revokes the installation, or refuses.
LEMMA PostRevokeStep ==
  ASSUME TypeInv, LockInv, CredentialInv, NEW p \in Commands, PostRevoke(p)
  PROVE  TypeInv' /\ Alone(p) /\ InnerStep(p) /\ CredentialInv' /\ StaysDeleted
<1>1. /\ pc[p] \in MutationPlaces
      /\ UNCHANGED <<file, db, lock, lapsed, rots, loaded, running, undone, died>>
  BY DEF PostRevoke, MutationPlaces, daemonVars, history
<1>2. /\ p \in Worker /\ loc[p] \in Memory /\ srv \in [Families -> Family] /\ file \in Files
      /\ Recalls(loc[p], loc[p], loc[p].op, loc[p].cred) /\ loc[p].op \in Ops
      /\ loc \in [Procs -> Memory] /\ p \in Procs
  BY CommandFacts, WorkerFacts, MemoryFields, SameMemory DEF SharedTypes
<1>3. srv' \in [Families -> Family] /\ NoneRotated(srv')
  <2>1. srv' \in {srv, Killed("revoked")}
    BY DEF PostRevoke
  <2> QED
    BY <1>2, <2>1, FamiliesKept
<1>4. file' \in Files
  BY <1>1, <1>2
<1>5. CASE loc' = loc /\ (Goto(p, "v_delete") \/ Goto(p, "m_undo"))
  <2>1. PICK place \in {"v_delete", "m_undo"} : Goto(p, place)
    BY <1>5
  <2>2. place \in InnerPlaces \ {"l_exchange", "l_store", "l_activate"}
    BY DEF InnerPlaces
  <2> QED
    BY <1>1, <1>2, <1>3, <1>4, <1>5, <2>1, <2>2, CommandNeutral
<1>6. CASE /\ Goto(p, "r_lock")
           /\ loc' = [loc EXCEPT ![p].op = "revoke again", ![p].force = TRUE]
  <2> DEFINE m == [loc[p] EXCEPT !.op = "revoke again", !.force = TRUE]
  <2>1. "revoke again" \in Ops /\ Recalls(m, loc[p], "revoke again", loc[p].cred)
    BY <1>2, MemoryUpdates, Zenon DEF Ops
  <2>2. loc' = [loc EXCEPT ![p] = m]
    BY <1>2, <1>6
  <2>3. "r_lock" \in InnerPlaces \ {"l_exchange", "l_store", "l_activate"}
    BY DEF InnerPlaces
  <2> HIDE DEF m
  <2> QED
    BY <1>1, <1>3, <1>4, <1>6, <2>1, <2>2, <2>3, CommandNeutral
<1> QED
  BY <1>5, <1>6 DEF PostRevoke

\* A login takes the lock of the credential, or gives up.
LEMMA LoginLockStep ==
  ASSUME TypeInv, LockInv, CredentialInv, NEW p \in Commands, LoginLock(p)
  PROVE  TypeInv' /\ Alone(p) /\ InnerStep(p) /\ CredentialInv' /\ StaysDeleted
<1>1. /\ pc[p] \in MutationPlaces
      /\ UNCHANGED <<file, db, srv, loc, lapsed, rots, loaded, running, undone, died>>
  BY DEF LoginLock, MutationPlaces, world, daemonVars, history
<1>2. /\ p \in Worker /\ p \in Procs /\ loc[p] \in Memory /\ srv \in [Families -> Family]
      /\ file \in Files /\ Recalls(loc[p], loc[p], loc[p].op, loc[p].cred)
      /\ loc[p].op \in Ops /\ loc[p].cred \in GoodCreds /\ lock \in Locks
      /\ Nobody \notin Procs
  BY CommandFacts, WorkerFacts, MemoryFields, SameMemory DEF SharedTypes
<1>3. NoneRotated(srv') /\ HandshakeKept
  BY <1>1, <1>2, WorkerFacts, StoreFields, FamiliesKept DEF HandshakeKept
<1>4. CASE Take(p, "credential") /\ Goto(p, "l_exchange")
  <2>1. /\ lock' \in Locks /\ lock'.credential = p /\ lock.credential = Nobody
        /\ lock'.mutation = lock.mutation /\ lock'.daemon = lock.daemon
    BY <1>2, <1>4, LockUpdates DEF Take
  <2>2. SharedTypes' /\ "l_exchange" \in InnerPlaces
    BY <1>1, <1>2, <2>1, WorkerFacts DEF SharedTypes, InnerPlaces
  <2>3. /\ TypeInv' /\ Alone(p) /\ InnerStep(p) /\ pc'[p] = "l_exchange"
        /\ loc'[p].cred = loc[p].cred /\ loc'[p].store = loc[p].store
    BY <1>1, <1>2, <1>3, <1>4, <2>1, <2>2, CommandOn
  <2>4. NeutralStep(p)
    BY <1>1, <1>2, <1>3, <2>1, <2>3 DEF NeutralStep
  <2> QED
    BY <1>1, <1>2, <2>3, <2>4, NeutralStepKeeps DEF StaysDeleted
<1>5. CASE lock.credential # Nobody /\ Goto(p, "m_undo") /\ UNCHANGED lock
  <2>1. "m_undo" \in InnerPlaces \ {"l_exchange", "l_store", "l_activate"}
    BY DEF InnerPlaces
  <2>2. file' \in Files /\ srv' \in [Families -> Family] /\ lock' = lock
    BY <1>1, <1>2, <1>5
  <2> QED
    BY <1>1, <1>2, <1>3, <1>5, <2>1, <2>2, CommandNeutral
<1> QED
  BY <1>4, <1>5 DEF LoginLock

\* The browser grants a family of tokens, or an error.
LEMMA LoginExchangeStep ==
  ASSUME TypeInv, LockInv, CredentialInv, NEW p \in Commands, LoginExchange(p)
  PROVE  TypeInv' /\ Alone(p) /\ InnerStep(p) /\ CredentialInv' /\ StaysDeleted
<1>1. /\ pc[p] = "l_exchange" /\ pc[p] \in MutationPlaces /\ pc[p] \in CredentialPlaces
      /\ UNCHANGED <<file, db, lapsed, rots, left, loaded, running, undone, died>>
  BY DEF LoginExchange, MutationPlaces, CredentialPlaces, world, daemonVars, history
<1>2. /\ p \in Worker /\ p \in Procs /\ loc[p] \in Memory /\ srv \in [Families -> Family]
      /\ file \in Files /\ Recalls(loc[p], loc[p], loc[p].op, loc[p].cred)
      /\ loc[p].op \in Ops /\ db \in GoodStores /\ db.cred \in GoodCreds
      /\ loc \in [Procs -> Memory]
  BY CommandFacts, WorkerFacts, MemoryFields, StoreFields, SameMemory DEF SharedTypes
<1>3. lock.credential = p
  BY <1>1, <1>2 DEF CredentialInv, HolderInv
<1>4. ASSUME NEW f \in Families, srv[f].state = "unissued",
             srv' = [srv EXCEPT ![f].state = "issued"],
             loc' = [loc EXCEPT ![p].cred = Cred(f, 1)], Goto(p, "l_store"), lock' = lock
      PROVE  TypeInv' /\ Alone(p) /\ InnerStep(p) /\ CredentialInv' /\ StaysDeleted
  <2> DEFINE m == [loc[p] EXCEPT !.cred = Cred(f, 1)]
             c == Cred(f, 1)
  <2>1. c \in GoodCreds /\ c # NoCred /\ c.tok = <<f, 1>> /\ c.fam = f
    BY NewCredentials
  <2>2. loc' = [loc EXCEPT ![p] = m] /\ Recalls(m, loc[p], loc[p].op, c)
    BY <1>2, <1>4, <2>1, MemoryUpdates, Zenon
  <2>3. /\ srv' \in [Families -> Family] /\ srv'[f].state = "issued"
        /\ \A g \in Families : srv'[g].gen = srv[g].gen /\ srv'[g].rot = srv[g].rot
        /\ \A g \in Families \ {f} : srv'[g] = srv[g]
    <3>1. LET t == [srv[f] EXCEPT !.state = "issued"]
          IN  t \in Family /\ t.gen = srv[f].gen /\ t.rot = srv[f].rot /\ t.state = "issued"
      BY <1>2 DEF Family
    <3>2. srv' = [srv EXCEPT ![f] = [srv[f] EXCEPT !.state = "issued"]]
      BY <1>4
    <3> QED
      BY <1>2, <3>1, <3>2
  <2> HIDE DEF m, c
  <2>4. SharedTypes' /\ HandshakeKept /\ "l_store" \in InnerPlaces /\ c.fam \in Families
    BY <1>1, <1>2, <1>4, <2>1, <2>3, WorkerFacts, StoreFields
       DEF SharedTypes, HandshakeKept, InnerPlaces
  <2>5. /\ lock'.mutation = lock.mutation /\ lock'.daemon = lock.daemon
        /\ lock'.credential = p /\ running' = running /\ undone' = undone
    BY <1>1, <1>3, <1>4
  <2>6. /\ TypeInv' /\ Alone(p) /\ InnerStep(p) /\ pc'[p] = "l_store"
        /\ loc'[p].cred = c /\ loc'[p].store = loc[p].store
    <3>1. pc[p] \in MutationPlaces /\ Goto(p, "l_store") /\ loc[p].op \in Ops /\ c \in GoodCreds
      BY <1>1, <1>2, <1>4, <2>1
    <3>2. loc' = [loc EXCEPT ![p] = m] \/ (loc' = loc /\ m = loc[p])
      BY <2>2
    <3>3. "l_store" \in InnerPlaces /\ c.fam \in Families /\ SharedTypes' /\ HandshakeKept
      BY <2>4
    <3>4. PICK o \in Ops : o = loc[p].op
      BY <3>1
    <3>5. Recalls(m, loc[p], o, c)
      BY <2>2, <3>4
    <3>6. lock'.mutation = lock.mutation /\ lock'.daemon = lock.daemon /\ running' = running
      BY <2>5
    <3> QED
      BY <3>1, <3>2, <3>3, <3>5, <3>6, CommandOn
  <2>7. \A g \in Families : srv[g].state # "unissued" => srv'[g].state # "unissued"
    BY <1>4, <2>3
  <2>8. \A g \in Families : srv'[g].state = "unissued" => srv'[g].gen = 1
    BY <2>3 DEF CredentialInv, IssueInv
  <2>9. db.cred = NoCred \/ (db.cred.tok[1] \in Families /\ db.cred.tok[1] # f)
    BY <1>2, <1>4, CredentialUpdates, ZenonT(60) DEF CredentialInv, IssueInv, Issued
  <2>10. Issued(db.cred)' /\ Issued(loc[p].cred)'
    BY <1>1, <2>1, <2>3, <2>6, <2>7, <2>9 DEF CredentialInv, IssueInv, Issued
  <2>11. srv[f].gen = 1
    BY <1>4 DEF CredentialInv, IssueInv
  <2>12. Copied(p)'
    BY <2>1, <2>3, <2>6, <2>11 DEF Copied, c
  <2>13. RecoverableUnlessUndone' /\ FamilyUnmixed'
    BY <1>1, <2>3, <2>9
       DEF CredentialInv, RecoverableUnlessUndone, Recoverable, FamilyUnmixed
  <2> QED
    BY <1>1, <1>2, <1>3, <2>5, <2>6, <2>7, <2>8, <2>10, <2>12, <2>13, HolderStepKeeps
       DEF StaysDeleted
<1>5. CASE Goto(p, "m_undo") /\ Drop("credential") /\ UNCHANGED <<srv, loc>>
  <2>1. "m_undo" \in InnerPlaces \ {"l_exchange", "l_store", "l_activate"}
    BY DEF InnerPlaces
  <2>2. file' \in Files /\ srv' \in [Families -> Family] /\ NoneRotated(srv')
    BY <1>1, <1>2, <1>5, FamiliesKept
  <2> QED
    BY <1>1, <1>2, <1>5, <2>1, <2>2, CommandNeutral
<1> QED
  BY <1>4, <1>5 DEF LoginExchange

\* The new credential is stored; it is that of an issued family.
LEMMA LoginStoreStep ==
  ASSUME TypeInv, LockInv, CredentialInv, NEW p \in Commands, LoginStore(p)
  PROVE  TypeInv' /\ Alone(p) /\ InnerStep(p) /\ CredentialInv'
<1>1. /\ pc[p] = "l_store" /\ pc[p] \in MutationPlaces /\ pc[p] \in CredentialPlaces
      /\ Goto(p, "l_activate")
      /\ UNCHANGED <<file, lock, srv, loc, lapsed, rots, left, loaded, running, undone, died>>
  BY DEF LoginStore, MutationPlaces, CredentialPlaces, world, daemonVars, history
<1>2. /\ p \in Worker /\ p \in Procs /\ loc[p] \in Memory /\ srv \in [Families -> Family]
      /\ file \in Files /\ Recalls(loc[p], loc[p], loc[p].op, loc[p].cred)
      /\ loc[p].op \in Ops /\ db \in GoodStores /\ loc[p].cred \in GoodCreds
  BY CommandFacts, WorkerFacts, MemoryFields, SameMemory DEF SharedTypes
<1>3. lock.credential = p
  BY <1>1, <1>2 DEF CredentialInv, HolderInv
<1>4. PICK f \in Families : loc[p].cred = Cred(f, 1) /\ srv[f].gen = 1
  BY <1>1, <1>2 DEF CredentialInv, CopyInv, Copied
<1>5. /\ loc[p].cred # NoCred /\ loc[p].cred.tok = <<f, 1>> /\ loc[p].cred.fam = f
  BY <1>4, NewCredentials
<1>6. db' \in GoodStores /\ db'.cred = loc[p].cred /\ HandshakeKept
  <2>1. CASE loc[p].op = "replace"
    <3>1. LET d == [db EXCEPT !.cred = loc[p].cred, !.failure = "none", !.pat = FALSE,
                              !.claimed = FALSE]
          IN  /\ d \in GoodStores /\ d.cred = loc[p].cred /\ d.requested = db.requested
              /\ d.asked = db.asked /\ d.ack = db.ack /\ d.claimed = FALSE
      BY <1>2, Replaced
    <3>2. db' = [db EXCEPT !.cred = loc[p].cred, !.failure = "none", !.pat = FALSE,
                           !.claimed = FALSE]
      BY <2>1 DEF LoginStore
    <3> QED
      BY <3>1, <3>2 DEF HandshakeKept
  <2>2. CASE loc[p].op # "replace"
    <3>1. Like(db', db, loc[p].cred)
      BY <1>2, <2>2, StoreUpdates DEF LoginStore
    <3> QED
      BY <1>2, <3>1, StoreFields DEF Like, HandshakeKept
  <2> QED
    BY <2>1, <2>2
<1>7. SharedTypes' /\ "l_activate" \in InnerPlaces
  BY <1>1, <1>2, <1>6, WorkerFacts DEF SharedTypes, InnerPlaces
<1>8. /\ TypeInv' /\ Alone(p) /\ InnerStep(p) /\ pc'[p] = "l_activate"
      /\ loc'[p].cred = loc[p].cred /\ loc'[p].store = loc[p].store
  <2>1. lock'.mutation = lock.mutation /\ lock'.daemon = lock.daemon /\ running' = running
    BY <1>1
  <2> QED
    BY <1>1, <1>2, <1>5, <1>6, <1>7, <2>1, CommandOn
<1>9. Issued(db.cred)' /\ Issued(loc[p].cred)'
  BY <1>1, <1>2, <1>6, <1>8 DEF CredentialInv, IssueInv, Issued
<1>10. RecoverableUnlessUndone' /\ FamilyUnmixed'
  BY <1>1, <1>4, <1>5, <1>6 DEF RecoverableUnlessUndone, Recoverable, FamilyUnmixed
<1>11. Copied(p)'
  BY <1>5, <1>8 DEF Copied
<1>12. \A g \in Families : srv'[g].state = "unissued" => srv'[g].gen = 1
  BY <1>1 DEF CredentialInv, IssueInv
<1> QED
  BY <1>1, <1>2, <1>3, <1>8, <1>9, <1>10, <1>11, <1>12, HolderStepKeeps

\* The family of a login is activated, or left pending.
LEMMA LoginActivateStep ==
  ASSUME TypeInv, LockInv, CredentialInv, NEW p \in Commands, LoginActivate(p)
  PROVE  TypeInv' /\ Alone(p) /\ InnerStep(p) /\ CredentialInv' /\ StaysDeleted
<1> DEFINE f == loc[p].cred.fam
           m == [loc[p] EXCEPT !.cred = NoCred]
<1>1. /\ pc[p] = "l_activate" /\ pc[p] \in MutationPlaces /\ pc[p] \in CredentialPlaces
      /\ Goto(p, "m_write") /\ Drop("credential") /\ loc' = [loc EXCEPT ![p] = m]
      /\ UNCHANGED <<file, lapsed, rots, loaded, running, undone, died>>
  BY DEF LoginActivate, MutationPlaces, CredentialPlaces, daemonVars, history
<1>2. /\ p \in Worker /\ loc[p] \in Memory /\ srv \in [Families -> Family]
      /\ file \in Files /\ loc[p].op \in Ops /\ db \in GoodStores /\ f \in Families
  BY <1>1, CommandFacts, WorkerFacts, MemoryFields DEF SharedTypes, Placed
<1>3. Recalls(m, loc[p], loc[p].op, NoCred)
  BY <1>2, NewCredentials, MemoryUpdates, Zenon
<1>4. srv' \in [Families -> Family] /\ NoneRotated(srv')
  <2>1. srv' \in {srv, Activated(f)}
    BY DEF LoginActivate
  <2> QED
    BY <1>2, <2>1, FamiliesKept
<1>5. Like(db', db, db.cred)
  <2>1. db.pat \in BOOLEAN
    BY <1>2, StoreFields
  <2>2. PICK b \in BOOLEAN, a \in BOOLEAN : db' = [db EXCEPT !.pending = b, !.pat = a]
    BY <2>1 DEF LoginActivate
  <2> QED
    BY <1>2, <2>2, StoreUpdates
<1>6. "m_write" \in InnerPlaces \ {"l_exchange", "l_store", "l_activate"} /\ file' \in Files
  BY <1>1, <1>2 DEF InnerPlaces
<1> HIDE DEF m
<1> QED
  BY <1>1, <1>2, <1>3, <1>4, <1>5, <1>6, CommandNeutral

\* A request of the daemon begins.
LEMMA CallStartsStep ==
  ASSUME TypeInv, CredentialInv, CallStarts
  PROVE  TypeInv' /\ Alone(Calls) /\ InnerStep(Calls) /\ CredentialInv' /\ StaysDeleted
<1>1. /\ Calls \in Worker /\ Calls \in Procs /\ Calls \notin Commands
      /\ Goto(Calls, "r_lock")
      /\ UNCHANGED <<file, db, lock, srv, lapsed, rots, left, loaded, running, undone, died>>
  BY ProfileAssumption
     DEF CallStarts, Worker, Procs, world, daemonVars, history, ProfileAssumption
<1>2. PICK force \in BOOLEAN : loc' = [loc EXCEPT ![Calls].op = "request",
                                                  ![Calls].force = force]
  BY DEF CallStarts
<1> DEFINE m == [loc[Calls] EXCEPT !.op = "request", !.force = force]
<1>3. /\ loc[Calls] \in Memory /\ loc \in [Procs -> Memory] /\ Calls # Loop
  BY <1>1, WorkerFacts
<1>4. Recalls(m, loc[Calls], "request", loc[Calls].cred) /\ loc' = [loc EXCEPT ![Calls] = m]
  BY <1>1, <1>2, <1>3, MemoryUpdates, Zenon DEF Ops
<1> HIDE DEF m
<1>5. m \in Memory /\ m.kept = loc[Calls].kept /\ m.store = loc[Calls].store
      /\ m.cred = loc[Calls].cred
  BY <1>4 DEF Recalls
<1>6. SharedTypes' /\ HandshakeKept /\ NoneRotated(srv')
  BY <1>1, WorkerFacts, StoreFields, FamiliesKept DEF SharedTypes, HandshakeKept
<1>7. /\ "r_lock" \in Places(Calls) /\ Placed(Calls, "r_lock", m, lock.mutation)
      /\ "r_lock" \notin MutationPlaces /\ "r_lock" \notin CredentialPlaces
  BY <1>1, <1>3 DEF Places, RefreshPlaces, Placed, MutationPlaces, CredentialPlaces
<1>8. m.kept => loc[Calls].kept /\ m.store = loc[Calls].store
  BY <1>5
<1>9. /\ lock'.mutation = lock.mutation /\ lock'.daemon = lock.daemon
      /\ running' = running /\ pc' = [pc EXCEPT ![Calls] = "r_lock"]
  BY <1>1 DEF Goto
<1>10. /\ TypeInv' /\ Alone(Calls) /\ InnerStep(Calls)
       /\ pc'[Calls] = "r_lock" /\ loc'[Calls] = m
  BY <1>1, <1>4, <1>5, <1>6, <1>7, <1>8, <1>9, InnerMove
<1>11. NeutralStep(Calls)
  BY <1>1, <1>5, <1>6, <1>7, <1>10 DEF NeutralStep
<1> QED
  BY <1>1, <1>10, <1>11, NeutralStepKeeps DEF StaysDeleted

-----------------------------------------------------------------------------
(* The steps of a command around the mutation. *)

\* Only the holder of the mutation is inside one, and has a backup.
LEMMA MutatorStepKeeps ==
  ASSUME TypeInv, MutationInv, NEW p \in Commands, Alone(p),
         lock.mutation \in {p, Nobody}, DaemonInv', Locked(p)', Handshake(p)'
  PROVE  MutationInv'
<1>1. ASSUME NEW q \in Commands \ {p}
      PROVE  /\ pc'[q] = pc[q] /\ loc'[q] = loc[q]
             /\ pc[q] \notin MutationPlaces /\ ~loc[q].kept
  <2>1. q \in Procs \ {p} /\ q # Nobody
    BY ProfileAssumption DEF Procs, ProfileAssumption
  <2>2. lock.mutation # q
    BY <2>1
  <2> QED
    BY <2>1, <2>2 DEF Alone, MutationInv, LockInv, Locked
<1>2. LockInv'
  BY <1>1 DEF LockInv, Locked, MutationPlaces
<1>3. HandshakeInv'
  BY <1>1 DEF HandshakeInv, Handshake, MutationPlaces
<1> QED
  BY <1>2, <1>3 DEF MutationInv

\* Such a step leaves the daemon alone, and the credential.
LEMMA MutatorMove ==
  ASSUME TypeInv, MutationInv, CredentialInv, NEW p \in Commands,
         NEW place \in CommandPlaces \cup {"r_lock"}, place \notin CredentialPlaces,
         NEW m \in Memory,
         pc' = [pc EXCEPT ![p] = place],
         loc' = [loc EXCEPT ![p] = m] \/ (loc' = loc /\ m = loc[p]),
         Placed(p, place, m, lock'.mutation), lock.mutation \in {p, Nobody},
         lock' \in Locks, lock'.daemon = lock.daemon,
         lock'.credential = lock.credential,
         file' \in Files, db' \in GoodStores, db'.cred = db.cred,
         db'.claimed => db.claimed, db'.ack <= db'.asked,
         UNCHANGED <<srv, lapsed, rots, loaded, running, undone>>, died' \in BOOLEAN,
         m.cred \in {loc[p].cred, NoCred},
         m.store.cred \in {loc[p].store.cred, FreshStore.cred, db.cred}
  PROVE  /\ TypeInv' /\ Alone(p) /\ CredentialInv' /\ DaemonInv' /\ StaysDeleted
         /\ pc'[p] = place /\ loc'[p] = m /\ pc'[Loop] = pc[Loop]
<1>1. p \in Worker /\ p \in Procs /\ p # Loop /\ Nobody \notin Commands /\ place \in Places(p)
  BY CommandFacts, WorkerFacts, ProfileAssumption
     DEF Places, ProfileAssumption, RefreshPlaces
<1>2. SharedTypes' /\ NoneRotated(srv')
  BY <1>1, WorkerFacts, FamiliesKept DEF SharedTypes
<1>3. LockApart(p)
  BY <1>1 DEF LockApart
<1>4. TypeInv' /\ Alone(p) /\ pc'[p] = place /\ loc'[p] = m
  BY <1>1, <1>2, <1>3, WorkerTypes
<1>5. pc'[Loop] = pc[Loop] /\ Off' = Off
  BY <1>1, WorkerFacts DEF Off
<1>6. DaemonInv'
  BY <1>5 DEF MutationInv, DaemonInv
<1>7. place \notin {"r_activate", "r_prepare", "r_post", "r_answer", "r_status", "l_store"}
  BY DEF CredentialPlaces
<1>8. NeutralStep(p)
  BY <1>1, <1>2, <1>4, <1>7 DEF NeutralStep
<1> QED
  BY <1>1, <1>4, <1>5, <1>6, <1>8, NeutralStepKeeps DEF StaysDeleted

\* The lock of the mutation is taken, or is not free.
LEMMA MutateLockStep ==
  ASSUME TypeInv, MutationInv, CredentialInv, NEW p \in Commands, MutateLock(p)
  PROVE  TypeInv' /\ MutationInv' /\ CredentialInv' /\ StaysDeleted
<1>1. /\ p \in Worker /\ p \in Procs /\ pc[p] = "m_lock" /\ p # Nobody
      /\ UNCHANGED <<file, db, srv, lapsed, rots, loaded, running, undone, died>>
  BY CommandFacts, WorkerFacts DEF MutateLock, world, daemonVars, history
<1>2. /\ loc[p] \in Memory /\ lock \in Locks /\ db \in GoodStores /\ file \in Files
      /\ loc[p].op \in MutationOps \cup {"capacity"} /\ loc \in [Procs -> Memory]
      /\ db.ack <= db.asked
  BY <1>1, WorkerFacts DEF Placed, SharedTypes, MutationInv, DaemonInv
<1>3. CASE Take(p, "mutation")
  <2>1. /\ lock.mutation = Nobody /\ lock' \in Locks /\ lock'.mutation = p
        /\ lock'.daemon = lock.daemon /\ lock'.credential = lock.credential
    BY <1>1, <1>2, <1>3, LockUpdates DEF Take
  <2>2. ~loc[p].kept
    BY <1>1, <2>1 DEF MutationInv, LockInv, Locked
  <2> DEFINE place == IF loc[p].op = "capacity" THEN "m_write" ELSE "m_enter"
             m == IF loc[p].op = "capacity" THEN [loc[p] EXCEPT !.conf = file] ELSE loc[p]
  <2>3. Recalls(m, loc[p], loc[p].op, loc[p].cred)
    BY <1>2, MemoryUpdates, SameMemory, Zenon
  <2>4. /\ m \in Memory /\ m.op = loc[p].op /\ m.kept = loc[p].kept
        /\ m.store = loc[p].store /\ m.cred = loc[p].cred
    BY <2>3 DEF Recalls
  <2>5. /\ pc' = [pc EXCEPT ![p] = place]
        /\ loc' = [loc EXCEPT ![p] = m] \/ (loc' = loc /\ m = loc[p])
    BY <1>1, <1>3, <2>1 DEF MutateLock, Goto, Take
  <2>6. /\ place \in CommandPlaces \cup {"r_lock"} /\ place \notin CredentialPlaces
        /\ Placed(p, place, m, lock'.mutation)
        /\ place \notin {"m_restore", "m_wait", "m_backup"}
    BY <1>2, <2>1, <2>4 DEF CommandPlaces, CredentialPlaces, Placed, RefreshPlaces
  <2> HIDE DEF m, place
  <2>7. /\ TypeInv' /\ Alone(p) /\ CredentialInv' /\ DaemonInv' /\ StaysDeleted
        /\ pc'[p] = place /\ loc'[p] = m
    <3>0. /\ lock' \in Locks /\ lock'.daemon = lock.daemon
          /\ lock'.credential = lock.credential /\ lock.mutation \in {p, Nobody}
      BY <2>1
    <3>1. /\ file' \in Files /\ db' \in GoodStores /\ db'.cred = db.cred
          /\ db'.claimed => db.claimed
          /\ db'.ack <= db'.asked /\ died' \in BOOLEAN
          /\ UNCHANGED <<srv, lapsed, rots, loaded, running, undone>>
      BY <1>1, <1>2, WorkerFacts DEF SharedTypes
    <3>2. PICK new \in Memory : new = m
      BY <2>4
    <3>3. /\ new.cred \in {loc[p].cred, NoCred}
          /\ new.store.cred \in {loc[p].store.cred, FreshStore.cred, db.cred}
      BY <2>4, <3>2
    <3>4. /\ pc' = [pc EXCEPT ![p] = place]
          /\ loc' = [loc EXCEPT ![p] = new] \/ (loc' = loc /\ new = loc[p])
      BY <2>5, <3>2
    <3>5. Placed(p, place, new, lock'.mutation)
      BY <2>6, <3>2
    <3>6. place \in CommandPlaces \cup {"r_lock"} /\ place \notin CredentialPlaces
      BY <2>6
    <3>7. /\ TypeInv' /\ Alone(p) /\ CredentialInv' /\ DaemonInv' /\ StaysDeleted
          /\ pc'[p] = place /\ loc'[p] = new
      BY <3>0, <3>1, <3>2, <3>3, <3>4, <3>5, <3>6, MutatorMove
    <3> QED
      BY <3>2, <3>7
  <2>8. Locked(p)' /\ Handshake(p)'
    BY <2>1, <2>2, <2>4, <2>6, <2>7 DEF Locked, Handshake
  <2> QED
    BY <2>1, <2>7, <2>8, MutatorStepKeeps
<1>4. CASE Finish(p) /\ UNCHANGED lock
  <2>1. SharedTypes' /\ HandshakeKept /\ NoneRotated(srv')
    BY <1>1, <1>4, WorkerFacts, StoreFields, FamiliesKept DEF SharedTypes, HandshakeKept
  <2>2. /\ TypeInv' /\ Alone(p) /\ InnerStep(p) /\ pc'[p] = "done" /\ loc'[p] = NoMemory
    BY <1>1, <1>4, <2>1, FinishedStep
  <2>3. NeutralStep(p)
    BY <1>1, <1>4, <2>1, <2>2, NothingInMemory DEF NeutralStep, CredentialPlaces
  <2> QED
    BY <1>1, <2>2, <2>3, NeutralStepKeeps, InnerStepKeeps DEF StaysDeleted
<1> QED
  BY <1>3, <1>4 DEF MutateLock

\* Maintenance is asked for, unless no daemon runs.
LEMMA EnterMaintenanceStep ==
  ASSUME TypeInv, MutationInv, CredentialInv, NEW p \in Commands, EnterMaintenance(p)
  PROVE  TypeInv' /\ MutationInv' /\ CredentialInv' /\ StaysDeleted
<1>1. /\ p \in Worker /\ p \in Procs /\ pc[p] = "m_enter"
      /\ UNCHANGED <<file, lock, srv, lapsed, rots, loaded, running, undone, died>>
  BY CommandFacts, WorkerFacts DEF EnterMaintenance, world, daemonVars, history
<1>2. /\ loc[p] \in Memory /\ lock \in Locks /\ db \in GoodStores /\ file \in Files
      /\ loc[p].op \in MutationOps /\ loc \in [Procs -> Memory] /\ db.ack <= db.asked
      /\ lock.mutation = p /\ ~loc[p].kept
  BY <1>1, WorkerFacts
     DEF Placed, SharedTypes, MutationInv, DaemonInv, LockInv, Locked, MutationPlaces
<1>3. CASE lock.daemon = Nobody /\ UNCHANGED <<db, loc>>
  <2> DEFINE place == IF db.claimed THEN "m_leave" ELSE "m_backup"
  <2>1. pc' = [pc EXCEPT ![p] = place]
    BY <1>3 DEF EnterMaintenance, Goto
  <2>2. /\ place \in CommandPlaces \cup {"r_lock"} /\ place \notin CredentialPlaces
        /\ Placed(p, place, loc[p], lock'.mutation)
        /\ place \notin {"m_restore", "m_wait", "m_enter"}
    BY <1>2 DEF CommandPlaces, CredentialPlaces, Placed, RefreshPlaces
  <2>3. Quiet \/ place = "m_leave"
    <3>1. Loop # Nobody
      BY ProfileAssumption DEF ProfileAssumption
    <3> QED
      BY <1>3, <3>1 DEF MutationInv, DaemonInv, Quiet
  <2> HIDE DEF place
  <2>4. lock' \in Locks /\ lock'.daemon = lock.daemon /\ lock'.credential = lock.credential
        /\ lock'.mutation = lock.mutation /\ file' \in Files /\ db' \in GoodStores
        /\ db'.cred = db.cred /\ db'.claimed = db.claimed /\ db'.ack <= db'.asked
        /\ died' \in BOOLEAN
    BY <1>1, <1>2, <1>3, WorkerFacts DEF SharedTypes
  <2>5. /\ TypeInv' /\ Alone(p) /\ CredentialInv' /\ DaemonInv' /\ StaysDeleted
        /\ pc'[p] = place /\ loc'[p] = loc[p] /\ pc'[Loop] = pc[Loop]
    BY <1>1, <1>2, <1>3, <2>1, <2>2, <2>4, MutatorMove
  <2>6. Quiet' \/ place = "m_leave"
    BY <1>1, <1>3, <2>3, <2>5 DEF Quiet, Off
  <2>7. Locked(p)' /\ Handshake(p)'
    BY <1>2, <2>2, <2>4, <2>5, <2>6 DEF Locked, Handshake
  <2> QED
    BY <1>2, <2>5, <2>7, MutatorStepKeeps
<1>4. CASE /\ db' = Requested /\ loc' = [loc EXCEPT ![p].asked = db'.asked]
           /\ Goto(p, "m_wait")
  <2> DEFINE n == db.asked + 1
             m == [loc[p] EXCEPT !.asked = n]
  <2>1. db.asked \in Nat /\ n \in Nat /\ db.ack \in Nat
    BY <1>2, StoreFields
  <2>2. /\ db' \in GoodStores /\ db'.cred = db.cred /\ db'.requested = TRUE
        /\ db'.asked = n /\ db'.ack = db.ack /\ db'.claimed = db.claimed
    <3>1. db' = [db EXCEPT !.requested = TRUE, !.asked = n]
      BY <1>4 DEF Requested
    <3> HIDE DEF n
    <3>2. Agreed(db', db, TRUE, n, db.ack, db.claimed)
      BY <1>2, <2>1, <3>1, HandshakeUpdates, Zenon
    <3> QED
      BY <3>2 DEF Agreed
  <2>3. loc' = [loc EXCEPT ![p] = m]
    BY <1>4, <2>2
  <2>4. /\ m \in Memory /\ m.op = loc[p].op /\ m.cred = loc[p].cred /\ m.kept = loc[p].kept
        /\ m.store = loc[p].store /\ m.asked = n
    <3> HIDE DEF n
    <3>1. Keeps(m, loc[p], n, loc[p].kept, loc[p].store)
      BY <1>2, <2>1, MutationUpdates
    <3> QED
      BY <3>1 DEF Keeps
  <2>5. db'.ack <= db'.asked /\ ~(db'.ack >= db'.asked)
    BY <1>2, <2>1, <2>2
  <2>6. /\ "m_wait" \in CommandPlaces \cup {"r_lock"} /\ "m_wait" \notin CredentialPlaces
        /\ Placed(p, "m_wait", m, lock'.mutation)
    BY <1>2, <2>4 DEF CommandPlaces, CredentialPlaces, Placed, RefreshPlaces
  <2> HIDE DEF m, n
  <2>7. lock' \in Locks /\ lock'.daemon = lock.daemon /\ lock'.credential = lock.credential
        /\ lock'.mutation = lock.mutation /\ file' \in Files /\ died' \in BOOLEAN
        /\ pc' = [pc EXCEPT ![p] = "m_wait"]
    BY <1>1, <1>2, <1>4, WorkerFacts DEF SharedTypes, Goto
  <2>8. /\ TypeInv' /\ Alone(p) /\ CredentialInv' /\ DaemonInv' /\ StaysDeleted
        /\ pc'[p] = "m_wait" /\ loc'[p] = m
    <3>1. /\ UNCHANGED <<srv, lapsed, rots, loaded, running, undone>>
          /\ lock.mutation \in {p, Nobody}
          /\ db' \in GoodStores /\ db'.cred = db.cred
          /\ db'.claimed => db.claimed
          /\ db'.ack <= db'.asked
      BY <1>1, <1>2, <2>2, <2>5
    <3>2. PICK new \in Memory : new = m
      BY <2>4
    <3>3. /\ new.cred \in {loc[p].cred, NoCred}
          /\ new.store.cred \in {loc[p].store.cred, FreshStore.cred, db.cred}
      BY <2>4, <3>2
    <3>4. loc' = [loc EXCEPT ![p] = new] \/ (loc' = loc /\ new = loc[p])
      BY <2>3, <3>2
    <3>5. Placed(p, "m_wait", new, lock'.mutation)
      BY <2>6, <3>2
    <3>6. "m_wait" \in CommandPlaces \cup {"r_lock"} /\ "m_wait" \notin CredentialPlaces
      BY <2>6
    <3>7. /\ TypeInv' /\ Alone(p) /\ CredentialInv' /\ DaemonInv' /\ StaysDeleted
          /\ pc'[p] = "m_wait" /\ loc'[p] = new
      BY <2>7, <3>1, <3>2, <3>3, <3>4, <3>5, <3>6, MutatorMove, ZenonT(60)
    <3> QED
      BY <3>2, <3>7
  <2>9. Locked(p)' /\ Handshake(p)'
    BY <1>2, <2>2, <2>4, <2>5, <2>7, <2>8 DEF Locked, Handshake
  <2> QED
    BY <1>2, <2>8, <2>9, MutatorStepKeeps
<1> QED
  BY <1>3, <1>4 DEF EnterMaintenance

\* The daemon has answered, or has not in time.
LEMMA MaintenanceEnteredStep ==
  ASSUME TypeInv, MutationInv, CredentialInv, NEW p \in Commands, MaintenanceEntered(p)
  PROVE  TypeInv' /\ MutationInv' /\ CredentialInv' /\ StaysDeleted
<1>1. /\ p \in Worker /\ p \in Procs /\ pc[p] = "m_wait" /\ Goto(p, "m_backup")
      /\ db.ack >= loc[p].asked
      /\ UNCHANGED <<file, db, lock, loc, srv, lapsed, rots, loaded, running, undone, died>>
  BY CommandFacts, WorkerFacts DEF MaintenanceEntered, world, daemonVars, history
<1>2. /\ loc[p] \in Memory /\ lock \in Locks /\ db \in GoodStores /\ file \in Files
      /\ loc[p].op \in MutationOps /\ db.ack <= db.asked /\ lock.mutation = p
      /\ ~loc[p].kept /\ Quiet
  BY <1>1, WorkerFacts
     DEF Placed, SharedTypes, MutationInv, DaemonInv, LockInv, Locked, MutationPlaces,
         HandshakeInv, Handshake
<1>3. /\ "m_backup" \in CommandPlaces \cup {"r_lock"} /\ "m_backup" \notin CredentialPlaces
      /\ Placed(p, "m_backup", loc[p], lock'.mutation)
      /\ pc' = [pc EXCEPT ![p] = "m_backup"]
  BY <1>1, <1>2 DEF CommandPlaces, CredentialPlaces, Placed, RefreshPlaces, Goto
<1>4. lock' \in Locks /\ lock'.daemon = lock.daemon /\ lock'.credential = lock.credential
      /\ lock'.mutation = lock.mutation /\ file' \in Files /\ db' \in GoodStores
      /\ db'.cred = db.cred /\ db'.claimed = db.claimed /\ db'.ack <= db'.asked
      /\ died' \in BOOLEAN
  BY <1>1, <1>2, WorkerFacts DEF SharedTypes
<1>5. /\ TypeInv' /\ Alone(p) /\ CredentialInv' /\ DaemonInv' /\ StaysDeleted
      /\ pc'[p] = "m_backup" /\ loc'[p] = loc[p] /\ pc'[Loop] = pc[Loop]
  BY <1>1, <1>2, <1>3, <1>4, MutatorMove
<1>6. Quiet'
  BY <1>1, <1>2, <1>5 DEF Quiet, Off
<1>7. Locked(p)' /\ Handshake(p)'
  BY <1>2, <1>4, <1>5, <1>6 DEF Locked, Handshake
<1> QED
  BY <1>2, <1>5, <1>7, MutatorStepKeeps

\* The command gives up, and withdraws its request.
LEMMA MaintenanceTimedOutStep ==
  ASSUME TypeInv, MutationInv, CredentialInv, NEW p \in Commands, MaintenanceTimedOut(p)
  PROVE  TypeInv' /\ MutationInv' /\ CredentialInv' /\ StaysDeleted
<1> DEFINE m == [loc[p] EXCEPT !.asked = 0]
<1>1. /\ p \in Worker /\ p \in Procs /\ pc[p] = "m_wait" /\ Goto(p, "m_leave")
      /\ db' = [db EXCEPT !.requested = FALSE] /\ loc' = [loc EXCEPT ![p] = m]
      /\ UNCHANGED <<file, lock, srv, lapsed, rots, loaded, running, undone, died>>
  BY CommandFacts, WorkerFacts DEF MaintenanceTimedOut, world, daemonVars, history
<1>2. /\ loc[p] \in Memory /\ lock \in Locks /\ db \in GoodStores /\ file \in Files
      /\ db.ack <= db.asked /\ lock.mutation = p /\ ~loc[p].kept
  BY <1>1, WorkerFacts
     DEF SharedTypes, MutationInv, DaemonInv, LockInv, Locked, MutationPlaces
<1>3. /\ db' \in GoodStores /\ db'.cred = db.cred /\ db'.asked = db.asked
      /\ db'.ack = db.ack /\ db'.claimed = db.claimed
  <2>1. Agreed(db', db, FALSE, db.asked, db.ack, db.claimed)
    BY <1>1, <1>2, HandshakeUpdates
  <2> QED
    BY <2>1 DEF Agreed
<1>4. /\ m \in Memory /\ m.cred = loc[p].cred /\ m.kept = loc[p].kept
      /\ m.store = loc[p].store
  <2>1. Keeps(m, loc[p], 0, loc[p].kept, loc[p].store)
    BY <1>2, MutationUpdates
  <2> QED
    BY <2>1 DEF Keeps
<1>5. /\ "m_leave" \in CommandPlaces \cup {"r_lock"} /\ "m_leave" \notin CredentialPlaces
      /\ Placed(p, "m_leave", m, lock'.mutation)
      /\ pc' = [pc EXCEPT ![p] = "m_leave"]
  BY <1>1 DEF CommandPlaces, CredentialPlaces, Placed, RefreshPlaces, Goto
<1> HIDE DEF m
<1>6. lock' \in Locks /\ lock'.daemon = lock.daemon /\ lock'.credential = lock.credential
      /\ lock'.mutation = lock.mutation /\ file' \in Files
      /\ db'.ack <= db'.asked /\ died' \in BOOLEAN
  BY <1>1, <1>2, <1>3, WorkerFacts DEF SharedTypes
<1>7. /\ TypeInv' /\ Alone(p) /\ CredentialInv' /\ DaemonInv' /\ StaysDeleted
      /\ pc'[p] = "m_leave" /\ loc'[p] = m
  <2>1. /\ UNCHANGED <<srv, lapsed, rots, loaded, running, undone>>
        /\ lock.mutation \in {p, Nobody}
        /\ db'.claimed => db.claimed
    BY <1>1, <1>2, <1>3
  <2>2. PICK new \in Memory : new = m
    BY <1>4
  <2>3. /\ new.cred \in {loc[p].cred, NoCred}
        /\ new.store.cred \in {loc[p].store.cred, FreshStore.cred, db.cred}
    BY <1>4, <2>2
  <2>4. loc' = [loc EXCEPT ![p] = new] \/ (loc' = loc /\ new = loc[p])
    BY <1>1, <2>2
  <2>5. Placed(p, "m_leave", new, lock'.mutation)
    BY <1>5, <2>2
  <2>6. /\ "m_leave" \in CommandPlaces \cup {"r_lock"} /\ "m_leave" \notin CredentialPlaces
        /\ pc' = [pc EXCEPT ![p] = "m_leave"]
    BY <1>5
  <2>7. /\ db' \in GoodStores /\ db'.cred = db.cred
    BY <1>3
  <2>8. /\ TypeInv' /\ Alone(p) /\ CredentialInv' /\ DaemonInv' /\ StaysDeleted
        /\ pc'[p] = "m_leave" /\ loc'[p] = new
    BY <1>6, <2>1, <2>2, <2>3, <2>4, <2>5, <2>6, <2>7, MutatorMove, ZenonT(60)
  <2> QED
    BY <2>2, <2>8
<1>8. Locked(p)' /\ Handshake(p)'
  BY <1>2, <1>4, <1>6, <1>7 DEF Locked, Handshake
<1> QED
  BY <1>2, <1>7, <1>8, MutatorStepKeeps

\* The backup is taken while nothing executes.
LEMMA BackupStep ==
  ASSUME TypeInv, MutationInv, CredentialInv, NEW p \in Commands, Backup(p)
  PROVE  TypeInv' /\ MutationInv' /\ CredentialInv' /\ StaysDeleted
<1> DEFINE b == loc[p].op \in {"refresh", "revoke"}
           place == Change(loc[p].op)
           m == [loc[p] EXCEPT !.store = db, !.conf = file, !.kept = TRUE, !.force = b]
<1>1. /\ p \in Worker /\ p \in Procs /\ pc[p] = "m_backup" /\ Goto(p, place)
      /\ loc' = [loc EXCEPT ![p] = m]
      /\ UNCHANGED <<file, db, lock, srv, lapsed, rots, loaded, running, undone, died>>
  BY CommandFacts, WorkerFacts DEF Backup, world, daemonVars, history
<1>2. /\ loc[p] \in Memory /\ lock \in Locks /\ db \in GoodStores /\ file \in Files
      /\ loc[p].op \in MutationOps /\ db.ack <= db.asked /\ lock.mutation = p /\ Quiet
  BY <1>1, WorkerFacts
     DEF Placed, SharedTypes, MutationInv, DaemonInv, LockInv, Locked, MutationPlaces,
         HandshakeInv, Handshake
<1>3. /\ m \in Memory /\ m.op = loc[p].op /\ m.cred = loc[p].cred /\ m.kept = TRUE
      /\ m.store = db
  <2>1. b \in BOOLEAN
    OBVIOUS
  <2> HIDE DEF b
  <2>2. Keeps(m, loc[p], loc[p].asked, TRUE, db)
    BY <1>2, <2>1, MutationUpdates
  <2> QED
    BY <2>2 DEF Keeps
<1>4. place \in {"r_lock", "l_lock", "m_write", "x_delete", "x_post"}
  BY <1>2 DEF Change, MutationOps
<1> HIDE DEF m, place
<1>5. /\ place \in CommandPlaces \cup {"r_lock"} /\ place \notin CredentialPlaces
      /\ Placed(p, place, m, lock'.mutation) /\ pc' = [pc EXCEPT ![p] = place]
  BY <1>1, <1>2, <1>4 DEF CommandPlaces, CredentialPlaces, Placed, RefreshPlaces, Goto
<1>6. /\ TypeInv' /\ Alone(p) /\ CredentialInv' /\ DaemonInv' /\ StaysDeleted
      /\ pc'[p] = place /\ loc'[p] = m /\ pc'[Loop] = pc[Loop]
  <2>1. /\ lock' \in Locks /\ lock'.daemon = lock.daemon /\ lock'.credential = lock.credential
        /\ lock.mutation \in {p, Nobody}
    BY <1>1, <1>2
  <2>2. /\ file' \in Files /\ db' \in GoodStores /\ db'.cred = db.cred
        /\ db'.claimed => db.claimed
        /\ db'.ack <= db'.asked /\ died' \in BOOLEAN
        /\ UNCHANGED <<srv, lapsed, rots, loaded, running, undone>>
    BY <1>1, <1>2, WorkerFacts DEF SharedTypes
  <2>3. PICK new \in Memory : new = m
    BY <1>3
  <2>4. /\ new.cred \in {loc[p].cred, NoCred}
        /\ new.store.cred \in {loc[p].store.cred, FreshStore.cred, db.cred}
    BY <1>3, <2>3
  <2>5. loc' = [loc EXCEPT ![p] = new] \/ (loc' = loc /\ new = loc[p])
    BY <1>1, <2>3
  <2>6. Placed(p, place, new, lock'.mutation)
    BY <1>5, <2>3
  <2>7. /\ place \in CommandPlaces \cup {"r_lock"} /\ place \notin CredentialPlaces
        /\ pc' = [pc EXCEPT ![p] = place]
    BY <1>5
  <2>8. /\ TypeInv' /\ Alone(p) /\ CredentialInv' /\ DaemonInv' /\ StaysDeleted
        /\ pc'[p] = place /\ loc'[p] = new /\ pc'[Loop] = pc[Loop]
    BY <2>1, <2>2, <2>3, <2>4, <2>5, <2>6, <2>7, MutatorMove
  <2> QED
    BY <2>3, <2>8
<1>7. Quiet'
  BY <1>1, <1>2, <1>6 DEF Quiet, Off
<1>8. Locked(p)' /\ Handshake(p)'
  <2>1. pc'[p] \notin {"m_enter", "m_wait", "m_backup", "m_restore"}
    BY <1>4, <1>6
  <2>2. Locked(p)'
    BY <1>1, <1>2, <2>1 DEF Locked
  <2>3. loc'[p].store = db /\ (Off' <=> Off)
    BY <1>3, <1>6 DEF Off
  <2> QED
    BY <1>2, <1>7, <2>1, <2>2, <2>3 DEF Handshake, Quiet
<1> QED
  BY <1>2, <1>6, <1>8, MutatorStepKeeps

\* A rollback begins with the configuration.
LEMMA RestoreConfigStep ==
  ASSUME TypeInv, MutationInv, CredentialInv, NEW p \in Commands, RestoreConfig(p)
  PROVE  TypeInv' /\ MutationInv' /\ CredentialInv' /\ StaysDeleted
<1> DEFINE place == IF loc[p].kept THEN "m_restore" ELSE "m_leave"
<1>1. /\ p \in Worker /\ p \in Procs /\ pc[p] = "m_undo" /\ Goto(p, place)
      /\ file' = loc[p].conf
      /\ UNCHANGED <<db, lock, loc, srv, lapsed, rots, loaded, running, undone, died>>
  BY CommandFacts, WorkerFacts DEF RestoreConfig, world, daemonVars, history
<1>2. /\ loc[p] \in Memory /\ lock \in Locks /\ db \in GoodStores /\ loc[p].conf \in Files
      /\ db.ack <= db.asked /\ lock.mutation = p /\ Handshake(p)
  BY <1>1, WorkerFacts, MemoryFields
     DEF MutationInv, DaemonInv, LockInv, Locked, MutationPlaces, HandshakeInv
<1>3. /\ place \in CommandPlaces \cup {"r_lock"} /\ place \notin CredentialPlaces
      /\ Placed(p, place, loc[p], lock'.mutation) /\ pc' = [pc EXCEPT ![p] = place]
      /\ place \notin {"m_enter", "m_wait", "m_backup"}
      /\ place = "m_restore" => loc[p].kept
  BY <1>1, <1>2 DEF CommandPlaces, CredentialPlaces, Placed, RefreshPlaces, Goto
<1> HIDE DEF place
<1>4. lock' \in Locks /\ lock'.daemon = lock.daemon /\ lock'.credential = lock.credential
      /\ lock'.mutation = lock.mutation /\ file' \in Files /\ db' \in GoodStores
      /\ db'.cred = db.cred /\ db'.claimed = db.claimed /\ db'.ack <= db'.asked
      /\ died' \in BOOLEAN
  BY <1>1, <1>2, WorkerFacts DEF SharedTypes
<1>5. /\ TypeInv' /\ Alone(p) /\ CredentialInv' /\ DaemonInv' /\ StaysDeleted
      /\ pc'[p] = place /\ loc'[p] = loc[p] /\ pc'[Loop] = pc[Loop]
  BY <1>1, <1>2, <1>3, <1>4, MutatorMove
<1>6. (Quiet <=> Quiet') /\ (Off <=> Off')
  BY <1>1, <1>5 DEF Quiet, Off
<1>7. Locked(p)' /\ Handshake(p)'
  BY <1>2, <1>3, <1>4, <1>5, <1>6 DEF Locked, Handshake
<1> QED
  BY <1>2, <1>5, <1>7, MutatorStepKeeps

\* The command gives the mutation back.
LEMMA LeaveStep ==
  ASSUME TypeInv, MutationInv, CredentialInv, NEW p \in Commands, Leave(p)
  PROVE  TypeInv' /\ MutationInv' /\ CredentialInv' /\ StaysDeleted
<1>1. /\ p \in Worker /\ p \in Procs /\ pc[p] = "m_leave" /\ Finish(p)
      /\ Drop("mutation") /\ db' = Cleared(p)
      /\ UNCHANGED <<file, srv, lapsed, rots, loaded, running, undone, died>>
  BY CommandFacts, WorkerFacts DEF Leave, world, daemonVars, history
<1>2. /\ loc[p] \in Memory /\ lock \in Locks /\ db \in GoodStores /\ file \in Files
      /\ db.ack <= db.asked /\ lock.mutation = p
  BY <1>1, WorkerFacts
     DEF SharedTypes, MutationInv, DaemonInv, LockInv, Locked, MutationPlaces
<1>3. /\ db' \in GoodStores /\ db'.cred = db.cred /\ db'.asked = db.asked
      /\ db'.ack = db.ack /\ db'.claimed = db.claimed
  <2>1. CASE loc[p].asked > 0
    <3>1. Agreed(db', db, FALSE, db.asked, db.ack, db.claimed)
      BY <1>1, <1>2, <2>1, HandshakeUpdates DEF Cleared
    <3> QED
      BY <3>1 DEF Agreed
  <2>2. CASE ~(loc[p].asked > 0)
    BY <1>1, <1>2, <2>2 DEF Cleared
  <2> QED
    BY <2>1, <2>2
<1>4. /\ "done" \in CommandPlaces \cup {"r_lock"} /\ "done" \notin CredentialPlaces
      /\ Placed(p, "done", NoMemory, lock'.mutation)
      /\ pc' = [pc EXCEPT ![p] = "done"] /\ loc' = [loc EXCEPT ![p] = NoMemory]
  BY <1>1 DEF CommandPlaces, CredentialPlaces, Placed, RefreshPlaces, Finish, Goto
<1>5. /\ lock' \in Locks /\ lock'.daemon = lock.daemon /\ lock'.credential = lock.credential
      /\ lock'.mutation = Nobody
  <2>1. lock' = [lock EXCEPT !["mutation"] = Nobody]
    BY <1>1 DEF Drop
  <2> QED
    BY <1>2, <2>1, LockUpdates
<1>6. /\ TypeInv' /\ Alone(p) /\ CredentialInv' /\ DaemonInv' /\ StaysDeleted
      /\ pc'[p] = "done" /\ loc'[p] = NoMemory
  <2>1. /\ file' \in Files /\ died' \in BOOLEAN /\ lock.mutation \in {p, Nobody}
        /\ UNCHANGED <<srv, lapsed, rots, loaded, running, undone>>
    BY <1>1, <1>2, WorkerFacts DEF SharedTypes
  <2>2. /\ db'.claimed => db.claimed
        /\ db'.ack <= db'.asked
    BY <1>2, <1>3
  <2>3. PICK new \in Memory : new = NoMemory
    BY NothingInMemory
  <2>4. /\ new.cred \in {loc[p].cred, NoCred}
        /\ new.store.cred \in {loc[p].store.cred, FreshStore.cred, db.cred}
    BY <2>3, NothingInMemory
  <2>5. loc' = [loc EXCEPT ![p] = new] \/ (loc' = loc /\ new = loc[p])
    BY <1>4, <2>3
  <2>6. Placed(p, "done", new, lock'.mutation)
    BY <1>4, <2>3
  <2>7. /\ "done" \in CommandPlaces \cup {"r_lock"} /\ "done" \notin CredentialPlaces
        /\ pc' = [pc EXCEPT ![p] = "done"]
    BY <1>4
  <2>8. /\ lock' \in Locks /\ lock'.daemon = lock.daemon
        /\ lock'.credential = lock.credential
    BY <1>5
  <2>9. db' \in GoodStores /\ db'.cred = db.cred
    BY <1>3
  <2>10. /\ TypeInv' /\ Alone(p) /\ CredentialInv' /\ DaemonInv' /\ StaysDeleted
         /\ pc'[p] = "done" /\ loc'[p] = new
    BY <2>1, <2>2, <2>3, <2>4, <2>5, <2>6, <2>7, <2>8, <2>9, MutatorMove
  <2> QED
    BY <2>3, <2>10
<1>7. NoMemory.kept = FALSE
  BY NothingInMemory
<1>8. Locked(p)' /\ Handshake(p)'
  BY <1>6, <1>7 DEF Locked, Handshake, MutationPlaces
<1> QED
  BY <1>2, <1>6, <1>8, MutatorStepKeeps

\* A rollback writes the store of before the change back, with everything in it.
LEMMA RestoreStoreStep ==
  ASSUME TypeInv, MutationInv, CredentialInv, NEW p \in Commands, RestoreStore(p)
  PROVE  TypeInv' /\ MutationInv' /\ CredentialInv' /\ pc[p] = "m_restore"
<1> DEFINE s == loc[p].store
<1>1. /\ p \in Worker /\ p \in Procs /\ pc[p] = "m_restore" /\ Goto(p, "m_leave")
      /\ db' = s /\ undone' = (undone \/ db.cred # s.cred)
      /\ UNCHANGED <<file, lock, loc, srv, lapsed, rots, loaded, running, died>>
  BY CommandFacts, WorkerFacts DEF RestoreStore, world, daemonVars, history
<1>2. /\ loc[p] \in Memory /\ lock \in Locks /\ s \in GoodStores /\ file \in Files
      /\ lock.mutation = p /\ loc[p].kept /\ Handshake(p)
  BY <1>1, WorkerFacts, MemoryFields
     DEF SharedTypes, MutationInv, LockInv, Locked, MutationPlaces, HandshakeInv
<1>3. /\ Quiet /\ ~s.claimed /\ (Off \/ s.requested) /\ s.ack <= s.asked
  BY <1>2 DEF Handshake
<1>4. /\ TypeInv' /\ Alone(p) /\ pc'[p] = "m_leave" /\ loc' = loc
  <2>1. SharedTypes'
    BY <1>1, <1>2, WorkerFacts DEF SharedTypes
  <2>2. "m_leave" \in Places(p) /\ Placed(p, "m_leave", loc[p], lock'.mutation)
    BY <1>1, CommandFacts DEF Places, CommandPlaces, Placed, RefreshPlaces
  <2>3. LockApart(p) /\ pc' = [pc EXCEPT ![p] = "m_leave"]
    BY <1>1 DEF LockApart, Goto
  <2>4. loc' = [loc EXCEPT ![p] = loc[p]] \/ (loc' = loc /\ loc[p] = loc[p])
    BY <1>1
  <2> QED
    BY <1>1, <1>2, <2>1, <2>2, <2>3, <2>4, WorkerTypes
<1>5. pc'[Loop] = pc[Loop] /\ (Off' <=> Off)
  BY <1>1, <1>4, WorkerFacts, CommandFacts, ProfileAssumption
     DEF Off, Alone, Procs, ProfileAssumption
<1>6. MutationInv'
  <2>1. DaemonInv'
    BY <1>1, <1>3, <1>5 DEF MutationInv, DaemonInv
  <2>2. Quiet'
    BY <1>1, <1>3, <1>5 DEF Quiet
  <2>3. Locked(p)' /\ Handshake(p)'
    BY <1>1, <1>2, <1>3, <1>4, <1>5, <2>2 DEF Locked, Handshake
  <2> QED
    BY <1>2, <1>4, <2>1, <2>3, MutatorStepKeeps
<1>7. CredentialInv'
  <2>1. HolderInv'
    BY <1>1, <1>4 DEF CredentialInv, HolderInv, Alone, CredentialPlaces
  <2>2. IssueInv'
    BY <1>1, Zenon DEF CredentialInv, IssueInv, Issued
  <2>3. undone' \/ (undone' = undone /\ db'.cred = db.cred)
    BY <1>1, WorkerFacts DEF SharedTypes
  <2>4. undone => undone'
    BY <1>1
  <2>5. RecoverableUnlessUndone' /\ FamilyUnmixed'
    BY <1>1, <2>3 DEF CredentialInv, RecoverableUnlessUndone, Recoverable, FamilyUnmixed
  <2>6. ASSUME NEW q \in Procs
        PROVE  Copied(q)'
    <3>1. Copied(q) /\ loc'[q] = loc[q] /\ srv' = srv
      BY <1>1 DEF CredentialInv, CopyInv
    <3>2. pc'[q] = pc[q] \/ pc'[q] = "m_leave"
      BY <1>4 DEF Alone
    <3> QED
      BY <2>3, <2>4, <3>1, <3>2, SMTT(60) DEF Copied
  <2> QED
    BY <2>1, <2>2, <2>5, <2>6 DEF CredentialInv, CopyInv
<1> QED
  BY <1>1, <1>4, <1>6, <1>7

\* A command dies, and its locks go with it.
LEMMA CommandDiesStep ==
  ASSUME TypeInv, MutationInv, CredentialInv, NEW p \in Commands, CommandDies(p)
  PROVE  TypeInv' /\ MutationInv' /\ CredentialInv' /\ StaysDeleted
<1>1. /\ p \in Worker /\ p \in Procs /\ p # Loop /\ Finish(p) /\ Released({p}) /\ died' = TRUE
      /\ UNCHANGED <<file, db, srv, lapsed, rots, loaded, running, undone>>
  BY CommandFacts, WorkerFacts DEF CommandDies, daemonVars
<1>2. /\ lock \in Locks /\ SharedTypes /\ p # Nobody /\ Nobody \notin Procs
      /\ Loop \in Procs /\ Commands \subseteq Procs
  BY <1>1, WorkerFacts DEF Procs
<1>3. /\ lock' \in Locks
      /\ \A q \in Procs \ {p} : /\ lock.mutation = q => lock'.mutation = q
                                /\ lock.daemon = q => lock'.daemon = q
                                /\ lock.credential = q => lock'.credential = q
  BY <1>1, <1>2 DEF Released, Locks
<1>4. /\ TypeInv' /\ Alone(p) /\ pc'[p] = "done" /\ loc'[p] = NoMemory
  <2>1. SharedTypes'
    BY <1>1, <1>2, <1>3 DEF SharedTypes
  <2>2. "done" \in Places(p) /\ Placed(p, "done", NoMemory, lock'.mutation)
    BY <1>1, CommandFacts DEF Places, CommandPlaces, Placed, RefreshPlaces
  <2>3. LockApart(p) /\ pc' = [pc EXCEPT ![p] = "done"]
    BY <1>1, <1>2, <1>3 DEF LockApart, Finish, Goto
  <2>4. PICK new \in Memory : new = NoMemory
    BY NothingInMemory
  <2>5. loc' = [loc EXCEPT ![p] = new] \/ (loc' = loc /\ new = loc[p])
    BY <1>1, <2>4 DEF Finish
  <2>6. Placed(p, "done", new, lock'.mutation)
    BY <2>2, <2>4
  <2>7. TypeInv' /\ Alone(p) /\ pc'[p] = "done" /\ loc'[p] = new
    BY <1>1, <2>1, <2>2, <2>3, <2>5, <2>6, WorkerTypes
  <2> QED
    BY <2>4, <2>7
<1>5. pc'[Loop] = pc[Loop] /\ (Off' <=> Off) /\ (Quiet' <=> Quiet)
  BY <1>1, <1>2, <1>4 DEF Off, Quiet, Alone
<1>6. MutationInv'
  <2>1. DaemonInv'
    BY <1>1, <1>2, <1>3, <1>5 DEF MutationInv, DaemonInv
  <2>2. ASSUME NEW q \in Commands
        PROVE  Locked(q)' /\ Handshake(q)'
    <3>1. CASE q = p
      BY <1>4, <3>1, NothingInMemory DEF Locked, Handshake, MutationPlaces
    <3>2. CASE q # p
      <4>1. pc'[q] = pc[q] /\ loc'[q] = loc[q] /\ q \in Procs \ {p}
        BY <1>2, <1>4, <3>2 DEF Alone
      <4> QED
        BY <1>1, <1>3, <1>5, <4>1 DEF MutationInv, LockInv, Locked, HandshakeInv, Handshake
    <3> QED
      BY <3>1, <3>2
  <2> QED
    BY <2>1, <2>2 DEF MutationInv, LockInv, HandshakeInv
<1>7. NeutralStep(p)
  BY <1>1, <1>2, <1>3, <1>4, FamiliesKept, NothingInMemory
     DEF NeutralStep, CredentialPlaces, SharedTypes
<1> QED
  BY <1>1, <1>4, <1>6, <1>7, NeutralStepKeeps DEF StaysDeleted

-----------------------------------------------------------------------------
(* The daemon and the environment. *)

\* A step of the loop.  It is told what a mutation relies on only while there is
\* one.
LEMMA LoopMove ==
  ASSUME TypeInv, MutationInv, CredentialInv, NEW place \in LoopPlaces,
         pc' = [pc EXCEPT ![Loop] = place],
         UNCHANGED <<file, loc, undone, died>>, SharedTypes',
         lock'.mutation = lock.mutation, lock'.credential = lock.credential,
         NoneRotated(srv'), db'.cred = db.cred,
         db'.requested = db.requested, db'.asked = db.asked, DaemonInv',
         lock.mutation # Nobody =>
           /\ Quiet => Quiet'
           /\ Off => Off'
           /\ db.requested /\ db'.ack >= db'.asked => Quiet' \/ db'.ack = db.ack
  PROVE  TypeInv' /\ MutationInv' /\ CredentialInv' /\ StaysDeleted
<1>1. /\ Loop \in Procs /\ Loop \notin Commands /\ Commands \subseteq Procs
      /\ Nobody \notin Commands /\ pc \in [Procs -> AllPlaces]
      /\ \A q \in Procs : pc[q] \in Places(q)
  BY ProfileAssumption DEF Procs, ProfileAssumption, TypeInv, Types
<1>2. /\ Alone(Loop) /\ pc'[Loop] = place /\ loc' = loc
  BY <1>1 DEF Alone
<1>3. TypeInv'
  <2>1. place \in AllPlaces /\ place \in Places(Loop)
    BY DEF AllPlaces, Places
  <2>2. pc' \in [Procs -> AllPlaces] /\ \A q \in Procs : pc'[q] \in Places(q)
    BY <1>1, <1>2, <2>1 DEF Alone
  <2>3. Types'
    BY <2>2 DEF SharedTypes, Types, Places, TypeInv
  <2>4. ASSUME NEW q \in Procs
        PROVE  Placed(q, pc'[q], loc'[q], lock'.mutation)
    <3>1. CASE q = Loop
      BY <1>1, <1>2, <3>1 DEF Placed, LoopPlaces
    <3>2. CASE q # Loop
      BY <1>2, <3>2 DEF Alone, TypeInv, PlaceInv
    <3> QED
      BY <3>1, <3>2
  <2> QED
    BY <2>3, <2>4 DEF TypeInv, PlaceInv
<1>4. MutationInv'
  <2> SUFFICES ASSUME NEW q \in Commands
               PROVE  Locked(q)' /\ Handshake(q)'
    BY DEF MutationInv, LockInv, HandshakeInv
  <2>1. pc'[q] = pc[q] /\ loc'[q] = loc[q] /\ Locked(q) /\ Handshake(q) /\ q # Nobody
    BY <1>1, <1>2 DEF Alone, MutationInv, LockInv, HandshakeInv
  <2>2. Locked(q)'
    BY <2>1 DEF Locked
  <2>3. CASE lock.mutation = q
    <3>1. Handshake(q)'
      BY <2>1, <2>3 DEF Handshake
    <3> QED
      BY <2>2, <3>1
  <2>4. CASE lock.mutation # q
    <3>1. Handshake(q)'
      BY <2>1, <2>4 DEF Locked, Handshake, MutationPlaces
    <3> QED
      BY <2>2, <3>1
  <2> QED
    BY <2>3, <2>4
<1>5. place \notin CredentialPlaces
  BY DEF LoopPlaces, CredentialPlaces
<1>6. NeutralStep(Loop)
  BY <1>2, <1>5 DEF NeutralStep, CredentialPlaces
<1> QED
  BY <1>1, <1>2, <1>3, <1>4, <1>6, NeutralStepKeeps DEF StaysDeleted

\* What such a step starts from.
LEMMA LoopFacts ==
  ASSUME TypeInv
  PROVE  /\ SharedTypes /\ NoneRotated(srv) /\ pc[Loop] \in LoopPlaces
         /\ pc = [pc EXCEPT ![Loop] = pc[Loop]]
         /\ db.requested \in BOOLEAN /\ db.claimed \in BOOLEAN /\ running \in BOOLEAN
         /\ db.asked \in Nat /\ db.ack \in Nat /\ db.cred.tok \in Tokens
         /\ \A place \in LoopPlaces : [pc EXCEPT ![Loop] = place][Loop] = place
<1>1. Loop \in Procs /\ pc \in [Procs -> AllPlaces] /\ pc[Loop] \in Places(Loop)
  BY ProfileAssumption DEF Procs, ProfileAssumption, TypeInv, Types
<1>2. db \in GoodStores /\ db.cred \in Credentials /\ srv \in [Families -> Family]
  BY StoreFields DEF TypeInv, Types, GoodCreds
<1> QED
  BY <1>1, <1>2, StoreFields, FamiliesKept
     DEF Places, SharedTypes, TypeInv, Types, Credentials

\* Steps that only move the loop, or change the settings it runs with.
LEMMA SettingsStep ==
  ASSUME TypeInv, MutationInv, CredentialInv,
         LoadSettings \/ LiveReload \/ ReadRevision \/ Reload \/ Gate
  PROVE  TypeInv' /\ MutationInv' /\ CredentialInv' /\ StaysDeleted
<1>1. UNCHANGED <<file, db, lock, srv, loc, lapsed, rots, running, undone, died>>
  BY DEF LoadSettings, LiveReload, ReadRevision, Reload, Gate, world, history, daemonVars
<1>2. /\ SharedTypes /\ NoneRotated(srv') /\ file \in Files /\ db.rev \in Nat
      /\ loaded \in [file : Files, tok : Tokens] /\ db.cred.tok \in Tokens
      /\ loaded.file \in Files /\ loaded.tok \in Tokens /\ loaded.file.rev \in Nat
  BY <1>1, LoopFacts, StoreFields DEF SharedTypes, GoodStores, Stores, Files
<1>3. loaded' \in [file : Files, tok : Tokens]
  <2>1. \A f \in Files, n \in Nat : [f EXCEPT !.rev = n] \in Files
    BY DEF Files
  <2>2. CASE LoadSettings
    BY <1>2, <2>2 DEF LoadSettings
  <2>3. CASE LiveReload
    BY <1>2, <2>1, <2>3 DEF LiveReload
  <2>4. CASE ReadRevision
    <3>1. loaded' = loaded \/ loaded' = [loaded EXCEPT !.file = [loaded.file EXCEPT !.rev = db.rev]]
      BY <1>2, <2>4 DEF ReadRevision
    <3> QED
      BY <1>2, <2>1, <3>1
  <2>5. CASE Reload
    BY <1>2, <2>1, <2>5 DEF Reload
  <2>6. CASE Gate
    BY <1>2, <2>6 DEF Gate, daemonVars
  <2> QED
    BY <2>2, <2>3, <2>4, <2>5, <2>6
<1>4. SharedTypes'
  BY <1>1, <1>2, <1>3 DEF SharedTypes
<1>5. PICK place \in LoopPlaces :
        /\ pc' = [pc EXCEPT ![Loop] = place] /\ pc'[Loop] = place
        /\ place \in {"down", "start"} <=> pc[Loop] \in {"down", "start"}
        /\ place = "idle" => ~running
        /\ place # "ack"
        /\ place = "work" => pc[Loop] = "gate" /\ ~db.requested
  <2>1. \A place \in LoopPlaces : pc' = [pc EXCEPT ![Loop] = place] => pc'[Loop] = place
    BY LoopFacts
  <2>2. CASE LoadSettings
    BY <2>1, <2>2 DEF LoadSettings, AtLoop, Goto, LoopPlaces
  <2>3. CASE LiveReload
    BY <2>1, <2>3 DEF LiveReload, AtLoop, Goto, LoopPlaces
  <2>4. CASE ReadRevision
    BY <2>1, <2>4 DEF ReadRevision, AtLoop, Goto, LoopPlaces
  <2>5. CASE Reload
    BY <2>1, <2>5 DEF Reload, AtLoop, Goto, LoopPlaces
  <2>6. CASE Gate
    BY <2>1, <2>6 DEF Gate, AtLoop, Goto, LoopPlaces
  <2> QED
    BY <2>2, <2>3, <2>4, <2>5, <2>6
<1>6. (Off' <=> Off) /\ DaemonInv'
  BY <1>1, <1>5 DEF MutationInv, DaemonInv, Off
<1>7. Quiet => Quiet'
  BY <1>1, <1>5, <1>6 DEF Quiet, Off
<1> QED
  BY <1>1, <1>2, <1>4, <1>5, <1>6, <1>7, LoopMove

\* The daemon starts through the lock of the mutation.
LEMMA StartDaemonStep ==
  ASSUME TypeInv, MutationInv, CredentialInv, StartDaemon
  PROVE  TypeInv' /\ MutationInv' /\ CredentialInv' /\ StaysDeleted
<1>1. /\ pc[Loop] = "start"
      /\ UNCHANGED <<file, db, srv, loc, lapsed, rots, loaded, running, undone, died>>
  BY DEF StartDaemon, AtLoop, world, history, daemonVars
<1>2. SharedTypes /\ NoneRotated(srv') /\ ~running /\ lock \in Locks /\ db.ack <= db.asked
  BY <1>1, LoopFacts DEF SharedTypes, MutationInv, DaemonInv, Off
<1>3. CASE AtLoop("start", "top") /\ lock.mutation = Nobody /\ Take(Loop, "daemon")
  <2>1. pc' = [pc EXCEPT ![Loop] = "top"] /\ pc'[Loop] = "top" /\ "top" \in LoopPlaces
    BY <1>3, LoopFacts DEF AtLoop, Goto, LoopPlaces
  <2>2. /\ lock' \in Locks /\ lock'.daemon = Loop /\ lock'.mutation = lock.mutation
        /\ lock'.credential = lock.credential
    <3>1. lock' = [lock EXCEPT !["daemon"] = Loop] /\ Loop \in Procs
      BY <1>3 DEF Take, Procs
    <3> QED
      BY <1>2, <3>1, LockUpdates
  <2>3. SharedTypes'
    BY <1>1, <1>2, <2>2 DEF SharedTypes
  <2>4. DaemonInv'
    BY <1>1, <1>2, <2>1, <2>2 DEF DaemonInv, Off
  <2> QED
    BY <1>1, <1>2, <1>3, <2>1, <2>2, <2>3, <2>4, LoopMove
<1>4. CASE AtLoop("start", "down") /\ lock.mutation # Nobody /\ UNCHANGED lock
  <2>1. pc' = [pc EXCEPT ![Loop] = "down"] /\ pc'[Loop] = "down" /\ "down" \in LoopPlaces
    BY <1>4, LoopFacts DEF AtLoop, Goto, LoopPlaces
  <2>2. SharedTypes'
    BY <1>1, <1>2, <1>4 DEF SharedTypes
  <2>3. DaemonInv' /\ Off' /\ (Quiet => Quiet')
    BY <1>1, <1>2, <2>1 DEF DaemonInv, Off, Quiet
  <2> QED
    BY <1>1, <1>2, <1>4, <2>1, <2>2, <2>3, LoopMove
<1> QED
  BY <1>3, <1>4 DEF StartDaemon

\* A claim left behind is ended, and maintenance acknowledged.
LEMMA HandshakeStep ==
  ASSUME TypeInv, MutationInv, CredentialInv, ReconcileIdle \/ AcknowledgeMaintenance
  PROVE  TypeInv' /\ MutationInv' /\ CredentialInv' /\ StaysDeleted
<1>1. UNCHANGED <<file, lock, srv, loc, lapsed, rots, loaded, running, undone, died>>
  BY DEF ReconcileIdle, AcknowledgeMaintenance, world, history, daemonVars
<1>2. /\ SharedTypes /\ NoneRotated(srv') /\ db \in GoodStores /\ db.ack <= db.asked
      /\ db.asked \in Nat /\ db.ack \in Nat
  BY <1>1, LoopFacts DEF SharedTypes, MutationInv, DaemonInv
<1>3. CASE ReconcileIdle
  <2>1. pc[Loop] = "idle" /\ ~running
    BY <1>3 DEF ReconcileIdle, AtLoop, MutationInv, DaemonInv
  <2>2. /\ db' \in GoodStores /\ db'.cred = db.cred /\ db'.requested = db.requested
        /\ db'.asked = db.asked /\ db'.ack = db.ack /\ (db'.claimed => db.claimed)
    <3>1. CASE db' = [db EXCEPT !.claimed = FALSE]
      <4>1. Agreed(db', db, db.requested, db.asked, db.ack, FALSE)
        BY <1>2, <3>1, HandshakeUpdates
      <4> QED
        BY <4>1 DEF Agreed
    <3>2. CASE db' = db
      BY <1>2, <3>2
    <3> QED
      BY <1>3, <3>1, <3>2 DEF ReconcileIdle
  <2>3. PICK place \in {"ack", "top"} :
          /\ pc' = [pc EXCEPT ![Loop] = place] /\ pc'[Loop] = place
          /\ place = "ack" => ~db'.claimed
    <3>1. \A place \in {"ack", "top"} :
            pc' = [pc EXCEPT ![Loop] = place] => pc'[Loop] = place
      BY LoopFacts DEF LoopPlaces
    <3>2. CASE AtLoop("idle", "ack") /\ ~db.claimed /\ UNCHANGED <<db, left>>
      BY <3>1, <3>2 DEF AtLoop, Goto
    <3>3. CASE AtLoop("idle", "ack") /\ db' = [db EXCEPT !.claimed = FALSE]
      <4>1. Agreed(db', db, db.requested, db.asked, db.ack, FALSE)
        BY <1>2, <3>3, HandshakeUpdates
      <4> QED
        BY <3>1, <3>3, <4>1 DEF Agreed, AtLoop, Goto
    <3>4. CASE AtLoop("idle", "top")
      BY <3>1, <3>4 DEF AtLoop, Goto
    <3> QED
      BY <1>3, <3>2, <3>3, <3>4 DEF ReconcileIdle
  <2>4. SharedTypes'
    BY <1>1, <1>2, <2>2 DEF SharedTypes
  <2>5. DaemonInv'
    BY <1>1, <1>2, <2>1, <2>2, <2>3 DEF MutationInv, DaemonInv, Off
  <2>6. (Quiet => Quiet') /\ (Off => Off')
    BY <1>1, <2>1, <2>2, <2>3 DEF Quiet, Off
  <2>7. place \in LoopPlaces
    BY DEF LoopPlaces
  <2> QED
    BY <1>1, <1>2, <2>2, <2>3, <2>4, <2>5, <2>6, <2>7, LoopMove
<1>4. CASE AcknowledgeMaintenance
  <2>1. pc[Loop] = "ack" /\ ~running /\ ~db.claimed
    BY <1>4 DEF AcknowledgeMaintenance, AtLoop, MutationInv, DaemonInv
  <2>2. /\ db' \in GoodStores /\ db'.cred = db.cred /\ db'.requested = db.requested
        /\ db'.asked = db.asked /\ db'.ack = db.asked /\ db'.claimed = db.claimed
    <3>1. Agreed(db', db, db.requested, db.asked, db.asked, db.claimed)
      BY <1>2, <1>4, HandshakeUpdates DEF AcknowledgeMaintenance
    <3> QED
      BY <3>1 DEF Agreed
  <2>3. pc' = [pc EXCEPT ![Loop] = "top"] /\ pc'[Loop] = "top" /\ "top" \in LoopPlaces
    BY <1>4, LoopFacts DEF AcknowledgeMaintenance, AtLoop, Goto, LoopPlaces
  <2>4. SharedTypes'
    BY <1>1, <1>2, <2>2 DEF SharedTypes
  <2>5. DaemonInv'
    BY <1>1, <1>2, <2>1, <2>2, <2>3 DEF MutationInv, DaemonInv, Off
  <2>6. (Quiet => Quiet') /\ (Off => Off') /\ (db.requested => Quiet')
    BY <1>1, <2>1, <2>2, <2>3 DEF Quiet, Off
  <2> QED
    BY <1>1, <1>2, <2>2, <2>3, <2>4, <2>5, <2>6, LoopMove
<1> QED
  BY <1>3, <1>4

\* The rest of a pass, and an execution: nothing of it happens in a quiet daemon.
LEMMA ExecutionStep ==
  ASSUME TypeInv, MutationInv, CredentialInv, Work \/ SaveClaim \/ RunEnds
  PROVE  TypeInv' /\ MutationInv' /\ CredentialInv' /\ StaysDeleted
<1>1. UNCHANGED <<file, lock, srv, loc, lapsed, rots, loaded, undone, died>>
  BY DEF Work, SaveClaim, RunEnds, world, history, daemonVars
<1>2. /\ SharedTypes /\ NoneRotated(srv') /\ db \in GoodStores /\ db.ack <= db.asked
      /\ pc[Loop] \in LoopPlaces /\ running \in BOOLEAN
  BY <1>1, LoopFacts DEF SharedTypes, MutationInv, DaemonInv
<1>3. ~Quiet /\ ~Off
  BY <1>1, <1>2 DEF Work, SaveClaim, RunEnds, AtLoop, Quiet, MutationInv, DaemonInv, Off
<1>4. /\ db' \in GoodStores /\ db'.cred = db.cred /\ db'.requested = db.requested
      /\ db'.asked = db.asked /\ db'.ack = db.ack
  <2>1. CASE db' = db
    BY <1>2, <2>1
  <2>2. ASSUME NEW b \in BOOLEAN, db' = [db EXCEPT !.claimed = b]
        PROVE  Agreed(db', db, db.requested, db.asked, db.ack, b)
    BY <1>2, <2>2, HandshakeUpdates
  <2> QED
    BY <2>1, <2>2 DEF Work, SaveClaim, RunEnds, Agreed
<1>5. running' \in BOOLEAN
  BY <1>2 DEF Work, SaveClaim, RunEnds, daemonVars
<1>6. PICK place \in LoopPlaces :
        /\ pc' = [pc EXCEPT ![Loop] = place] /\ pc'[Loop] = place
        /\ place = "top" \/ (place = pc[Loop] /\ running)
  <2>1. CASE Work
    BY <2>1, LoopFacts DEF Work, AtLoop, Goto, LoopPlaces
  <2>2. CASE SaveClaim \/ RunEnds
    <3>1. pc' = pc /\ running
      BY <2>2 DEF SaveClaim, RunEnds
    <3> QED
      BY <3>1, LoopFacts
  <2> QED
    BY <2>1, <2>2
<1>7. SharedTypes'
  BY <1>1, <1>2, <1>4, <1>5 DEF SharedTypes
<1>8. pc'[Loop] \notin {"down", "start", "idle", "ack"}
  BY <1>3, <1>6 DEF MutationInv, DaemonInv, Off
<1>9. DaemonInv'
  BY <1>1, <1>2, <1>3, <1>4, <1>8 DEF MutationInv, DaemonInv, Off
<1> QED
  BY <1>1, <1>2, <1>3, <1>4, <1>6, <1>7, <1>9, LoopMove

\* A token expires, or the user revokes the installation in the browser.
LEMMA OutsideStep ==
  ASSUME TypeInv, MutationInv, CredentialInv, TokenLapses \/ RevokedInBrowser
  PROVE  TypeInv' /\ MutationInv' /\ CredentialInv' /\ StaysDeleted
<1>1. UNCHANGED <<file, db, lock, pc, loc, rots, loaded, running, undone, died>>
  BY DEF TokenLapses, RevokedInBrowser, history, daemonVars
<1>2. /\ SharedTypes /\ pc[Loop] \in LoopPlaces /\ db.cred.tok \in Tokens
      /\ pc = [pc EXCEPT ![Loop] = pc[Loop]]
  BY LoopFacts
<1>3. lapsed' \subseteq Tokens
  BY <1>2 DEF TokenLapses, RevokedInBrowser, SharedTypes
<1>4. srv' \in [Families -> Family] /\ NoneRotated(srv')
  BY <1>2, FamiliesKept DEF TokenLapses, RevokedInBrowser, SharedTypes
<1>5. SharedTypes'
  BY <1>1, <1>2, <1>3, <1>4 DEF SharedTypes
<1>6. (Quiet' <=> Quiet) /\ (Off' <=> Off) /\ DaemonInv'
  BY <1>1 DEF Quiet, Off, MutationInv, DaemonInv
<1>7. PICK place \in LoopPlaces : pc' = [pc EXCEPT ![Loop] = place]
  BY <1>1, <1>2
<1> QED
  BY <1>1, <1>2, <1>4, <1>5, <1>6, <1>7, LoopMove

\* The daemon dies, its loop and its request at once.
LEMMA DaemonDiesStep ==
  ASSUME TypeInv, MutationInv, CredentialInv, DaemonDies
  PROVE  TypeInv' /\ MutationInv' /\ CredentialInv' /\ StaysDeleted
<1>1. /\ pc' = [pc EXCEPT ![Loop] = "down", ![Calls] = "off"]
      /\ loc' = [loc EXCEPT ![Calls] = NoMemory] /\ running' = FALSE
      /\ Released({Loop, Calls})
      /\ UNCHANGED <<file, db, srv, lapsed, rots, loaded, undone, died>>
  BY DEF DaemonDies, history
<1>2. /\ Loop \in Procs /\ Calls \in Procs /\ Loop # Calls /\ Commands \subseteq Procs
      /\ Nobody \notin Procs /\ Loop \notin Commands /\ Calls \notin Commands
      /\ pc \in [Procs -> AllPlaces] /\ loc \in [Procs -> Memory] /\ lock \in Locks
      /\ \A q \in Procs : pc[q] \in Places(q)
  BY ProfileAssumption DEF Procs, ProfileAssumption, TypeInv, Types
<1>3. /\ \A q \in Commands : pc'[q] = pc[q] /\ loc'[q] = loc[q]
      /\ \A q \in Procs : q \in Commands \/ q = Loop \/ q = Calls
      /\ pc'[Loop] = "down" /\ pc'[Calls] = "off"
      /\ loc'[Loop] = loc[Loop] /\ loc'[Calls] = NoMemory
  BY <1>1, <1>2 DEF Procs
<1>4. /\ lock' \in Locks
      /\ \A q \in Commands : /\ lock.mutation = q => lock'.mutation = q
                             /\ lock.credential = q => lock'.credential = q
  BY <1>1, <1>2 DEF Released, Locks
<1>5. TypeInv'
  <2>1. pc' \in [Procs -> AllPlaces] /\ loc' \in [Procs -> Memory]
    BY <1>1, <1>2, NothingInMemory DEF AllPlaces, LoopPlaces
  <2>2. \A q \in Procs : pc'[q] \in Places(q)
    BY <1>2, <1>3 DEF Places, LoopPlaces
  <2>3. Types'
    BY <1>1, <1>4, <2>1, <2>2 DEF TypeInv, Types, Places
  <2>4. ASSUME NEW q \in Procs
        PROVE  Placed(q, pc'[q], loc'[q], lock'.mutation)
    <3>1. CASE q \in Commands
      <4>1. Placed(q, pc[q], loc[q], lock.mutation)
        BY DEF TypeInv, PlaceInv
      <4> QED
        BY <1>3, <1>4, <3>1, <4>1 DEF Placed
    <3>2. CASE q \notin Commands
      BY <1>3, <3>2 DEF Placed
    <3> QED
      BY <3>1, <3>2
  <2> QED
    BY <2>3, <2>4 DEF TypeInv, PlaceInv
<1>6. MutationInv'
  <2>1. Off' /\ DaemonInv' /\ (Quiet => Quiet')
    BY <1>1, <1>3 DEF Off, Quiet, MutationInv, DaemonInv
  <2>2. ASSUME NEW q \in Commands
        PROVE  Locked(q)' /\ Handshake(q)'
    <3>1. Locked(q) /\ Handshake(q) /\ pc'[q] = pc[q] /\ loc'[q] = loc[q]
      BY <1>3 DEF MutationInv, LockInv, HandshakeInv
    <3>2. Locked(q)'
      BY <1>4, <3>1 DEF Locked
    <3>3. Handshake(q)'
      BY <1>1, <2>1, <3>1 DEF Handshake
    <3> QED
      BY <3>2, <3>3
  <2> QED
    BY <2>1, <2>2 DEF MutationInv, LockInv, HandshakeInv
<1>7. CredentialInv'
  <2>1. "down" \notin CredentialPlaces /\ "off" \notin CredentialPlaces
    BY DEF CredentialPlaces
  <2>2. HolderInv'
    BY <1>2, <1>3, <1>4, <2>1 DEF CredentialInv, HolderInv
  <2>3. IssueInv'
    <3>1. ASSUME NEW q \in Procs
          PROVE  Issued(loc[q].cred)' /\ Issued(loc[q].store.cred)'
      <4>1. CASE q = Calls
        <5>1. loc'[q].cred = NoCred /\ loc'[q].store.cred = FreshStore.cred
          BY <1>3, <4>1, NothingInMemory
        <5>2. Issued(FreshStore.cred) /\ srv' = srv
          BY <1>1 DEF CredentialInv, IssueInv
        <5>3. Issued(loc[q].cred)'
          BY <5>1 DEF Issued
        <5>4. Issued(loc[q].store.cred)'
          BY <5>1, <5>2 DEF Issued
        <5> QED
          BY <5>3, <5>4
      <4>2. CASE q # Calls
        <5>1. loc'[q] = loc[q] /\ srv' = srv
          BY <1>1, <1>3, <4>2
        <5>2. Issued(loc[q].cred) /\ Issued(loc[q].store.cred)
          BY DEF CredentialInv, IssueInv
        <5> QED
          BY <5>1, <5>2 DEF Issued
      <4> QED
        BY <4>1, <4>2
    <3> QED
      BY <1>1, <3>1, Zenon DEF CredentialInv, IssueInv, Issued
  <2>4. RecoverableUnlessUndone' /\ FamilyUnmixed'
    BY <1>1 DEF CredentialInv, RecoverableUnlessUndone, Recoverable, FamilyUnmixed
  <2>5. ASSUME NEW q \in Procs
        PROVE  Copied(q)'
    <3>1. NoCred.tok[1] = NoCred.fam
      BY DEF NoCred
    <3>2. CASE q = Calls
      BY <1>3, <3>1, <3>2, NothingInMemory DEF Copied
    <3>3. CASE q # Calls
      <4>1. Copied(q) /\ loc'[q] = loc[q] /\ (pc'[q] = pc[q] \/ pc'[q] = "down")
        BY <1>3, <3>3 DEF CredentialInv, CopyInv
      <4> QED
        BY <1>1, <4>1 DEF Copied
    <3> QED
      BY <3>2, <3>3
  <2> QED
    BY <2>2, <2>3, <2>4, <2>5 DEF CredentialInv, CopyInv
<1> QED
  BY <1>1, <1>5, <1>6, <1>7 DEF StaysDeleted

-----------------------------------------------------------------------------
(* The invariant. *)

\* The invariant holds at the start.
LEMMA ProfileStart ==
  ASSUME Init
  PROVE  ProfileInv
<1>1. PICK b \in BOOLEAN : db = [FreshStore EXCEPT !.cred.reauth = b]
  BY DEF Init
<1>2. /\ db \in GoodStores /\ db.cred # NoCred /\ db.cred.tok = <<1, 1>> /\ db.cred.fam = 1
      /\ db.claimed = FALSE /\ db.ack <= db.asked
  <2>1. FreshStore.cred \in GoodCreds /\ FreshStore.cred # NoCred
        /\ FreshStore.cred.tok = <<1, 1>> /\ FreshStore.cred.fam = 1
    BY NothingInMemory, NewCredentials, ProfileAssumption DEF ProfileAssumption
  <2> DEFINE c == [FreshStore.cred EXCEPT !.reauth = b]
  <2>2. c \in GoodCreds /\ c # NoCred /\ c.tok = <<1, 1>> /\ c.fam = 1
    BY <2>1, CredentialUpdates
  <2>3. db = [FreshStore EXCEPT !.cred = c]
    BY <1>1
  <2>4. FreshStore \in Stores /\ FreshStore.ack = 0 /\ FreshStore.asked = 0
        /\ FreshStore.claimed = FALSE
    BY NothingInMemory DEF GoodStores
  <2>5. \A d \in GoodCreds : d \in Credentials
    BY DEF GoodCreds
  <2> HIDE DEF c
  <2>6. db \in Stores /\ db.cred = c /\ db.ack = 0 /\ db.asked = 0 /\ db.claimed = FALSE
    BY <2>2, <2>3, <2>4, <2>5 DEF Stores
  <2> QED
    BY <2>2, <2>6 DEF GoodStores
<1>3. /\ pc = [p \in Procs |-> IF p = Loop THEN "down" ELSE IF p = Calls THEN "off" ELSE "new"]
      /\ loc = [p \in Procs |-> NoMemory] /\ running = FALSE /\ rots = 0
      /\ lock = [mutation |-> Nobody, daemon |-> Nobody, credential |-> Nobody]
      /\ srv = [f \in Families |-> [gen |-> 1, rot |-> 0,
                                    state |-> IF f = 1 THEN "active" ELSE "unissued"]]
      /\ file = FreshFile /\ lapsed = {} /\ undone = FALSE /\ died = FALSE
      /\ loaded = [file |-> FreshFile, tok |-> <<1, 1>>]
  BY DEF Init
<1>4. /\ Loop \in Procs /\ Calls \in Procs /\ Loop # Calls /\ 1 \in Families
      /\ Loop \notin Commands /\ Calls \notin Commands
  BY ProfileAssumption DEF Procs, ProfileAssumption
<1>5. /\ \A p \in Procs : loc[p] = NoMemory
      /\ pc[Loop] = "down" /\ pc[Calls] = "off" /\ \A p \in Commands : pc[p] = "new"
      /\ \A p \in Procs : pc[p] \in {"down", "off", "new"} /\ pc[p] \in Places(p)
  BY <1>3, <1>4 DEF Procs, Places, LoopPlaces, CommandPlaces
<1>6. TypeInv
  <2>1. lock \in Locks
    BY <1>3 DEF Locks
  <2>2. srv \in [Families -> Family]
    BY <1>3 DEF Family
  <2>3. loaded \in [file : Files, tok : Tokens]
    BY <1>3, <1>4, NothingInMemory DEF Tokens
  <2>4. pc \in [Procs -> AllPlaces] /\ loc \in [Procs -> Memory]
    BY <1>3, NothingInMemory DEF AllPlaces, LoopPlaces, CommandPlaces
  <2>5. Types
    BY <1>2, <1>3, <1>5, <2>1, <2>2, <2>3, <2>4, NothingInMemory DEF Types
  <2>6. PlaceInv
    BY <1>5 DEF PlaceInv, Placed, RefreshPlaces
  <2> QED
    BY <2>5, <2>6 DEF TypeInv
<1>7. MutationInv
  <2>1. DaemonInv
    BY <1>2, <1>3, <1>5 DEF DaemonInv, Off
  <2>2. ASSUME NEW p \in Commands
        PROVE  Locked(p) /\ Handshake(p)
    <3>1. pc[p] = "new" /\ loc[p].kept = FALSE
      BY <1>5, NothingInMemory DEF Procs
    <3> QED
      BY <3>1 DEF Locked, Handshake, MutationPlaces
  <2> QED
    BY <2>1, <2>2 DEF MutationInv, LockInv, HandshakeInv
<1>8. CredentialInv
  <2>1. HolderInv
    BY <1>5 DEF HolderInv, CredentialPlaces
  <2>2. IssueInv
    <3>1. \A f \in Families : srv[f].gen = 1
      BY <1>3
    <3>2. srv[1].state = "active"
      <4>1. \A f \in Families : f = 1 => srv[f].state = "active"
        BY <1>3
      <4> QED
        BY <1>4, <4>1
    <3>3. FreshStore.cred.tok[1] = 1
      <4>1. FreshStore.cred = Cred(1, 1) /\ Cred(1, 1).tok = <<1, 1>>
        BY NothingInMemory DEF Cred
      <4> QED
        BY <4>1
    <3>4. Issued(db.cred) /\ Issued(FreshStore.cred) /\ Issued(NoCred)
      BY <1>2, <3>2, <3>3 DEF Issued
    <3> QED
      BY <1>5, <3>1, <3>4, NothingInMemory DEF IssueInv
  <2>3. CopyInv
    <3>1. NoCred.tok[1] = NoCred.fam
      BY DEF NoCred
    <3> QED
      BY <1>5, <3>1, NothingInMemory DEF CopyInv, Copied
  <2>4. RecoverableUnlessUndone /\ FamilyUnmixed
    BY <1>2, <1>3, <1>4 DEF RecoverableUnlessUndone, Recoverable, FamilyUnmixed
  <2> QED
    BY <2>1, <2>2, <2>3, <2>4 DEF CredentialInv
<1> QED
  BY <1>6, <1>7, <1>8 DEF ProfileInv

\* Who may bring a credential back.
DeletionKept == StaysDeleted \/ \E p \in Commands : pc[p] \in {"l_store", "m_restore"}

\* Every step of a refresh.
LEMMA RefreshStep ==
  ASSUME TypeInv, MutationInv, CredentialInv, NEW p \in Worker, Refresh(p) \/ RefreshLost(p)
  PROVE  TypeInv' /\ MutationInv' /\ CredentialInv' /\ StaysDeleted
<1>1. HolderInv
  BY DEF CredentialInv
<1>2. p \in Procs
  BY WorkerFacts
<1>3. TypeInv' /\ Alone(p) /\ InnerStep(p) /\ CredentialInv' /\ StaysDeleted
  <2>1. CASE RefreshLock(p) \/ RefreshRead(p) \/ RefreshActivate(p)
    <3>1. TypeInv' /\ Alone(p) /\ InnerStep(p) /\ NeutralStep(p)
      BY <1>1, <2>1, RefreshLockStep, RefreshReadStep, RefreshActivateStep
    <3>2. CredentialInv'
      BY <1>2, <3>1, NeutralStepKeeps
    <3> QED
      BY <3>1, <3>2 DEF NeutralStep, StaysDeleted
  <2>2. CASE RefreshPrepare(p)
    BY <2>2, RefreshPrepareStep
  <2>3. CASE RefreshPost(p)
    BY <2>3, RefreshPostStep
  <2>4. CASE RefreshAnswer(p)
    BY <2>4, RefreshAnswerStep
  <2>5. CASE RefreshStatus(p)
    BY <2>5, RefreshStatusStep
  <2>6. CASE RefreshLost(p)
    BY <2>6, RefreshLostStep
  <2> QED
    BY <2>1, <2>2, <2>3, <2>4, <2>5, <2>6 DEF Refresh
<1> QED
  BY <1>3, InnerStepKeeps

\* Every step of a command, and its death.
LEMMA CommandStep ==
  ASSUME TypeInv, MutationInv, CredentialInv, NEW p \in Commands, Command(p) \/ CommandDies(p)
  PROVE  TypeInv' /\ MutationInv' /\ CredentialInv' /\ DeletionKept
<1>1. LockInv /\ p \in Worker
  BY CommandFacts DEF MutationInv
<1>2. CASE LoginStore(p)
  <2>1. TypeInv' /\ Alone(p) /\ InnerStep(p) /\ CredentialInv'
    BY <1>1, <1>2, LoginStoreStep
  <2>2. pc[p] = "l_store"
    BY <1>2 DEF LoginStore
  <2> QED
    BY <1>1, <2>1, <2>2, InnerStepKeeps DEF DeletionKept
<1>3. CASE RestoreStore(p)
  BY <1>3, RestoreStoreStep DEF DeletionKept
<1>4. CASE \/ Begin(p) \/ Reconcile(p) \/ WriteConfig(p) \/ SetRevision(p)
           \/ LoginLock(p) \/ LoginExchange(p) \/ LoginActivate(p)
           \/ Logout(p) \/ PostUsePat(p) \/ StorePat(p) \/ PostRevoke(p) \/ DeleteRevoked(p)
  <2>1. TypeInv' /\ Alone(p) /\ InnerStep(p) /\ CredentialInv' /\ StaysDeleted
    <3>1. CASE Begin(p)
      BY <3>1, BeginStep
    <3>2. CASE Reconcile(p)
      BY <3>2, ReconcileStep
    <3>3. CASE WriteConfig(p)
      BY <1>1, <3>3, WriteConfigStep
    <3>4. CASE SetRevision(p)
      BY <1>1, <3>4, SetRevisionStep
    <3>5. CASE LoginLock(p)
      BY <1>1, <3>5, LoginLockStep
    <3>6. CASE LoginExchange(p)
      BY <1>1, <3>6, LoginExchangeStep
    <3>7. CASE LoginActivate(p)
      BY <1>1, <3>7, LoginActivateStep
    <3>8. CASE Logout(p) \/ StorePat(p) \/ DeleteRevoked(p)
      BY <1>1, <3>8, DeletionStep
    <3>9. CASE PostUsePat(p)
      BY <1>1, <3>9, PostUsePatStep
    <3>10. CASE PostRevoke(p)
      BY <1>1, <3>10, PostRevokeStep
    <3> QED
      BY <1>4, <3>1, <3>2, <3>3, <3>4, <3>5, <3>6, <3>7, <3>8, <3>9, <3>10
  <2> QED
    BY <1>1, <2>1, InnerStepKeeps DEF DeletionKept
<1>5. CASE \/ MutateLock(p) \/ EnterMaintenance(p) \/ MaintenanceEntered(p)
           \/ MaintenanceTimedOut(p) \/ Backup(p) \/ RestoreConfig(p) \/ Leave(p)
           \/ CommandDies(p)
  BY <1>5, MutateLockStep, EnterMaintenanceStep, MaintenanceEnteredStep,
     MaintenanceTimedOutStep, BackupStep, RestoreConfigStep, LeaveStep, CommandDiesStep
     DEF DeletionKept
<1> QED
  BY <1>2, <1>3, <1>4, <1>5 DEF Command

\* Every step keeps the invariant, and the deletion of a credential.
LEMMA ProfileStep ==
  ASSUME ProfileInv, [Next]_vars
  PROVE  ProfileInv' /\ DeletionKept
<1>1. TypeInv /\ MutationInv /\ CredentialInv
  BY DEF ProfileInv
<1>2. Commands \subseteq Worker /\ Calls \in Worker
  BY DEF Worker
<1>3. ASSUME NEW p \in Commands,
             Command(p) \/ Refresh(p) \/ RefreshLost(p) \/ CommandDies(p)
      PROVE  ProfileInv' /\ DeletionKept
  BY <1>1, <1>2, <1>3, RefreshStep, CommandStep DEF ProfileInv, DeletionKept
<1>4. CASE Refresh(Calls) \/ RefreshLost(Calls)
  BY <1>1, <1>2, <1>4, RefreshStep DEF ProfileInv, DeletionKept
<1>5. CASE CallStarts
  BY <1>1, <1>2, <1>5, CallStartsStep, InnerStepKeeps DEF ProfileInv, DeletionKept
<1>6. CASE DaemonStep
  BY <1>1, <1>6, SettingsStep, StartDaemonStep, HandshakeStep, ExecutionStep
     DEF DaemonStep, ProfileInv, DeletionKept
<1>7. CASE SaveClaim \/ RunEnds
  BY <1>1, <1>7, ExecutionStep DEF ProfileInv, DeletionKept
<1>8. CASE Environment
  BY <1>1, <1>8, OutsideStep, DaemonDiesStep DEF Environment, ProfileInv, DeletionKept
<1>9. CASE UNCHANGED vars
  <2>1. UNCHANGED <<file, db, lock, srv, lapsed, pc, loc, loaded, running, rots, undone,
                    died>>
    BY <1>9 DEF vars
  <2>2. Types'
    BY <1>1, <2>1 DEF TypeInv, Types
  <2>3. PlaceInv'
    BY <1>1, <2>1 DEF TypeInv, PlaceInv
  <2>4. MutationInv'
    BY <1>1, <2>1
       DEF MutationInv, DaemonInv, LockInv, HandshakeInv, Locked, Handshake, Quiet, Off
  <2>5. CredentialInv'
    BY <1>1, <2>1, Zenon
       DEF CredentialInv, HolderInv, IssueInv, Issued, CopyInv, Copied,
           RecoverableUnlessUndone, Recoverable, FamilyUnmixed
  <2> QED
    BY <2>1, <2>2, <2>3, <2>4, <2>5 DEF ProfileInv, TypeInv, DeletionKept, StaysDeleted
<1> QED
  BY <1>3, <1>4, <1>5, <1>6, <1>7, <1>8, <1>9 DEF Next

-----------------------------------------------------------------------------
(* The theorems. *)

\* What every state of the profile, the store, the locks, Tether Brain and the
\* daemon satisfies: the types with what each place of the code knows, the
\* exclusion of the mutation, and the copies of the credential.
THEOREM ProfileInvariant == Spec => []ProfileInv
<1>1. Init => ProfileInv
  BY ProfileStart
<1>2. ProfileInv /\ [Next]_vars => ProfileInv'
  BY ProfileStep
<1> QED
  BY <1>1, <1>2, PTL DEF Spec

\* Every variable stays in the set its code keeps it in.
THEOREM ProfileTypes == Spec => []TypeOK
<1>1. ProfileInv => TypeOK
  <2> SUFFICES ASSUME ProfileInv
               PROVE  TypeOK
    OBVIOUS
  <2>1. Types
    BY DEF ProfileInv, TypeInv
  <2>2. Loop \in Procs /\ Calls \in Procs /\ Commands \subseteq Procs /\ Calls # Loop
        /\ Loop \notin Commands /\ Calls \notin Commands
    BY ProfileAssumption DEF Procs, ProfileAssumption
  <2>3. db \in Stores
    BY <2>1 DEF Types, GoodStores
  <2>4. \A p \in Procs : loc[p].cred \in Credentials /\ loc[p].store \in Stores
    BY <2>1 DEF Types, Memory, GoodStores, GoodCreds
  <2>5. /\ pc[Loop] \in LoopPlaces /\ pc[Calls] \in RefreshPlaces \cup {"off"}
        /\ \A p \in Commands : pc[p] \in CommandPlaces \cup RefreshPlaces
    BY <2>1, <2>2 DEF Types, Places
  <2>6. \A f \in Families :
          srv[f] \in [gen : Nat \ {0}, rot : Nat,
                      state : {"unissued", "issued", "active", "dead", "revoked"}]
    BY <2>1 DEF Types, Family
  <2>7. loaded.file \in Files /\ loaded.tok \in Tokens
    BY <2>1 DEF Types
  <2> QED
    BY <2>1, <2>3, <2>4, <2>5, <2>6, <2>7 DEF Types, Locks, TypeOK
<1> QED
  BY <1>1, ProfileInvariant, PTL

\* Whoever dies, and whatever the handshake with the loop loses or delays: while a
\* command that took its backup changes the profile, nothing executes and no lease
\* is held.
THEOREM MutationAlone == Spec => []MutationExclusive
<1>1. ProfileInv => MutationExclusive
  BY DEF ProfileInv, MutationInv, HandshakeInv, Handshake, Quiet, MutationExclusive
<1> QED
  BY <1>1, ProfileInvariant, PTL

\* The stored credential stays usable through every crash and lost answer of a
\* refresh, until a rollback of a mutation writes an older one back.
THEOREM CredentialRecoverable == Spec => []RecoverableUnlessUndone
<1>1. ProfileInv => RecoverableUnlessUndone
  BY DEF ProfileInv, CredentialInv
<1> QED
  BY <1>1, ProfileInvariant, PTL

\* The late answer of a refresh, compared by its generation alone, never writes a
\* token of one family into the record of another.
THEOREM FamiliesApart == Spec => []FamilyUnmixed
<1>1. ProfileInv => FamilyUnmixed
  BY DEF ProfileInv, CredentialInv
<1> QED
  BY <1>1, ProfileInvariant, PTL

\* A deleted credential is brought back by a login or a rollback only, never by a
\* refresh that was under way.
THEOREM LogoutKept == Spec => LogoutSticks
<1>1. ProfileInv /\ [Next]_vars =>
        [db.cred = NoCred /\ db'.cred # NoCred =>
           \E p \in Commands : pc[p] \in {"l_store", "m_restore"}]_vars
  BY ProfileStep DEF DeletionKept, StaysDeleted
<1> QED
  BY <1>1, ProfileInvariant, PTL DEF Spec, LogoutSticks
=============================================================================
