------------------------------ MODULE TlsSession ------------------------------
(***************************************************************************)
(* The control channel of src/stubs/openvpn/ssl.c, the program whose state *)
(* machine the FSM extractor draws: two peers that negotiate data channel  *)
(* keys over a network that loses, repeats and reorders packets.  Each     *)
(* peer has three sessions of two keys each; tls_process() works on one    *)
(* key, tls_multi_process() on all sessions, tls_pre_decrypt() takes what  *)
(* arrives.                                                                *)
(*                                                                         *)
(* The reliability layer and the TLS library are external.  The former     *)
(* numbers packets, keeps those not acknowledged and delivers in order;    *)
(* the latter exchanges one hello each way, then carries texts, and fails  *)
(* on what belongs to another connection.                                  *)
(***************************************************************************)
EXTENDS Integers, SequencesExt, FiniteSetsExt

CONSTANTS
  Client, Server,   \* the two peers
  SingleSession,    \* --single-session
  MaxSid,           \* bound: sessions a peer may open
  MaxKeyId,         \* bound: keys of one session
  Capacity,         \* bound: packets on their way to one peer
  MaxEvents,        \* bound: faults and renewals, together
  MaxPayloads,      \* bound: payloads that the peers give, together
  MaxTotal          \* bound: all of these, together

ASSUME PeersAssumption == Client # Server
ASSUME BoundsAssumption ==
  /\ SingleSession \in BOOLEAN
  /\ MaxSid \in Nat \ {0} /\ MaxKeyId \in 0..7
  /\ Capacity \in Nat /\ MaxEvents \in Nat /\ MaxPayloads \in Nat /\ MaxTotal \in Nat

Peers == {Client, Server}
Other(p) == IF p = Client THEN Server ELSE Client

S_ERROR == -1
S_UNDEF == 0
S_INITIAL == 1
S_PRE_START == 2
S_START == 3
S_SENT_KEY == 4
S_GOT_KEY == 5
S_ACTIVE == 6
S_NORMAL_OP == 7

TM_ACTIVE == 1
TM_UNTRUSTED == 2
TM_LAME_DUCK == 3
Sessions == {TM_ACTIVE, TM_UNTRUSTED, TM_LAME_DUCK}

KS_PRIMARY == 1
KS_LAME_DUCK == 2

Sids == Peers \X (1..MaxSid)
NoSid == <<>>
NoKey == <<>>
NoPacket == <<>>
Null == <<>>            \* the body of a reset packet

SendBuffers == 4        \* TLS_RELIABLE_N_SEND_BUFFERS
KeyIdMask == 7          \* P_KEY_ID_MASK

VARIABLES
  multi,      \* each peer's tls_multi
  network,    \* the packets on their way to each peer, in order
  written,    \* how many payloads each peer has given to tls_send_payload()
  received,   \* the payloads each peer has taken with tls_rec_payload()
  events,     \* faults and renewals that may still happen
  disturbed   \* has anything but the network failed yet?

vars == <<multi, network, written, received, events, disturbed>>

-----------------------------------------------------------------------------
(* Keys and sessions.                                                      *)

NewTls == [phase |-> "start", peer |-> NoSid, in |-> <<>>, out |-> <<>>]

\* A key_state that key_state_init() has filled in, or one that is zero.
KeyState(state, id, opcode) ==
  [state |-> state, keyId |-> id, opcode |-> opcode, remote |-> NoSid, addr |-> FALSE,
   next |-> 0, unacked |-> {}, due |-> {}, recNext |-> 0, rec |-> {}, acks |-> {},
   tls |-> NewTls, read |-> <<>>, write |-> <<>>, pay |-> <<>>,
   auth |-> FALSE, src |-> NoSid, key |-> NoKey, negotiating |-> FALSE, young |-> FALSE]

Undef == KeyState(S_UNDEF, 0, "none")

HardReset(p) == IF p = Server THEN "hardResetServer" ELSE "hardResetClient"
IsHardReset(op) == op \in {"hardResetServer", "hardResetClient"}

NewSession(p, n) ==
  [sid |-> <<p, n>>, nextKey |-> 1, burst |-> FALSE,
   keys |-> <<KeyState(S_INITIAL, 0, HardReset(p)), Undef>>]

NoSession == [sid |-> NoSid, nextKey |-> 0, burst |-> FALSE, keys |-> <<Undef, Undef>>]

\* tls_multi_init_finalize(); n counts the session ids the peer has drawn.
NewMulti(p, n) ==
  [n |-> IF SingleSession THEN n + 1 ELSE n + 2, up |-> TRUE, opened |-> FALSE,
   sess |-> <<NewSession(p, n + 1),
              IF SingleSession THEN NoSession ELSE NewSession(p, n + 2),
              NoSession>>]

\* A peer that has no instance (any more), or whose process is gone.
Down(n) == [n |-> n, up |-> FALSE, opened |-> FALSE, sess |-> <<NoSession, NoSession, NoSession>>]

SoftReset(s) ==
  LET old == s.keys[KS_PRIMARY]
      new == KeyState(S_INITIAL, s.nextKey, "softReset")
  IN  [s EXCEPT !.nextKey = IF s.nextKey = KeyIdMask THEN 1 ELSE s.nextKey + 1,
                !.keys = <<[new EXCEPT !.remote = old.remote, !.addr = old.addr], old>>]

\* A session replaces another, or starts again; a new session id is drawn.
ResetSession(p, m, i) == [m EXCEPT !.n = @ + 1, !.sess[i] = NewSession(p, m.n + 1)]
MoveSession(p, m, dest, src) == ResetSession(p, [m EXCEPT !.sess[dest] = m.sess[src]], src)

\* Mutant: a key decrypts no sooner than it encrypts.
DecryptWhenActive(p, k) == k.state >= S_ACTIVE

\* A key can decrypt a little before it can encrypt.
DecryptKeyEnabled(p, k) == k.state >= (IF p = Server THEN S_SENT_KEY ELSE S_GOT_KEY)

KeyScan(m) == <<m.sess[TM_ACTIVE].keys[KS_PRIMARY], m.sess[TM_ACTIVE].keys[KS_LAME_DUCK],
                m.sess[TM_LAME_DUCK].keys[KS_LAME_DUCK]>>

-----------------------------------------------------------------------------
(* The reliability layer and the TLS library (external).                   *)

Packets(k) == {u.pid : u \in k.unacked}
FullSync(k) == k.unacked = {} /\ k.acks = {}
CanOutput(k) == k.unacked = {} \/ k.next - Min(Packets(k)) < SendBuffers

MarkOutgoing(k, op, body) ==
  [k EXCEPT !.unacked = @ \cup {[pid |-> k.next, op |-> op, body |-> body]},
            !.due = @ \cup {k.next}, !.next = @ + 1]

InOrder(k) == {r \in k.rec : r.pid = k.recNext}

Hello(id) == [kind |-> "hello", from |-> id]
Cipher(conn, text) == [kind |-> "record", conn |-> conn, text |-> text]

\* Does the TLS object of key `me` accept this ciphertext, and what becomes of it?
Accepts(p, k, me, body) ==
  \/ body.kind = "hello" /\ k.tls.phase = (IF p = Server THEN "start" ELSE "greeted")
  \/ body.kind = "record" /\ k.tls.phase = "done" /\ body.conn = {me, k.tls.peer}
Accept(p, tls, body) ==
  IF body.kind = "record" THEN [tls EXCEPT !.in = Append(@, body.text)]
  ELSE [tls EXCEPT !.phase = IF p = Server THEN "greeted" ELSE "done", !.peer = body.from]

HasCiphertext(p, tls) ==
  \/ tls.phase = (IF p = Server THEN "greeted" ELSE "start")
  \/ tls.phase = "done" /\ tls.out # <<>>
Ciphertext(tls, me) ==
  IF tls.phase = "done" THEN Cipher({me, tls.peer}, Head(tls.out)) ELSE Hello(me)
AfterCiphertext(p, tls) ==
  IF tls.phase = "done" THEN [tls EXCEPT !.out = Tail(@)]
  ELSE [tls EXCEPT !.phase = IF p = Server THEN "done" ELSE "greeted"]

-----------------------------------------------------------------------------
(* tls_process(): x is what it works on: the primary key k of the session  *)
(* with id sid of peer p, the packet to send, if the loop has to go round  *)
(* again, has left it, or hit an error.                                    *)

Me(x) == <<x.sid, x.k.keyId>>
Goto(x, state) == [x EXCEPT !.k.state = state, !.change = TRUE]
Fail(x) == [x EXCEPT !.k.state = S_ERROR, !.error = TRUE]
Busy(x) == ~x.stop /\ ~x.error

\* write_control_auth(): acknowledgements ride along with any packet.
ControlPacket(x, op, pid, body) ==
  [op |-> op, kid |-> x.k.keyId, sid |-> x.sid, pid |-> pid, body |-> body,
   acks |-> x.k.acks, ackSid |-> IF x.k.acks = {} THEN NoSid ELSE x.k.remote]

InitialHandshake(x) ==
  IF x.k.state = S_INITIAL /\ CanOutput(x.k)
  THEN [Goto(x, S_PRE_START) EXCEPT
          !.k = [MarkOutgoing(x.k, x.k.opcode, Null) EXCEPT
                   !.state = S_PRE_START, !.negotiating = TRUE, !.young = TRUE]]
  ELSE x

\* Mutant: a key that is still being exchanged passes for a negotiated one.
TimeOutTooKind(x) ==
  IF x.k.negotiating /\ ~x.env.late THEN x
  ELSE IF x.k.state < S_SENT_KEY THEN Fail(x)
  ELSE [x EXCEPT !.k.state = S_NORMAL_OP, !.k.negotiating = FALSE, !.k.young = FALSE]

\* must_negotiate is 0 once the key is in normal operation: any time is later.
TimeOut(x) ==
  IF x.k.negotiating /\ ~x.env.late THEN x
  ELSE IF x.k.state < S_ACTIVE THEN Fail(x)
  ELSE [x EXCEPT !.k.state = S_NORMAL_OP, !.k.negotiating = FALSE, !.k.young = FALSE]

Start(x) ==
  IF Busy(x) /\ x.k.state = S_PRE_START /\ FullSync(x.k) THEN Goto(x, S_START) ELSE x

Texts(pay) == [i \in DOMAIN pay |-> <<"pay", pay[i]>>]

Activate(x) ==
  IF /\ Busy(x) /\ FullSync(x.k)
     /\ x.k.state = IF x.p = Server THEN S_SENT_KEY ELSE S_GOT_KEY
  THEN [Goto(x, S_ACTIVE) EXCEPT !.k.tls.out = @ \o Texts(x.k.pay), !.k.pay = <<>>]
  ELSE x

Transmit(x) ==
  IF Busy(x) /\ x.link = NoPacket /\ x.k.due # {}
  THEN LET u == CHOOSE v \in x.k.unacked : v.pid = Min(x.k.due)
       IN  [x EXCEPT !.link = ControlPacket(x, u.op, u.pid, u.body),
                     !.k.acks = {}, !.k.due = @ \ {u.pid}, !.stop = TRUE]
  ELSE x

ReadCiphertext(x) ==
  IF ~Busy(x) \/ InOrder(x.k) = {} THEN x
  ELSE LET r == CHOOSE r \in InOrder(x.k) : TRUE
           k == [x.k EXCEPT !.rec = @ \ {r}, !.recNext = @ + 1]
           fed == [k EXCEPT !.tls = Accept(x.p, @, r.body)]
       IN  IF r.body = Null THEN [x EXCEPT !.k = k, !.change = TRUE]
           ELSE IF ~Accepts(x.p, x.k, Me(x), r.body) \/ x.env.tlsFails THEN Fail(x)
           ELSE [x EXCEPT !.k = fed, !.change = TRUE]

ReadPlaintext(x) ==
  IF Busy(x) /\ x.k.read = <<>> /\ x.k.tls.in # <<>>
  THEN [x EXCEPT !.k.read = <<Head(x.k.tls.in)>>, !.k.tls.in = Tail(@), !.change = TRUE]
  ELSE x

\* Keys are made of both ends' key sources and session ids.
DataKey(p, me, src) == IF p = Client THEN <<me, src>> ELSE <<src, me>>

\* The message names its sender; the server's keys exist from here on, if the
\* client was authenticated.
KeyMethod2Write(x) ==
  [x EXCEPT !.k.write = <<<<"key", Me(x)>>>>,
            !.k.key = IF x.p = Server /\ x.k.auth THEN DataKey(x.p, Me(x), x.k.src) ELSE @]

\* The client's keys exist from here on; a veto (of the user's name and password,
\* of a script, of a plugin) leaves a session that is not authenticated.
KeyMethod2Read(x) ==
  LET src == x.k.read[1][2]
  IN  IF x.k.read[1][1] # "key" \/ x.env.keyFails THEN Fail(x)
      ELSE [x EXCEPT !.k.read = <<>>, !.k.auth = ~x.env.veto, !.k.src = src,
                     !.k.key = IF x.p = Client THEN DataKey(x.p, Me(x), src) ELSE @]

SendKey(x) ==
  IF /\ Busy(x) /\ x.k.write = <<>>
     /\ x.k.state = IF x.p = Server THEN S_GOT_KEY ELSE S_START
  THEN Goto(KeyMethod2Write(x), S_SENT_KEY)
  ELSE x

ReceiveKey(x) ==
  IF /\ Busy(x) /\ x.k.read # <<>>
     /\ x.k.state = IF x.p = Server THEN S_START ELSE S_SENT_KEY
  THEN LET y == KeyMethod2Read(x) IN IF y.error THEN y ELSE Goto(y, S_GOT_KEY)
  ELSE x

WritePlaintext(x) ==
  IF Busy(x) /\ x.k.write # <<>> /\ x.k.tls.phase = "done"
  THEN [x EXCEPT !.k.tls.out = Append(@, x.k.write[1]), !.k.write = <<>>, !.change = TRUE]
  ELSE x

WriteCiphertext(x) ==
  IF Busy(x) /\ x.k.state >= S_START /\ CanOutput(x.k) /\ HasCiphertext(x.p, x.k.tls)
  THEN LET marked == MarkOutgoing(x.k, "control", Ciphertext(x.k.tls, Me(x)))
           k == [marked EXCEPT !.tls = AfterCiphertext(x.p, @)]
       IN  [x EXCEPT !.k = k, !.change = TRUE]
  ELSE x

Round(x) ==
  WriteCiphertext(WritePlaintext(ReceiveKey(SendKey(ReadPlaintext(ReadCiphertext(
    Transmit(Activate(Start(TimeOut(InitialHandshake([x EXCEPT !.change = FALSE])))))))))))

\* The loop goes round as long as a round changes something; the bound on the rounds is one
\* that no call reaches.
MaxRounds == 5
RoundAgain(x) == IF x.change /\ Busy(x) THEN Round(x) ELSE x
Rounds(x) ==
  LET after[n \in 0..MaxRounds] == IF n = 0 THEN Round(x) ELSE RoundAgain(after[n - 1])
  IN  after[MaxRounds]

\* Mutant: acknowledgements only ride along with other packets.
NoAcknowledgement(x) == x

Acknowledge(x) ==
  IF ~x.error /\ x.link = NoPacket /\ x.k.acks # {}
  THEN [x EXCEPT !.link = ControlPacket(x, "ack", 0, Null), !.k.acks = {}]
  ELSE x

-----------------------------------------------------------------------------
(* tls_multi_process(): every session in turn, one packet at most.  y is   *)
(* the peer's tls_multi and the packet so far; env what goes wrong, if     *)
(* anything, in which session, and which lame ducks' time is over.         *)

Working(p, y, i, s, env) ==
  LET here == env.at = i
  IN  [p |-> p, sid |-> s.sid, k |-> s.keys[KS_PRIMARY], link |-> y.link,
       change |-> FALSE, stop |-> FALSE, error |-> FALSE,
       env |-> [late |-> here /\ env.what = "late", tlsFails |-> here /\ env.what = "tls",
                keyFails |-> here /\ env.what = "key", veto |-> here /\ env.what = "veto"]]

LameDuckMustDie(s, expired) ==
  LET lame == s.keys[KS_LAME_DUCK]
  IN  (lame.state >= S_INITIAL /\ expired) \/ lame.state = S_ERROR

\* A key that lost its place while young grows old all the same.
Aged(s, env, i) ==
  IF env.at = i /\ env.what \in {"late", "age"} THEN [s EXCEPT !.keys[KS_LAME_DUCK].young = FALSE] ELSE s

Renewed(s, env, i) ==
  IF env.at = i /\ env.what = "renew" /\ s.keys[KS_PRIMARY].state >= S_ACTIVE
  THEN SoftReset(s) ELSE s

Buried(s, expired) ==
  IF LameDuckMustDie(s, expired) THEN [s EXCEPT !.keys[KS_LAME_DUCK] = Undef] ELSE s

\* What becomes of a session whose primary key has failed.
AfterError(p, m, i) ==
  IF i = TM_ACTIVE /\ m.sess[i].keys[KS_LAME_DUCK].state >= S_ACTIVE /\ ~SingleSession
  THEN MoveSession(p, m, TM_LAME_DUCK, TM_ACTIVE)
  ELSE ResetSession(p, m, i)

\* The sessions and the packet once `ready`, session i, has worked as x.
Worked(p, y, i, ready, x) ==
  LET m == [y.m EXCEPT !.sess[i] = [ready EXCEPT !.keys[KS_PRIMARY] = x.k]]
  IN  [m |-> IF x.error THEN AfterError(p, m, i) ELSE m, link |-> x.link]

TlsProcess(p, y, i, ready, env) ==
  Worked(p, y, i, ready, Acknowledge(Rounds(Working(p, y, i, ready, env))))

ProcessSession(p, y, i, env) ==
  LET s == y.m.sess[i]
      found == i = TM_ACTIVE /\ s.keys[KS_PRIMARY].state = S_INITIAL
      k == [s.keys[KS_PRIMARY] EXCEPT !.addr = @ \/ found]
      kept == Aged([s EXCEPT !.keys[KS_PRIMARY] = k], env, i)
  IN  IF k.state < S_INITIAL \/ ~k.addr THEN y
      ELSE TlsProcess(p, y, i, Buried(Renewed(kept, env, i), i \in env.dead), env)

\* tls_authentication_status() (external): keys in use, and none accepted.
AuthenticationFailed(p, m) ==
  LET used == {i \in 1..3 : DecryptKeyEnabled(p, KeyScan(m)[i])}
  IN  used # {} /\ \A i \in used : ~KeyScan(m)[i].auth

Promoted(p, m) ==
  IF DecryptKeyEnabled(p, m.sess[TM_UNTRUSTED].keys[KS_PRIMARY])
  THEN MoveSession(p, m, TM_ACTIVE, TM_UNTRUSTED) ELSE m

Outcome(p, done, env) ==
  LET buried == IF LameDuckMustDie(done.m.sess[TM_LAME_DUCK], TM_LAME_DUCK \in env.dead)
                THEN [done.m EXCEPT !.sess[TM_LAME_DUCK] = NoSession] ELSE done.m
  IN  [done EXCEPT !.m = IF AuthenticationFailed(p, done.m) THEN Down(@.n)
                         ELSE Promoted(p, buried)]

MultiProcess(p, m, env) ==
  LET active == ProcessSession(p, [m |-> m, link |-> NoPacket], TM_ACTIVE, env)
      untrusted == ProcessSession(p, active, TM_UNTRUSTED, env)
  IN  Outcome(p, ProcessSession(p, untrusted, TM_LAME_DUCK, env), env)

-----------------------------------------------------------------------------
(* tls_pre_decrypt(): the peer's tls_multi after a control packet.         *)

\* The session that a packet belongs to by its session id, or 0.
SessionOf(m, packet) ==
  LET known == {i \in Sessions : m.sess[i].keys[KS_PRIMARY].remote = packet.sid}
  IN  IF known = {} THEN 0 ELSE Min(known)

\* The session that a packet opens, or 0: the active one if it has no peer yet.
SessionOpened(m, packet) ==
  IF SessionOf(m, packet) # 0 \/ ~IsHardReset(packet.op) THEN 0
  ELSE IF m.sess[TM_ACTIVE].keys[KS_PRIMARY].remote = NoSid
       THEN IF SingleSession /\ m.opened THEN 0 ELSE TM_ACTIVE
       ELSE IF SingleSession THEN 0 ELSE TM_UNTRUSTED

\* Acknowledgements delete what was sent; a packet not seen before is kept.
Delivered(s, packet) ==
  LET k == s.keys[KS_PRIMARY]
      purged == [k EXCEPT !.unacked = {u \in @ : u.pid \notin packet.acks},
                          !.due = @ \ packet.acks]
      new == packet.pid >= k.recNext /\ packet.pid \notin {r.pid : r \in k.rec}
      kept == [purged EXCEPT
                 !.rec = IF new THEN @ \cup {[pid |-> packet.pid, body |-> packet.body]} ELSE @,
                 !.acks = @ \cup {packet.pid}]
  IN  IF packet.kid # k.keyId \/ (packet.acks # {} /\ packet.ackSid # s.sid) THEN s
      ELSE [s EXCEPT !.keys[KS_PRIMARY] = IF packet.op = "ack" THEN purged ELSE kept]

Burst(s) ==
  IF s.burst THEN s
  ELSE [s EXCEPT !.burst = TRUE, !.keys[KS_PRIMARY].due = Packets(s.keys[KS_PRIMARY])]

Opened(m, i, packet) ==
  LET s == [m.sess[i] EXCEPT !.keys[KS_PRIMARY].remote = packet.sid, !.keys[KS_PRIMARY].addr = TRUE]
  IN  [m EXCEPT !.opened = TRUE,
                !.sess[i] = Delivered(IF i = TM_ACTIVE THEN Burst(s) ELSE s, packet)]

Continued(p, m, i, packet) ==
  LET s == m.sess[i]
      renew == packet.op = "softReset" /\ DecryptKeyEnabled(p, s.keys[KS_PRIMARY])
      answer == packet.op = "softReset" /\ ~renew
  IN  [m EXCEPT !.sess[i] = Delivered(IF renew THEN SoftReset(s) ELSE IF answer THEN Burst(s)
                                      ELSE s, packet)]

PreDecrypt(p, m, packet) ==
  LET i == SessionOf(m, packet)
      opened == SessionOpened(m, packet)
  IN  IF opened # 0 THEN Opened(m, opened, packet)
      ELSE IF i \in {TM_ACTIVE, TM_UNTRUSTED} /\ m.sess[i].keys[KS_PRIMARY].addr
           THEN Continued(p, m, i, packet)
      ELSE m

\* The server makes an instance for a client's first packet only.
PreDecryptLite(packet) == packet.op = "hardResetClient" /\ packet.kid = 0

\* The key for a data packet to send: the first one that is no longer young, so
\* that the other end has had time to authenticate it too, or else the first.
EncryptKey(m) ==
  LET usable == {i \in DOMAIN KeyScan(m) : LET k == KeyScan(m)[i] IN
                   k.state >= S_ACTIVE /\ k.auth /\ k.key # NoKey}
      old == {i \in usable : ~KeyScan(m)[i].young}
  IN  IF usable = {} THEN Undef ELSE KeyScan(m)[Min(IF old = {} THEN usable ELSE old)]

\* The key for a data packet that names key id.
DecryptKey(p, m, id) ==
  LET usable == {i \in DOMAIN KeyScan(m) : LET k == KeyScan(m)[i] IN
                   DecryptKeyEnabled(p, k) /\ k.keyId = id /\ k.auth /\ k.addr}
  IN  IF usable = {} THEN NoKey ELSE KeyScan(m)[Min(usable)].key

-----------------------------------------------------------------------------
(* What the peers do.                                                      *)

Fine == [at |-> TM_ACTIVE, what |-> "fine", dead |-> {}]
Failures == {Fine} \cup [at : {TM_ACTIVE, TM_UNTRUSTED}, what : {"tls", "key", "veto"}, dead : {{}}]
Timers == {Fine} \cup [at : {TM_ACTIVE, TM_UNTRUSTED}, what : {"late", "renew", "age"}, dead : {{}}]
                 \cup [at : {TM_ACTIVE}, what : {"fine"}, dead : {{TM_ACTIVE}, {TM_LAME_DUCK}}]

InBounds(m) == m.n <= MaxSid /\ \A i \in Sessions : m.sess[i].nextKey <= MaxKeyId + 1

\* The event loop (external) calls tls_multi_process() again, and writes what it
\* leaves, until there is nothing to do: only then does it wait and read.  The bound on the
\* calls is one that is not reached.
MaxCalls == 4
Packet(link) == IF link = NoPacket THEN <<>> ELSE <<link>>
FirstCall(m, y) == [m |-> y.m, sent |-> Packet(y.link), again |-> y.m # m]

NextCall(x, y) == [m |-> y.m, sent |-> x.sent \o Packet(y.link), again |-> y.m # x.m]

CallAgain(p, x) == IF x.again /\ x.m.up THEN NextCall(x, MultiProcess(p, x.m, Fine)) ELSE x

Settled(p, m, env) ==
  LET after[n \in 0..MaxCalls] == IF n = 0 THEN FirstCall(m, MultiProcess(p, m, env)) ELSE CallAgain(p, after[n - 1])
  IN  after[MaxCalls]

\* Peer p has become y.m; rest is what the network still carries to p.
Continue(p, y, rest) ==
  LET queue == network[Other(p)] \o y.sent
  IN  /\ InBounds(y.m) /\ Len(queue) <= Capacity
      /\ multi' = [multi EXCEPT ![p] = y.m]
      /\ network' = [network EXCEPT ![p] = rest, ![Other(p)] = queue]

\* Peer p goes on from m.  That its last call still finds work is out of bounds.
Turn(p, m, env, rest) ==
  \E y \in {Settled(p, m, env)} : (y.again => ~y.m.up) /\ Continue(p, y, rest)

\* What can go wrong (or expire) in this state at all.
Possible(p, env) ==
  LET k == multi[p].sess[env.at].keys[KS_PRIMARY]
  IN  \* a lame duck's time is an hour, a negotiation's a minute
      /\ \A i \in env.dead : multi[p].sess[i].keys[KS_LAME_DUCK].state # S_UNDEF
      /\ env.dead # {} => \A q \in Peers : \A i \in {TM_ACTIVE, TM_UNTRUSTED} :
           ~multi[q].sess[i].keys[KS_PRIMARY].young /\ ~multi[q].sess[i].keys[KS_PRIMARY].negotiating
      /\ CASE env.what = "late" -> k.negotiating
           [] env.what = "age" -> multi[p].sess[env.at].keys[KS_LAME_DUCK].young
           [] env.what = "renew" -> k.state >= S_ACTIVE
           [] env.what \in {"tls", "key"} -> k.state \in S_START..S_SENT_KEY
           [] env.what = "veto" -> p = Server /\ k.state = S_START
           [] OTHER -> TRUE

\* The bounds on what happens: one fault or renewal more.
InBudget == MaxEvents - events + written[Client] + written[Server] < MaxTotal
Happens == events > 0 /\ InBudget /\ events' = events - 1

\* Time that passes for an established key is no event.
Costs(p, env) ==
  /\ env.what \notin {"fine", "age"}
  /\ ~(env.what = "late" /\ multi[p].sess[env.at].keys[KS_PRIMARY].state >= S_ACTIVE)

Counted(p, env) ==
  IF Costs(p, env)
  THEN Happens /\ disturbed' = (disturbed \/ env.what # "renew")
  ELSE UNCHANGED <<events, disturbed>>

Wake(p, env) ==
  /\ multi[p].up /\ Possible(p, env)
  /\ Turn(p, multi[p], env, network[p])
  /\ multi' # multi
  /\ Counted(p, env)
  /\ UNCHANGED <<written, received>>

Receive(p, env) ==
  LET packet == Head(network[p])
      m == IF multi[p].up THEN PreDecrypt(p, multi[p], packet)
           ELSE IF p = Server /\ PreDecryptLite(packet)
                THEN PreDecrypt(p, NewMulti(p, multi[p].n), packet)
           ELSE multi[p]
  IN  /\ network[p] # <<>>
      /\ Possible(p, env)
      /\ IF m.up THEN Turn(p, m, env, Tail(network[p]))
         ELSE /\ network' = [network EXCEPT ![p] = Tail(@)]
              /\ UNCHANGED multi
      /\ env # Fine => multi'[p] # Settled(p, m, Fine).m
      /\ Counted(p, env)
      /\ UNCHANGED <<written, received>>

Due(s) ==
  [s EXCEPT !.keys[KS_PRIMARY].due = Packets(s.keys[KS_PRIMARY])]

\* The retransmission time of everything not yet acknowledged has come; it is
\* longer than the network takes.
Elapse(p) ==
  /\ multi[p].up /\ \A q \in Peers : network[q] = <<>>
  /\ Turn(p, [multi[p] EXCEPT !.sess[TM_ACTIVE] = Due(@), !.sess[TM_UNTRUSTED] = Due(@)],
          Fine, network[p])
  /\ network' # network
  /\ UNCHANGED <<written, received, events, disturbed>>

Lose(p) ==
  /\ network[p] # <<>> /\ Happens
  /\ network' = [network EXCEPT ![p] = Tail(@)]
  /\ UNCHANGED <<multi, written, received, disturbed>>

\* The next packet comes last.
Delay(p) ==
  /\ Len(network[p]) > 1 /\ Happens
  /\ network' = [network EXCEPT ![p] = Tail(@) \o <<Head(@)>>]
  /\ UNCHANGED <<multi, written, received, disturbed>>

\* A packet arrives, and will arrive again: nothing protects from it without
\* --tls-auth or --tls-crypt.
Repeat(p) ==
  /\ network[p] # <<>> /\ Happens
  /\ multi[p].up
  /\ Turn(p, PreDecrypt(p, multi[p], Head(network[p])), Fine, Append(Tail(network[p]), Head(network[p])))
  /\ UNCHANGED <<written, received, disturbed>>

\* A client starts again, a server forgets its clients.
Restart(p) ==
  /\ Happens
  /\ IF p = Client THEN Turn(p, NewMulti(p, multi[p].n), Fine, network[p])
     ELSE /\ multi[p].up
          /\ multi' = [multi EXCEPT ![p] = Down(@.n)]
          /\ UNCHANGED network
  /\ disturbed' = TRUE
  /\ UNCHANGED <<written, received>>

SendPayload(p) ==
  LET n == written[p] + 1
      k == multi[p].sess[TM_ACTIVE].keys[KS_PRIMARY]
      given == IF k.state >= S_ACTIVE THEN [k EXCEPT !.tls.out = Append(@, <<"pay", n>>)]
               ELSE [k EXCEPT !.pay = Append(@, n)]
  IN  /\ multi[p].up /\ InBudget /\ written[Client] + written[Server] < MaxPayloads
      /\ Turn(p, [multi[p] EXCEPT !.sess[TM_ACTIVE].keys[KS_PRIMARY] = given], Fine, network[p])
      /\ written' = [written EXCEPT ![p] = n]
      /\ UNCHANGED <<received, events, disturbed>>

\* Mutant: the buffer is not emptied.
ReceivePayloadAgain(p) ==
  LET k == multi[p].sess[TM_ACTIVE].keys[KS_PRIMARY]
  IN  /\ k.state >= S_ACTIVE /\ k.read # <<>> /\ Len(received[p]) < 2
      /\ received' = [received EXCEPT ![p] = Append(@, k.read[1])]
      /\ Turn(p, multi[p], Fine, network[p])
      /\ UNCHANGED <<written, events, disturbed>>

ReceivePayload(p) ==
  LET k == multi[p].sess[TM_ACTIVE].keys[KS_PRIMARY]
  IN  /\ k.state >= S_ACTIVE /\ k.read # <<>>
      /\ received' = [received EXCEPT ![p] = Append(@, k.read[1])]
      /\ Turn(p, [multi[p] EXCEPT !.sess[TM_ACTIVE].keys[KS_PRIMARY].read = <<>>], Fine, network[p])
      /\ UNCHANGED <<written, events, disturbed>>

Init ==
  /\ multi = [p \in Peers |-> IF p = Client THEN NewMulti(p, 0) ELSE Down(0)]
  /\ network = [p \in Peers |-> <<>>]
  /\ written = [p \in Peers |-> 0]
  /\ received = [p \in Peers |-> <<>>]
  /\ events = MaxEvents
  /\ disturbed = FALSE

Next ==
  \E p \in Peers :
    \/ \E env \in Timers : Wake(p, env)
    \/ \E env \in Failures : Receive(p, env)
    \/ Lose(p)
    \/ Delay(p)
    \/ Repeat(p)
    \/ Elapse(p)
    \/ Restart(p)
    \/ SendPayload(p)
    \/ ReceivePayload(p)

\* The event loop reads what arrives and wakes up when a time has come.  (The
\* conditions are when each action is enabled; ENABLED itself is slow to evaluate.)
Outstanding(p) == \E i \in {TM_ACTIVE, TM_UNTRUSTED} : multi[p].sess[i].keys[KS_PRIMARY].unacked # {}
Quiet == \A q \in Peers : network[q] = <<>>

Fairness ==
  \A p \in Peers :
    /\ []<>(network[p] = <<>>) \/ []<><<Receive(p, Fine)>>_vars
    /\ <>[]~(Quiet /\ Outstanding(p)) \/ []<><<Elapse(p)>>_vars
    /\ []<>(multi[p].sess[TM_ACTIVE].keys[KS_PRIMARY].state # S_INITIAL) \/ []<><<Wake(p, Fine)>>_vars

Spec == Init /\ [][Next]_vars /\ Fairness

-----------------------------------------------------------------------------
(* What the control channel is for.                                        *)

\* A key that sends data is one end of a connection.  If the other end's key is still that
\* session's primary one, it is connected with this key in turn, and decrypts already,
\* whatever has failed, expired or started again meanwhile.
EndsAgree ==
  \A p \in Peers : \A i, j \in {TM_ACTIVE, TM_UNTRUSTED} :
    LET here == multi[p].sess[i]
        there == multi[Other(p)].sess[j]
        k == here.keys[KS_PRIMARY]
        peer == there.keys[KS_PRIMARY]
    IN  k.state >= S_ACTIVE /\ peer.state >= S_INITIAL /\ k.tls.peer = <<there.sid, peer.keyId>> =>
          peer.tls.peer = <<here.sid, k.keyId>> /\ DecryptKeyEnabled(Other(p), peer)

\* Whatever the network does, a data packet is read with the key it was written with.
WhatIsSentCanBeRead ==
  \A p \in Peers :
    LET k == EncryptKey(multi[p]) IN
      ~disturbed /\ k # Undef => DecryptKey(Other(p), multi[Other(p)], k.keyId) = k.key

\* Payloads are taken in the order they were given, none twice.
PayloadsInOrder ==
  \A p \in Peers : \A i, j \in DOMAIN received[p] :
    /\ received[p][i][1] = "pay" /\ received[p][i][2] <= written[Other(p)]
    /\ i < j => received[p][i][2] < received[p][j][2]

Connected == \A p \in Peers : EncryptKey(multi[p]) # Undef

\* If only the network fails, and not for ever, the two get their keys.
Connects == <>(disturbed \/ Connected)
=============================================================================
