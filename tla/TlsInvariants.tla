------------------------------ MODULE TlsInvariants ---------------------------
(***************************************************************************)
(* The invariants by which TlsSessionProofs proves what TlsSession does:   *)
(* InOrderInv, why the payloads are taken in the order they were given and *)
(* why the two ends of a connection agree; and the relations between       *)
(* states that its proof goes by.                                          *)
(*                                                                         *)
(* InOrderInv is about a world: what of a state, or of a state in the      *)
(* middle of a turn, the order depends on.  In a world, key[p][i] is the   *)
(* primary key of session i of peer p, sid[p][i] and nk[p][i] are that     *)
(* session's id and its next key id, n[p] counts the session ids that peer *)
(* p has drawn, net[p] are the packets on their way to p, and written and  *)
(* received are those of TlsSession.  A lame duck only waits for its end.  *)
(***************************************************************************)
EXTENDS TlsSession

-----------------------------------------------------------------------------
(* What is so of a key. *)

Slots == {TM_ACTIVE, TM_UNTRUSTED}

KeyFields == {"state", "keyId", "opcode", "remote", "addr", "next", "unacked", "due", "recNext", "rec",
              "acks", "tls", "read", "write", "pay", "negotiating", "young", "auth", "src", "key"}

TlsFields == {"phase", "peer", "in", "out"}
Names(q) == ({q} \X Nat) \X (0..KeyIdMask)
Text == ({"pay"} \X Nat) \cup ({"key"} \X (Names(Client) \cup Names(Server)))
Live(k) == k.state >= S_INITIAL
HelloSent(p, k) == k.tls.phase = "done" \/ (p = Client /\ k.tls.phase = "greeted")
HelloRead(p, k) == k.tls.phase = "done" \/ (p = Server /\ k.tls.phase = "greeted")
KeySent(p, k) == k.state >= S_SENT_KEY /\ (p = Server => k.state # S_GOT_KEY)

\* The packets a key has seen, the texts it holds, and those it still has to send.
Got(k) == 0..(k.recNext - 1) \cup {r.pid : r \in k.rec}

Hand(k) == k.read \o k.tls.in
Backlog(k) == IF k.state >= S_ACTIVE THEN k.tls.out ELSE Texts(k.pay)
IsPay(t, v) == t[1] = "pay" /\ t[2] \in 1..v
Pays(s, v) == \A i \in DOMAIN s : IsPay(s[i], v)
KeyText(s) == Len(s) = 1 /\ s[1][1] = "key"
KeyThenPays(s, v) == s # <<>> /\ s[1][1] = "key" /\ \A i \in 2..Len(s) : IsPay(s[i], v)
Numbers(s) == {s[i][2] : i \in {j \in DOMAIN s : s[j][1] = "pay"}}
Rising(s) == \A i, j \in DOMAIN s : s[i][1] = "pay" /\ s[j][1] = "pay" /\ i < j => s[i][2] < s[j][2]

Shaped(k) ==
  /\ KeyFields \subseteq DOMAIN k /\ TlsFields \subseteq DOMAIN k.tls
  /\ k.read \in Seq(Text) /\ k.write \in Seq(Text) /\ k.pay \in Seq(Nat)
  /\ k.tls.in \in Seq(Text) /\ k.tls.out \in Seq(Text)
  /\ k.next \in Nat /\ k.recNext \in Nat /\ k.keyId \in 0..KeyIdMask
  /\ k.state \in S_INITIAL..S_NORMAL_OP /\ k.tls.phase \in {"start", "greeted", "done"}

\* What a key sends: its hello is packet 1, its key method message packet 2, and payloads follow.
Sends(p, k, nm, w) ==
  /\ \A u \in k.unacked : /\ u.pid \in 0..(k.next - 1)
                          /\ u.pid = 1 => u.body.from = nm
                          /\ u.pid >= 2 => nm \in u.body.conn
  /\ k.due \subseteq Packets(k)
  /\ k.state = S_INITIAL => k.next = 0
  /\ k.state > S_INITIAL => k.next >= 1
  /\ IF HelloSent(p, k) THEN k.state >= S_START /\ k.next >= 2 ELSE k.next <= 1
  /\ k.next = 2 /\ KeySent(p, k) =>
       \/ (KeyText(k.write) /\ k.tls.out = <<>>)
       \/ (KeyText(k.tls.out) /\ k.write = <<>> /\ k.tls.phase = "done")
  /\ k.next <= 1 /\ KeySent(p, k) => KeyText(k.write) /\ k.tls.out = <<>>
  /\ ~KeySent(p, k) => k.write = <<>> /\ k.tls.out = <<>> /\ k.next <= 2
  /\ k.next >= 3 => k.write = <<>> /\ Pays(k.tls.out, w) /\ k.tls.phase = "done"
  /\ k.state < S_ACTIVE /\ k.next >= 3 => k.next = 3 /\ k.tls.out = <<>>
  /\ k.state >= S_ACTIVE => k.next >= 3 /\ k.pay = <<>> /\ \A u \in k.unacked : u.pid >= 3
  /\ \A i \in DOMAIN k.pay : k.pay[i] \in 1..w

\* What it receives, in the same order.
Receives(p, k, v) ==
  /\ k.state = S_INITIAL => k.recNext = 0
  /\ \A r \in k.rec : r.pid >= k.recNext /\ \A s \in k.rec : s.pid = r.pid => s = r
  /\ (k.recNext >= 2) <=> HelloRead(p, k)
  /\ (k.tls.peer # NoSid) <=> HelloRead(p, k)
  /\ k.recNext >= 3 => k.tls.phase = "done"
  /\ Len(k.read) <= 1
  /\ IF DecryptKeyEnabled(p, k) THEN k.recNext >= 3 /\ Pays(Hand(k), v)
     ELSE IF k.recNext >= 3 THEN KeyThenPays(Hand(k), v)
     ELSE Hand(k) = <<>>
  /\ k.acks \subseteq Got(k)
  /\ k.remote = NoSid \/ ~k.addr => k.recNext = 0 /\ k.rec = {}

KeyGood(p, k, nm, w, v) == Shaped(k) /\ Sends(p, k, nm, w) /\ Receives(p, k, v)

\* The key method message of a key has left it as soon as its hello has been answered.
Flushed(p, k) == k.tls.phase = "done" /\ KeySent(p, k) => k.next >= 3

Name(W, p, i) == <<W.sid[p][i], W.key[p][i].keyId>>
HasText(p, k) == DecryptKeyEnabled(p, k) \/ Hand(k) # <<>>

\* A name that a peer has given to a key, so that a new key gets another.
Known(W, q, nm) ==
  /\ nm \in Names(q) /\ nm[1][2] <= W.n[q]
  /\ \A i \in Slots : W.sid[q][i] = nm[1] => nm[2] < W.nk[q][i]

\* What is on its way to p, or waits there for its turn.
Mail(W, p) == W.net[p] \cup W.key[Other(p)][TM_ACTIVE].unacked \cup W.key[Other(p)][TM_UNTRUSTED].unacked
                       \cup W.key[p][TM_ACTIVE].rec \cup W.key[p][TM_UNTRUSTED].rec

Between(W, p, conn) == \E a, b \in conn : conn = {a, b} /\ Known(W, Other(p), a) /\ Known(W, p, b)

LetterGood(W, p, l) ==
  /\ l.pid \in Nat /\ (l.pid = 0 <=> l.body = Null)
  /\ l.pid = 1 => l.body.kind = "hello" /\ Known(W, Other(p), l.body.from)
  /\ l.pid >= 2 => l.body.kind = "record" /\ Between(W, p, l.body.conn) /\ l.body.text \in Text
  /\ l.pid = 2 => l.body.text[1] = "key"
  /\ l.pid >= 3 => IsPay(l.body.text, W.written[Other(p)])

PacketGood(W, p, m) ==
  /\ Known(W, Other(p), <<m.sid, m.kid>>)
  /\ m.pid >= 2 => <<m.sid, m.kid>> \in m.body.conn
  /\ \A i \in Slots : Live(W.key[Other(p)][i]) /\ <<m.sid, m.kid>> = Name(W, Other(p), i) => m.acks \subseteq Got(W.key[Other(p)][i])

\* The records of one connection are numbered in the order of their texts.
Numbered(l, m) ==
  l.pid >= 2 /\ m.pid >= 2 /\ l.body.conn = m.body.conn =>
    /\ l.pid = m.pid => l.body = m.body
    /\ l.pid >= 3 /\ l.pid < m.pid => l.body.text[2] < m.body.text[2]

MailGood(W, p) ==
  /\ \A l \in Mail(W, p) : LetterGood(W, p, l)
  /\ \A l, m \in Mail(W, p) : Numbered(l, m)
  /\ \A m \in W.net[p] : PacketGood(W, p, m)

Seen(W, p) == Numbers(W.received[p]) \cup Numbers(Hand(W.key[p][TM_ACTIVE]))

\* Nothing but this key has used its name to send, and only after its hello.
Mine(W, p, i) ==
  LET k == W.key[p][i] nm == Name(W, p, i) IN
  \A l \in Mail(W, Other(p)) : l.pid >= 2 /\ nm \in l.body.conn =>
     l.pid < k.next /\ k.tls.phase = "done" /\ l.body.conn = {nm, k.tls.peer}

Heard(W, p, i) ==
  LET k == W.key[p][i] nm == Name(W, p, i) IN
  /\ \A l \in Mail(W, Other(p)) : l.pid = 1 /\ l.body.from = nm => HelloSent(p, k)
  /\ \A l \in Mail(W, p) : l.pid >= 2 /\ nm \in l.body.conn => HelloSent(p, k)
  /\ \A j \in Slots : W.key[Other(p)][j].tls.peer = nm => HelloSent(p, k)

Paired(W, p, i) ==
  LET k == W.key[p][i] q == Other(p) IN
  \A j \in Slots : HasText(p, k) /\ Live(W.key[q][j]) /\ Name(W, q, j) = k.tls.peer =>
     W.key[q][j].tls.peer = Name(W, p, i) /\ W.key[q][j].next >= 3

ServerGood(W, i) ==
  LET k == W.key[Server][i] nm == Name(W, Server, i) IN
  /\ HasText(Server, k) => k.tls.peer = <<k.remote, k.keyId>>
  /\ \A r \in k.rec : r.pid >= 2 /\ nm \in r.body.conn => r.body.conn = {nm, <<k.remote, k.keyId>>}
  /\ \A j \in Slots : k.next >= 3 /\ 2 \notin Packets(k) /\ Live(W.key[Client][j])
                      /\ Name(W, Client, j) = k.tls.peer => 2 \in Got(W.key[Client][j])

UntrustedGood(W, p) ==
  LET k == W.key[p][TM_UNTRUSTED] nm == Name(W, p, TM_UNTRUSTED) IN
  /\ \A l \in Mail(W, p) : l.pid >= 3 => nm \notin l.body.conn
  /\ Numbers(Hand(k)) = {} /\ Backlog(k) = <<>>

ActiveGood(W, p) ==
  LET k == W.key[p][TM_ACTIVE] nm == Name(W, p, TM_ACTIVE) IN
  /\ \A l \in Mail(W, p) : l.pid >= 3 /\ nm \in l.body.conn =>
       /\ l.body.conn = {nm, k.tls.peer}
       /\ l.pid >= k.recNext => \A n \in Seen(W, p) : n < l.body.text[2]
  /\ Rising(Hand(k))
  /\ \A m \in Numbers(W.received[p]), n \in Numbers(Hand(k)) : m < n

BacklogGood(W, p) ==
  LET q == Other(p) b == Backlog(W.key[p][TM_ACTIVE]) IN
  /\ Rising(b)
  /\ \A n \in Numbers(b) :
       /\ \A m \in Seen(W, q) : m < n
       /\ \A l \in Mail(W, q) : l.pid >= 3 => l.body.text[2] < n

SlotGood(W, p, i) ==
  /\ KeyGood(p, W.key[p][i], Name(W, p, i), W.written[p], W.written[Other(p)])
  /\ W.sid[p][i] \in {p} \X (1..W.n[p]) /\ W.key[p][i].keyId < W.nk[p][i] /\ W.nk[p][i] \in 1..KeyIdMask
  /\ W.key[p][i].tls.peer # NoSid => Known(W, Other(p), W.key[p][i].tls.peer)
  /\ Mine(W, p, i) /\ Heard(W, p, i) /\ Paired(W, p, i)
  /\ p = Server => ServerGood(W, i)

PeerGood(W, p) ==
  /\ W.n[p] \in Nat /\ W.written[p] \in Nat /\ W.received[p] \in Seq(Text)
  /\ Pays(W.received[p], W.written[Other(p)]) /\ Rising(W.received[p])
  /\ \A i \in Slots : (W.key[p][i] = Undef /\ W.sid[p][i] = NoSid) \/ SlotGood(W, p, i)
  /\ Live(W.key[p][TM_ACTIVE]) => ActiveGood(W, p) /\ BacklogGood(W, p)
  /\ Live(W.key[p][TM_UNTRUSTED]) => UntrustedGood(W, p)
  /\ Live(W.key[p][TM_ACTIVE]) /\ Live(W.key[p][TM_UNTRUSTED]) => W.sid[p][TM_ACTIVE] # W.sid[p][TM_UNTRUSTED]
  /\ MailGood(W, p)

\* Between turns, an untrusted key has nothing left to do: in particular it does not hold a key
\* method message, which would have made it the active one.
Resting(W, p) ==
  LET k == W.key[p][TM_UNTRUSTED] IN
  Live(k) => k.recNext <= 2 /\ InOrder(k) = {} /\ ~DecryptKeyEnabled(p, k)

-----------------------------------------------------------------------------
(* How one world becomes another. *)

Good(W) == \A p \in Peers : PeerGood(W, p)
Carried(S, l) == \E m \in S : l.pid = m.pid /\ l.body = m.body

\* Names stay known, and numbers used.
Wider(W, W2) == \A p \in Peers : /\ \A nm : Known(W, p, nm) => Known(W2, p, nm)
                                 /\ W.written[p] <= W2.written[p]

SlotBounds(W, p, i) ==
  W.sid[p][i] \in {p} \X (1..W.n[p]) /\ W.key[p][i].keyId < W.nk[p][i] /\ W.nk[p][i] \in 1..KeyIdMask

Grows(p, k, k2) ==
  /\ k.next <= k2.next /\ k.recNext <= k2.recNext /\ Got(k) \subseteq Got(k2)
  /\ HelloSent(p, k) => HelloSent(p, k2)
  /\ k.tls.phase = "done" => k2.tls.phase = "done"
  /\ k.tls.peer # NoSid => k2.tls.peer = k.tls.peer

\* What is special about a server's key stays as it was.
ServesOn(k, k2) ==
  /\ k2.remote = k.remote /\ k2.rec \subseteq k.rec
  /\ HasText(Server, k2) => HasText(Server, k)
  /\ k2.next >= 3 /\ 2 \notin Packets(k2) => k.next >= 3 /\ 2 \notin Packets(k)

\* The key in slot j is the one that was in slot i, or a new one.
Heir(W, W2, p, i, j) ==
  LET k == W.key[p][i] k2 == W2.key[p][j] IN
  /\ Live(k) /\ Live(k2) /\ Name(W2, p, j) = Name(W, p, i) /\ Grows(p, k, k2)
  /\ k2.tls.peer = k.tls.peer \/ \E l \in Mail(W, p) : l.pid = 1 /\ l.body.from = k2.tls.peer
  /\ (HasText(p, k2) => HasText(p, k)) \/ Paired(W2, p, j)
  /\ p = Server => ServesOn(k, k2) \/ ServerGood(W2, j)

Newborn(W, W2, p, j) ==
  LET k2 == W2.key[p][j] IN
  /\ k2.state = S_INITIAL /\ ~Known(W, p, Name(W2, p, j))
  /\ k2.tls = NewTls /\ k2.next = 0 /\ k2.recNext = 0 /\ k2.rec = {} /\ k2.unacked = {}
  /\ k2.read = <<>> /\ k2.pay = <<>>

Succeeds(W, W2, p, j) ==
  \/ W2.key[p][j] = Undef /\ W2.sid[p][j] = NoSid
  \/ /\ KeyGood(p, W2.key[p][j], Name(W2, p, j), W2.written[p], W2.written[Other(p)])
     /\ SlotBounds(W2, p, j)
     /\ Newborn(W, W2, p, j) \/ \E i \in Slots : Heir(W, W2, p, i, j)

\* A letter that p has just written.
Welcome(W, p, l) ==
  LET q == Other(p) IN
  /\ LetterGood(W, q, l)
  /\ \A m \in Mail(W, q) : Numbered(l, m) /\ Numbered(m, l)
  /\ \A j \in Slots : Live(W.key[p][j]) =>
       LET k == W.key[p][j] nm == Name(W, p, j) IN
       /\ l.pid >= 2 /\ nm \in l.body.conn =>
            l.pid < k.next /\ k.tls.phase = "done" /\ l.body.conn = {nm, k.tls.peer}
       /\ l.pid = 1 /\ l.body.from = nm => HelloSent(p, k)
  /\ \A j \in Slots : Live(W.key[q][j]) /\ l.pid >= 2 /\ Name(W, q, j) \in l.body.conn => HelloSent(q, W.key[q][j])
  /\ l.pid >= 3 =>
       /\ Live(W.key[q][TM_UNTRUSTED]) => Name(W, q, TM_UNTRUSTED) \notin l.body.conn
       /\ Live(W.key[q][TM_ACTIVE]) /\ Name(W, q, TM_ACTIVE) \in l.body.conn =>
            /\ l.body.conn = {Name(W, q, TM_ACTIVE), W.key[q][TM_ACTIVE].tls.peer}
            /\ \A n \in Seen(W, q) : n < l.body.text[2]
       /\ Live(W.key[p][TM_ACTIVE]) => \A n \in Numbers(Backlog(W.key[p][TM_ACTIVE])) : l.body.text[2] < n

\* What an active key holds, and what it still has to send, is as it was.
HoldsOn(W, W2, p) ==
  LET k == W.key[p][TM_ACTIVE] k2 == W2.key[p][TM_ACTIVE] IN
  /\ Heir(W, W2, p, TM_ACTIVE, TM_ACTIVE) /\ W2.received[p] = W.received[p]
  /\ Numbers(Hand(k2)) \subseteq Numbers(Hand(k)) /\ (Rising(Hand(k)) => Rising(Hand(k2)))

SendsOn(W, W2, p) ==
  Live(W.key[p][TM_ACTIVE]) /\ Backlog(W2.key[p][TM_ACTIVE]) = Backlog(W.key[p][TM_ACTIVE])

WaitsOn(W, W2, p) ==
  LET k == W.key[p][TM_UNTRUSTED] k2 == W2.key[p][TM_UNTRUSTED] IN
  /\ Heir(W, W2, p, TM_UNTRUSTED, TM_UNTRUSTED)
  /\ Numbers(Hand(k2)) \subseteq Numbers(Hand(k)) /\ Backlog(k2) = Backlog(k)

Evolves(W, W2, p) ==
  LET q == Other(p) IN
  /\ W2.n[p] \in Nat /\ W2.written[p] \in Nat /\ W2.received[p] \in Seq(Text)
  /\ Pays(W2.received[p], W2.written[q]) /\ Rising(W2.received[p])
  /\ \A j \in Slots : Succeeds(W, W2, p, j)
  /\ \A l \in Mail(W2, q) : Carried(Mail(W, q), l) \/ Welcome(W2, p, l)
  /\ \A m \in W2.net[q] : m \in W.net[q] \/ PacketGood(W2, q, m)
  /\ \A n \in Seen(W2, p) : n \in Seen(W, p) \/ \E l \in Mail(W, p) : l.pid >= 3 /\ l.body.text[2] = n
  /\ Live(W2.key[p][TM_ACTIVE]) => /\ ActiveGood(W2, p) \/ HoldsOn(W, W2, p)
                                   /\ BacklogGood(W2, p) \/ SendsOn(W, W2, p)
  /\ Live(W2.key[p][TM_UNTRUSTED]) => UntrustedGood(W2, p) \/ WaitsOn(W, W2, p)
  /\ Live(W2.key[p][TM_ACTIVE]) /\ Live(W2.key[p][TM_UNTRUSTED]) => W2.sid[p][TM_ACTIVE] # W2.sid[p][TM_UNTRUSTED]

\* Of the peers' keys only the one in slot i of peer p changes.
OneSlot(W, W2, p, i) ==
  /\ W2.sid = W.sid /\ W2.nk = W.nk /\ W2.n = W.n /\ W2.written = W.written /\ W2.received = W.received
  /\ W2.net[p] \subseteq W.net[p]
  /\ \A a \in Peers, j \in Slots : (a = p /\ j = i) \/ W2.key[a][j] = W.key[a][j]
  /\ Live(W.key[p][i]) /\ Live(W2.key[p][i]) /\ W2.key[p][i].keyId = W.key[p][i].keyId

\* A step of a key that is not about texts or letters: at most a packet without a body is new.
Quietly(p, k, k2) ==
  /\ Grows(p, k, k2) /\ k2.remote = k.remote
  /\ k2.tls.peer = k.tls.peer \/ \E r \in k.rec : r.pid = 1 /\ r.body.from = k2.tls.peer
  /\ HasText(p, k2) => HasText(p, k)
  /\ Numbers(Hand(k2)) \subseteq Numbers(Hand(k)) /\ (Rising(Hand(k)) => Rising(Hand(k2)))
  /\ Backlog(k2) = Backlog(k)
  /\ k2.rec \subseteq k.rec
  /\ \A u \in k2.unacked : u \in k.unacked \/ (u.pid = 0 /\ u.body = Null)
  /\ 2 \in Packets(k) => 2 \in Packets(k2)
  /\ k2.next >= 3 => k.next >= 3

\* The packets that it may send meanwhile.
SendsOnly(W, W2, p, k) ==
  \A m \in W2.net[Other(p)] :
    \/ m \in W.net[Other(p)]
    \/ /\ PacketGood(W2, Other(p), m)
       /\ (m.pid = 0 /\ m.body = Null) \/ \E u \in k.unacked : u.pid = m.pid /\ u.body = m.body

-----------------------------------------------------------------------------
(* What a step of tls_process() makes of a key. *)

\* All of a key (of a TLS object) but the fields in F is as it was.
Keeps(k, k2, F) == KeyFields \subseteq DOMAIN k2 /\ \A f \in KeyFields \ F : k2[f] = k[f]

KeepsTls(t, t2, F) == TlsFields \subseteq DOMAIN t2 /\ \A f \in TlsFields \ F : t2[f] = t[f]

\* The next packet of a key has its turn.
Advances(k, k2, r) ==
  r \in k.rec /\ r.pid = k.recNext /\ k2.rec = k.rec \ {r} /\ k2.recNext = k.recNext + 1

\* What becomes of a key that the next text arrives at.
Took(p, k, k2, t) ==
  /\ Grows(p, k, k2) /\ Backlog(k2) = Backlog(k)
  /\ Hand(k) \in Seq(Text) /\ Hand(k2) = Append(Hand(k), t)
  /\ HasText(p, k) <=> k.recNext >= 3
  /\ k2.tls.peer = k.tls.peer /\ k2.remote = k.remote /\ k2.unacked = k.unacked /\ k2.next = k.next
  /\ k2.rec \subseteq k.rec /\ k2.tls.phase = k.tls.phase

\* The TLS object has decrypted a text.
Gains(k, k2, t) == KeepsTls(k.tls, k2.tls, {"in"}) /\ k2.tls.in = Append(k.tls.in, t)

TakesText(k, k2, r) ==
  /\ Keeps(k, k2, {"rec", "recNext", "tls"}) /\ Advances(k, k2, r) /\ Gains(k, k2, r.body.text)
  /\ k.state # S_INITIAL /\ k.tls.phase = "done"

\* What becomes of a key that writes a packet: its hello, or a text.
Wrote(p, k, k2, nm, n, u) ==
  /\ k2.next = n + 1 /\ k2.unacked = k.unacked \cup {u} /\ k2.due = k.due \cup {n}
  /\ u.pid = n /\ u.body # Null

GreetsFirst(p, k, k2, nm, u) ==
  /\ Keeps(k, k2, {"next", "unacked", "due", "tls"}) /\ KeepsTls(k.tls, k2.tls, {"phase"})
  /\ Wrote(p, k, k2, nm, k.next, u) /\ u.body.kind = "hello" /\ u.body.from = nm /\ k.state >= S_START
  /\ k.tls.phase = (IF p = Server THEN "greeted" ELSE "start")
  /\ k2.tls.phase = (IF p = Server THEN "done" ELSE "greeted")

Greeted(p, k, k2) ==
  /\ k.next = 1 /\ HelloSent(p, k2) /\ Grows(p, k, k2) /\ Backlog(k2) = Backlog(k) /\ Hand(k2) = Hand(k)
  /\ HasText(p, k2) <=> HasText(p, k)

\* The first text a key sends is its key method message, payloads follow.
Posted(p, k, k2, t, w) ==
  /\ k.next >= 2 /\ k2.next = k.next + 1 /\ k2.tls.phase = "done" /\ k2.tls.peer = k.tls.peer
  /\ k2.remote = k.remote /\ k2.rec = k.rec
  /\ Grows(p, k, k2) /\ Hand(k2) = Hand(k) /\ t \in Text
  /\ HasText(p, k2) <=> HasText(p, k)
  /\ k.next = 2 => t[1] = "key" /\ Backlog(k2) = Backlog(k)
  /\ k.next >= 3 => /\ k.state >= S_ACTIVE /\ IsPay(t, w) /\ DecryptKeyEnabled(p, k)
                    /\ Backlog(k) \in Seq(Text) /\ Backlog(k) # <<>> /\ Backlog(k)[1] = t
                    /\ Backlog(k2) = Tail(Backlog(k))

Posts(p, k, k2, nm, u) ==
  /\ Keeps(k, k2, {"next", "unacked", "due", "tls"}) /\ KeepsTls(k.tls, k2.tls, {"out"})
  /\ Wrote(p, k, k2, nm, k.next, u) /\ u.body.kind = "record" /\ u.body.conn = {nm, k.tls.peer}
  /\ k.tls.phase = "done" /\ k.tls.out # <<>> /\ u.body.text = Head(k.tls.out) /\ k2.tls.out = Tail(k.tls.out)

-----------------------------------------------------------------------------
(* The world in the middle of tls_process(): one key is further than the world says. *)

\* The world in which slot i of peer p holds key k, and the packets S have been sent.
At(W, p, i, k, S) ==
  [key |-> [a \in Peers |-> [j \in Slots |-> IF a = p /\ j = i THEN k ELSE W.key[a][j]]],
   sid |-> W.sid, nk |-> W.nk, n |-> W.n, written |-> W.written, received |-> W.received,
   net |-> [a \in Peers |-> IF a = p THEN W.net[a] ELSE W.net[a] \cup S]]

Holds(W, p, i, k, S) == Live(k) /\ k.keyId = W.key[p][i].keyId /\ Good(At(W, p, i, k, S))
KeyFine(W, p, i, k) == KeyGood(p, k, <<W.sid[p][i], k.keyId>>, W.written[p], W.written[Other(p)])

Differs(V, W, p, i, k, S) ==
  /\ V.key[p][i] = k /\ V.sid = W.sid /\ V.nk = W.nk /\ V.n = W.n /\ V.written = W.written /\ V.received = W.received
  /\ \A a \in Peers, j \in Slots : (a = p /\ j = i) \/ V.key[a][j] = W.key[a][j]
  /\ V.net[p] = W.net[p] /\ V.net[Other(p)] = W.net[Other(p)] \cup S
  /\ Name(V, p, i) = <<W.sid[p][i], k.keyId>>

-----------------------------------------------------------------------------
(* What tls_process() works on, and how it gets on with it. *)

\* The order in which a peer's key takes its states.
Rank(p, state) == IF p = Server /\ state = S_GOT_KEY THEN 7 ELSE 2 * state

Measured(p, k) == k.next \in Nat /\ k.recNext \in Nat /\ Len(k.tls.in) \in Nat /\ Rank(p, k.state) \in Int

Onward(p, k, k2) ==
  /\ Measured(p, k) /\ Measured(p, k2)
  /\ k.next <= k2.next /\ k.recNext <= k2.recNext /\ Rank(p, k.state) <= Rank(p, k2.state)
  /\ k2.next = k.next => k2.due \subseteq k.due
  /\ k2.recNext = k.recNext => k2.rec = k.rec /\ Len(k2.tls.in) <= Len(k.tls.in)

Same(p, k, k2) ==
  /\ k2.next = k.next /\ k2.recNext = k.recNext /\ Rank(p, k2.state) = Rank(p, k.state)
  /\ k2.due = k.due /\ k2.rec = k.rec /\ Len(k2.tls.in) = Len(k.tls.in)

Sent(link) == IF link = NoPacket THEN {} ELSE {link}
WorkFields == {"p", "sid", "k", "link", "change", "stop", "error", "env"}

WorkFine(W, p, i, x) ==
  /\ WorkFields \subseteq DOMAIN x /\ x.p = p /\ x.sid = W.sid[p][i] /\ x.stop \in BOOLEAN /\ x.error \in BOOLEAN
  /\ x.error => x.k.state = S_ERROR /\ "state" \in DOMAIN x.k /\ \E k : Holds(W, p, i, k, Sent(x.link))
  /\ ~x.error => Holds(W, p, i, x.k, Sent(x.link))

Steps(W, p, i, x, y) == WorkFine(W, p, i, y) /\ (~y.error => ~x.error /\ Onward(p, x.k, y.k))

\* One of the cases of a step that works on a key: what it needs of the work.
AtWork(W, p, i, x, k) ==
  /\ KeyFine(W, p, i, k) /\ KeyFields \subseteq DOMAIN k /\ WorkFields \subseteq DOMAIN x /\ TlsFields \subseteq DOMAIN k.tls
  /\ KeyGood(p, k, <<W.sid[p][i], k.keyId>>, W.written[p], W.written[Other(p)])
  /\ k.next \in Nat /\ k.recNext \in Nat /\ Len(k.tls.in) \in Nat /\ Rank(p, k.state) \in Int /\ k.state \in Int
  /\ x.p = p /\ x.sid = W.sid[p][i] /\ Holds(W, p, i, k, Sent(x.link)) /\ Shaped(k) /\ k.state \in S_INITIAL..S_NORMAL_OP
  /\ Me(x) = <<W.sid[p][i], k.keyId>>

\* What a step leaves alone of the work.
Beside(x, y) ==
  /\ WorkFields \subseteq DOMAIN y /\ y.p = x.p /\ y.sid = x.sid /\ y.stop = x.stop /\ y.error = x.error /\ y.link = x.link

\* What tls_process() does to send a ciphertext.
Ciphered(k, k2, op, body, tls) ==
  /\ Keeps(k, k2, {"next", "unacked", "due", "tls"}) /\ k2.tls = tls /\ k2.next = k.next + 1
  /\ k2.unacked = k.unacked \cup {[pid |-> k.next, op |-> op, body |-> body]} /\ k2.due = k.due \cup {k.next}

\* A key that tls_process() has started, with no key method message left behind.
Begun(p, x) == ~x.error => x.k.state # S_INITIAL /\ Flushed(p, x.k)

\* A key that has nothing left to do: it has taken its key method message, if there was one.
Idle(p, k) == InOrder(k) = {} /\ (k.recNext >= 3 => DecryptKeyEnabled(p, k))

\* The first half of a round, up to the packet that is sent.
RoundHead(x) == Transmit(Activate(Start(TimeOut(InitialHandshake([x EXCEPT !.change = FALSE])))))

RoundTail(x) == WriteCiphertext(WritePlaintext(ReceiveKey(SendKey(ReadPlaintext(ReadCiphertext(x))))))

\* What a round, and tls_process() as a whole, does for a key that is in order.
Works(W, p, i, x, y) ==
  /\ Steps(W, p, i, x, y)
  /\ ~y.error => Flushed(p, y.k)
  /\ ~y.error /\ Same(p, x.k, y.k) => Idle(p, y.k)

-----------------------------------------------------------------------------
(* Sessions and keys come and go. *)

\* All but slot i of peer p is as it was, but for the session ids drawn.
ButSlot(W, W2, p, i) ==
  /\ \A a \in Peers, j \in Slots : (a = p /\ j = i) \/ (W2.key[a][j] = W.key[a][j] /\ W2.sid[a][j] = W.sid[a][j] /\ W2.nk[a][j] = W.nk[a][j])
  /\ W2.n[Other(p)] = W.n[Other(p)] /\ W2.n[p] \in Nat /\ W.n[p] <= W2.n[p]
  /\ \A a \in Peers : /\ W2.written[a] = W.written[a] /\ W2.received[a] = W.received[a]
                      /\ W2.net[a] \subseteq W.net[a]

NewKey(k) ==
  /\ KeyFields \subseteq DOMAIN k /\ k.state = S_INITIAL /\ k.keyId \in 0..KeyIdMask
  /\ k.next = 0 /\ k.unacked = {} /\ k.due = {} /\ k.recNext = 0 /\ k.rec = {} /\ k.acks = {} /\ k.tls = NewTls
  /\ k.read = <<>> /\ k.write = <<>> /\ k.pay = <<>>

(* The untrusted session becomes the active one. *)
MovesUp(W, W2, p) ==
  /\ \A j \in Slots : W2.key[Other(p)][j] = W.key[Other(p)][j] /\ W2.sid[Other(p)][j] = W.sid[Other(p)][j] /\ W2.nk[Other(p)][j] = W.nk[Other(p)][j]
  /\ W2.key[p][TM_ACTIVE] = W.key[p][TM_UNTRUSTED] /\ W2.sid[p][TM_ACTIVE] = W.sid[p][TM_UNTRUSTED]
  /\ W2.nk[p][TM_ACTIVE] = W.nk[p][TM_UNTRUSTED] /\ W2.key[p][TM_UNTRUSTED] = Undef /\ W2.sid[p][TM_UNTRUSTED] = NoSid
  /\ \A a \in Peers : /\ W2.written[a] = W.written[a] /\ W2.received[a] = W.received[a]
                      /\ W2.net[a] \subseteq W.net[a] /\ W2.n[a] = W.n[a]

\* What has become of session s when its key has been renewed.
RenewedAs(s, s2) ==
  /\ s2.sid = s.sid /\ s2.nextKey = s.nextKey + 1 /\ {"sid", "nextKey", "burst", "keys"} \subseteq DOMAIN s2
  /\ {KS_PRIMARY, KS_LAME_DUCK} \subseteq DOMAIN s2.keys /\ s2.keys[KS_PRIMARY].keyId = s.nextKey
  /\ NewKey(s2.keys[KS_PRIMARY]) /\ s2.keys[KS_PRIMARY].remote = s.keys[KS_PRIMARY].remote
  /\ s2.keys[KS_PRIMARY].addr = s.keys[KS_PRIMARY].addr

-----------------------------------------------------------------------------
(* The world when peer p has got as far as tls_multi m, and has sent the packets S. *)

Prime(m, i) == m.sess[i].keys[KS_PRIMARY]

Put(W, p, m, S) ==
  [key |-> [a \in Peers |-> [j \in Slots |-> IF a = p THEN Prime(m, j) ELSE W.key[a][j]]],
   sid |-> [a \in Peers |-> [j \in Slots |-> IF a = p THEN m.sess[j].sid ELSE W.sid[a][j]]],
   nk |-> [a \in Peers |-> [j \in Slots |-> IF a = p THEN m.sess[j].nextKey ELSE W.nk[a][j]]],
   n |-> [a \in Peers |-> IF a = p THEN m.n ELSE W.n[a]],
   written |-> W.written, received |-> W.received,
   net |-> [a \in Peers |-> IF a = p THEN W.net[a] ELSE W.net[a] \cup S]]

Puts(V, W, p, m, S) ==
  /\ \A j \in Slots : V.key[p][j] = Prime(m, j) /\ V.sid[p][j] = m.sess[j].sid /\ V.nk[p][j] = m.sess[j].nextKey
  /\ \A j \in Slots : /\ V.key[Other(p)][j] = W.key[Other(p)][j] /\ V.sid[Other(p)][j] = W.sid[Other(p)][j]
                      /\ V.nk[Other(p)][j] = W.nk[Other(p)][j]
  /\ V.n[p] = m.n /\ V.n[Other(p)] = W.n[Other(p)] /\ V.written = W.written /\ V.received = W.received
  /\ V.net[p] = W.net[p] /\ V.net[Other(p)] = W.net[Other(p)] \cup S

\* Where m2 differs from m, the world does not show it.
Alike(m, m2) == m2.n = m.n /\ \A j \in Slots : Prime(m2, j) = Prime(m, j) /\ m2.sess[j].sid = m.sess[j].sid /\ m2.sess[j].nextKey = m.sess[j].nextKey

\* m2 is m, but for slot i.
ButSession(m, m2, i) ==
  \A j \in Slots : j # i => Prime(m2, j) = Prime(m, j) /\ m2.sess[j].sid = m.sess[j].sid /\ m2.sess[j].nextKey = m.sess[j].nextKey

\* Put and At together.
AtPuts(V, W, p, i, k, m, S) ==
  /\ V.key[p][i] = k /\ (\A j \in Slots : j # i => V.key[p][j] = Prime(m, j))
  /\ \A j \in Slots : V.sid[p][j] = m.sess[j].sid /\ V.nk[p][j] = m.sess[j].nextKey
  /\ \A j \in Slots : /\ V.key[Other(p)][j] = W.key[Other(p)][j] /\ V.sid[Other(p)][j] = W.sid[Other(p)][j]
                      /\ V.nk[Other(p)][j] = W.nk[Other(p)][j]
  /\ V.n[p] = m.n /\ V.n[Other(p)] = W.n[Other(p)] /\ V.written = W.written /\ V.received = W.received
  /\ V.net[p] = W.net[p] /\ V.net[Other(p)] = W.net[Other(p)] \cup S

\* But for the slots of peer p, two worlds are the same.
PutAlike(V, V2, p) ==
  /\ \A a \in Peers : /\ V2.written[a] = V.written[a] /\ V2.received[a] = V.received[a]
                     /\ V2.net[a] = V.net[a] /\ V2.n[a] = V.n[a]
  /\ \A j \in Slots : /\ V2.key[Other(p)][j] = V.key[Other(p)][j] /\ V2.sid[Other(p)][j] = V.sid[Other(p)][j]
                     /\ V2.nk[Other(p)][j] = V.nk[Other(p)][j]

SessionFields == {"sid", "nextKey", "burst", "keys"}
MultiFields == {"n", "up", "opened", "sess"}
SessionFine(s) == SessionFields \subseteq DOMAIN s /\ {KS_PRIMARY, KS_LAME_DUCK} \subseteq DOMAIN s.keys

MultiFine(m) ==
  /\ MultiFields \subseteq DOMAIN m /\ Sessions \subseteq DOMAIN m.sess
  /\ \A i \in Sessions : SessionFine(m.sess[i])
  /\ "state" \in DOMAIN Prime(m, TM_LAME_DUCK) /\ Prime(m, TM_LAME_DUCK).state \in {S_ERROR, S_UNDEF}
  /\ m.up => Live(Prime(m, TM_ACTIVE)) /\ (~SingleSession => Live(Prime(m, TM_UNTRUSTED)))

TurnGood(W, p, m, S) ==
  /\ MultiFine(m) /\ Good(Put(W, p, m, S))
  /\ \A i \in Slots : Live(Prime(m, i)) => Flushed(p, Prime(m, i))

\* Session i has become s.
SetTo(m, m2, i, s) ==
  /\ MultiFields \subseteq DOMAIN m2 /\ Sessions \subseteq DOMAIN m2.sess
  /\ m2.n = m.n /\ m2.up = m.up /\ m2.sess[i] = s /\ \A j \in Sessions : j # i => m2.sess[j] = m.sess[j]

\* A session gets another primary key.
WithKey(s, k) == [s EXCEPT !.keys[KS_PRIMARY] = k]

\* Only the lame duck key of a session differs.
Lamely(s, s2) == /\ SessionFine(s2) /\ s2.keys[KS_PRIMARY] = s.keys[KS_PRIMARY] /\ s2.sid = s.sid /\ s2.nextKey = s.nextKey

\* What tls_process() is called for: the session as it was, or a renewed one.
ReadyAs(s, k, t, ready) ==
  /\ SessionFine(ready) /\ Lamely(WithKey(s, k), t)
  /\ Lamely(t, ready) \/ (RenewedAs(t, ready) /\ s.nextKey < KeyIdMask)

\* A key owes fewer acknowledgements, or more of its packets are due, or its address is known.
Acked(k, k2) ==
  /\ Keeps(k, k2, {"due", "acks", "addr"}) /\ k2.due \subseteq Packets(k) /\ k2.acks \subseteq k.acks /\ (k.addr => k2.addr)

WorkStarts(W, p, i, mr, S, x) ==
  WorkFine(Put(W, p, mr, S), p, i, x) /\ Busy(x) /\ Flushed(p, x.k) /\ x.k = Prime(mr, i)

\* A session whose key has failed starts again, and may leave its place to a lame duck.
StartsAgain(p, m, m2, i, n) ==
  /\ MultiFields \subseteq DOMAIN m2 /\ Sessions \subseteq DOMAIN m2.sess
  /\ m2.n = n /\ m2.up = m.up /\ m2.sess[i] = NewSession(p, n)
  /\ \A j \in Slots : j # i => m2.sess[j] = m.sess[j]
  /\ m2.sess[TM_LAME_DUCK] = m.sess[TM_LAME_DUCK] \/ m2.sess[TM_LAME_DUCK] = m.sess[i]

\* What session i has become, and how often a session has been opened.
WorkedTo(W, p, S, i, ready, z, y, w) ==
  /\ TurnGood(W, p, w.m, S \cup Sent(w.link)) /\ {"m", "link"} \subseteq DOMAIN w /\ w.m.up = y.m.up
  /\ \A j \in Slots : j # i => w.m.sess[j] = y.m.sess[j]
  /\ \/ z.error /\ w.m.n = y.m.n + 1
     \/ ~z.error /\ w.m.n = y.m.n /\ w.m.sess[i] = WithKey(ready, z.k)

\* What the world says of a session.
SessionGood(W, p, m, i) ==
  LET k == Prime(m, i) s == m.sess[i] IN
  /\ Live(k) /\ KeyGood(p, k, <<s.sid, k.keyId>>, W.written[p], W.written[Other(p)])
  /\ s.sid \in {p} \X (1..m.n) /\ k.keyId < s.nextKey /\ s.nextKey \in 1..KeyIdMask

Processed(W, p, S, i, y, w) ==
  /\ TurnGood(W, p, w.m, S \cup Sent(w.link)) /\ {"m", "link"} \subseteq DOMAIN w /\ w.m.up
  /\ \A j \in Slots : j # i => w.m.sess[j] = y.m.sess[j]
  /\ w.m.n = y.m.n \/ w.m.n = y.m.n + 1
  /\ w.m.n = y.m.n /\ w.m.sess[i] = y.m.sess[i] /\ Live(Prime(w.m, i)) => Idle(p, Prime(w.m, i))

-----------------------------------------------------------------------------
(* What tls_multi_process() makes of a peer, and the event loop of its calls. *)

\* An untrusted session takes the active one's place.
ComesUp(W, p, m, S, n, m3) ==
  /\ TurnGood(W, p, m3, S) /\ m3.up = m.up
  /\ m3.n = n \/ (m3 = m /\ ~DecryptKeyEnabled(p, Prime(m3, TM_UNTRUSTED)))

KeepsSlots(W, p, m, S, m2) ==
  TurnGood(W, p, m2, S) /\ m2.n = m.n /\ m2.up = m.up /\ \A j \in Slots : m2.sess[j] = m.sess[j]

Results == {"m", "link"}

\* A peer that is gone has no key left.
Gone(m) == ~m.up => \A i \in Slots : ~Live(Prime(m, i))

\* Either all is over, or a session has opened, or nothing but the lame duck has changed.
ComesOut(W, p, S, d, n, w) ==
  /\ TurnGood(W, p, w.m, S \cup Sent(w.link)) /\ Results \subseteq DOMAIN w /\ (d.m.up => Gone(w.m))
  /\ \/ ~w.m.up
     \/ w.m.n = n
     \/ /\ w.m.n = d.m.n /\ \A j \in Slots : w.m.sess[j] = d.m.sess[j]
        /\ ~DecryptKeyEnabled(p, Prime(w.m, TM_UNTRUSTED))

\* No key of a peer has anything left to do, as Resting says it of the untrusted one.
Rested(p, m) ==
  /\ \A i \in Slots : Live(Prime(m, i)) => Idle(p, Prime(m, i))
  /\ LET k == Prime(m, TM_UNTRUSTED) IN
     Live(k) => k.recNext <= 2 /\ InOrder(k) = {} /\ ~DecryptKeyEnabled(p, k)

RenewalsFit(m, env) == \A i \in Slots : env.at = i /\ env.what = "renew" => m.sess[i].nextKey < KeyIdMask
OnWay(s) == {s[i] : i \in DOMAIN s}
Queue(s) == s \in Seq(OnWay(s))

CallGood(W, p, x) ==
  /\ TurnGood(W, p, x.m, OnWay(x.sent)) /\ Queue(x.sent) /\ x.again \in BOOLEAN
  /\ ~x.again /\ x.m.up => Rested(p, x.m)
  /\ Gone(x.m)

-----------------------------------------------------------------------------
(* What tls_pre_decrypt() makes of a key, a session and a peer. *)

Envelope == {"unacked", "due", "rec", "acks", "remote", "addr"}

\* The reliability layer of a key has taken a packet.
Reliably(k, k2) == Keeps(k, k2, Envelope) /\ Got(k) \subseteq Got(k2) /\ k2.unacked \subseteq k.unacked

\* Acknowledgements delete what was sent.
Purged(k, k2, acks) ==
  /\ Keeps(k, k2, {"unacked", "due"})
  /\ k2.unacked = {u \in k.unacked : u.pid \notin acks} /\ k2.due = k.due \ acks

\* A packet not seen before is kept, and acknowledged either way.
Kept(k, k2, pid, body) ==
  /\ Keeps(k, k2, {"rec", "acks"}) /\ k2.acks = k.acks \cup {pid}
  /\ \/ k2.rec = k.rec \cup {[pid |-> pid, body |-> body]} /\ pid >= k.recNext /\ pid \notin {r.pid : r \in k.rec}
     \/ k2.rec = k.rec /\ (pid < k.recNext \/ pid \in {r.pid : r \in k.rec})

\* The peer's session and address are known.
Meets(k, k2, id) == Keeps(k, k2, {"remote", "addr"}) /\ k2.remote = id /\ k2.addr = TRUE

\* What ServerGood says of a key k that is not in its slot yet.
ServerFine(W, k, nm) ==
  /\ HasText(Server, k) => k.tls.peer = <<k.remote, k.keyId>>
  /\ \A r \in k.rec : r.pid >= 2 /\ nm \in r.body.conn => r.body.conn = {nm, <<k.remote, k.keyId>>}
  /\ \A j \in Slots : k.next >= 3 /\ 2 \notin Packets(k) /\ Live(W.key[Client][j])
                      /\ Name(W, Client, j) = k.tls.peer => 2 \in Got(W.key[Client][j])

\* No text has come to a key, or waits for its turn.
NoTextYet(k, nm) == ~HasText(Server, k) /\ \A r \in k.rec : ~(r.pid >= 2 /\ nm \in r.body.conn)

\* Session s has become d, as a packet was for its key.
Arrives(s, packet, d, k2, k3) ==
  /\ Purged(s.keys[KS_PRIMARY], k2, packet.acks) /\ packet.kid = s.keys[KS_PRIMARY].keyId
  /\ k3 = k2 \/ Kept(k2, k3, packet.pid, packet.body)
  /\ d = WithKey(s, k3)

\* A packet is for session i, whose peer is known.
Reaches(W, p, m, i, packet) ==
  LET k == Prime(m, i) IN
  Live(k) /\ k.addr /\ k.remote = packet.sid /\ k.remote # NoSid /\ packet \in W.net[p]

\* Session i, whose key lives, in a turn.
InTurn(W, p, i, m, k) ==
  /\ MultiFine(m) /\ Good(Put(W, p, m, {})) /\ SessionFine(m.sess[i]) /\ k = m.sess[i].keys[KS_PRIMARY] /\ Live(k)
  /\ Flushed(p, k) /\ SessionGood(W, p, m, i) /\ Shaped(k) /\ k.due \subseteq Packets(k)
  /\ Holds(Put(W, p, m, {}), p, i, k, {}) /\ i \in Sessions
  /\ Put(W, p, m, {}).sid[p][i] = m.sess[i].sid

\* Session i is as it was to the peer, and so is the peer in its turn.
Stays(W, p, i, m, m2, k) ==
  /\ TurnGood(W, p, m2, {}) /\ m2.up = m.up /\ Live(Prime(m2, i))
  /\ Prime(m2, i).remote = k.remote /\ Prime(m2, i).addr = k.addr

\* Session i knows its peer now.
Acquainted(W, p, i, m, m2, id) ==
  /\ TurnGood(W, p, m2, {}) /\ m2.up = m.up /\ Live(Prime(m2, i))
  /\ Prime(m2, i).remote = id /\ Prime(m2, i).addr

\* Where tls_pre_decrypt() leaves a peer.
Decrypts(W, p, m2) == TurnGood(W, p, m2, {}) /\ m2.up

-----------------------------------------------------------------------------
(* The world between turns. *)

\* A peer that has nothing to do until something happens.
PeerRest(p, m) ==
  /\ MultiFine(m) /\ Rested(p, m) /\ Gone(m)
  /\ \A i \in Slots : Live(Prime(m, i)) => Flushed(p, Prime(m, i)) /\ m.sess[i].nextKey < KeyIdMask

WorldOf(mu, nw, w, r) ==
  [key |-> [a \in Peers |-> [j \in Slots |-> Prime(mu[a], j)]],
   sid |-> [a \in Peers |-> [j \in Slots |-> mu[a].sess[j].sid]],
   nk |-> [a \in Peers |-> [j \in Slots |-> mu[a].sess[j].nextKey]],
   n |-> [a \in Peers |-> mu[a].n],
   written |-> w, received |-> r,
   net |-> [a \in Peers |-> OnWay(nw[a])]]

IsWorldOf(V, mu, nw, w, r) ==
  /\ \A a \in Peers : /\ V.n[a] = mu[a].n /\ V.net[a] = OnWay(nw[a])
                      /\ \A j \in Slots : V.key[a][j] = Prime(mu[a], j) /\ V.sid[a][j] = mu[a].sess[j].sid /\ V.nk[a][j] = mu[a].sess[j].nextKey
  /\ V.written = w /\ V.received = r

\* The invariant, between turns.
OrderFine(mu, nw, w, r) ==
  /\ DOMAIN mu = Peers /\ DOMAIN nw = Peers /\ DOMAIN w = Peers /\ DOMAIN r = Peers
  /\ Good(WorldOf(mu, nw, w, r))
  /\ \A p \in Peers : PeerRest(p, mu[p]) /\ Queue(nw[p])

\* What a peer's turn may start from.
MayTurn(W, p, m) == TurnGood(W, p, m, {}) /\ Resting(W, Other(p))

-----------------------------------------------------------------------------
(* A payload is given to a peer, or taken from it. *)

DueAgain(W, p, m, m2) == TurnGood(W, p, m2, {}) /\ m2.up = m.up

\* Key k has been given payload n.
Given(k, k2, n) ==
  \/ /\ k.state >= S_ACTIVE /\ Keeps(k, k2, {"tls"}) /\ KeepsTls(k.tls, k2.tls, {"out"})
     /\ k2.tls.out = Append(k.tls.out, <<"pay", n>>)
  \/ /\ k.state < S_ACTIVE /\ Keeps(k, k2, {"pay"}) /\ k2.pay = Append(k.pay, n)

GivenAs(p, k, k2, n) ==
  /\ Grows(p, k, k2) /\ Hand(k2) = Hand(k) /\ Backlog(k) \in Seq(Text) /\ Backlog(k2) = Append(Backlog(k), <<"pay", n>>)
  /\ (HasText(p, k2) <=> HasText(p, k)) /\ (Flushed(p, k2) <=> Flushed(p, k))
  /\ k2.tls.peer = k.tls.peer /\ k2.remote = k.remote /\ k2.rec = k.rec /\ k2.unacked = k.unacked /\ k2.next = k.next
  /\ k2.keyId = k.keyId /\ Live(k) /\ Live(k2)

\* The program above peer p has given its active key a payload, or taken one.
OwnStep(V, V2, p) ==
  /\ \A a \in Peers : V2.n[a] = V.n[a] /\ V2.net[a] = V.net[a]
  /\ \A a \in Peers, j \in Slots : V2.sid[a][j] = V.sid[a][j] /\ V2.nk[a][j] = V.nk[a][j]
  /\ \A a \in Peers, j \in Slots : (a = p /\ j = TM_ACTIVE) \/ V2.key[a][j] = V.key[a][j]
  /\ Live(V.key[p][TM_ACTIVE]) /\ Live(V2.key[p][TM_ACTIVE])
  /\ V2.key[p][TM_ACTIVE].keyId = V.key[p][TM_ACTIVE].keyId
  /\ V2.key[p][TM_ACTIVE].unacked = V.key[p][TM_ACTIVE].unacked /\ V2.key[p][TM_ACTIVE].rec = V.key[p][TM_ACTIVE].rec
  /\ V2.written[Other(p)] = V.written[Other(p)] /\ V2.received[Other(p)] = V.received[Other(p)]
  /\ V2.written[p] \in Nat /\ V.written[p] <= V2.written[p]

OwnKey(V, V2, p) ==
  /\ KeyGood(p, V2.key[p][TM_ACTIVE], Name(V, p, TM_ACTIVE), V2.written[p], V2.written[Other(p)])
  /\ Heir(V, V2, p, TM_ACTIVE, TM_ACTIVE)
  /\ V2.received[p] \in Seq(Text) /\ Pays(V2.received[p], V2.written[Other(p)]) /\ Rising(V2.received[p])
  /\ Seen(V2, p) \subseteq Seen(V, p)
  /\ ActiveGood(V2, p) \/ HoldsOn(V, V2, p)
  /\ BacklogGood(V2, p) \/ SendsOn(V, V2, p)

\* A payload is taken from a key.
TakesOut(k, k2) ==
  k.state >= S_ACTIVE /\ k.read # <<>> /\ Keeps(k, k2, {"read"}) /\ k2.read = <<>>

TakenAs(p, k, k2, v) ==
  /\ Grows(p, k, k2) /\ Hand(k) \in Seq(Text) /\ Hand(k) # <<>> /\ Hand(k)[1] = k.read[1] /\ Hand(k2) = Tail(Hand(k))
  /\ Pays(Hand(k), v) /\ Backlog(k2) = Backlog(k)
  /\ (HasText(p, k2) <=> HasText(p, k)) /\ (Flushed(p, k2) <=> Flushed(p, k))
  /\ k2.tls = k.tls /\ k2.remote = k.remote /\ k2.rec = k.rec /\ k2.unacked = k.unacked /\ k2.next = k.next
  /\ k2.recNext = k.recNext /\ k2.keyId = k.keyId /\ Live(k) /\ Live(k2)

SameKeys(W, W2) ==
  \A a \in Peers : /\ W2.n[a] = W.n[a] /\ W2.net[a] = W.net[a]
                   /\ \A j \in Slots : W2.key[a][j] = W.key[a][j] /\ W2.sid[a][j] = W.sid[a][j] /\ W2.nk[a][j] = W.nk[a][j]

\* Worlds that differ in what the programs above the peers have given and taken, at peer p.
OwnWorld(W, W2, p) ==
  /\ SameKeys(W, W2)
  /\ W2.written[Other(p)] = W.written[Other(p)] /\ W2.received[Other(p)] = W.received[Other(p)]
  /\ W2.written[p] \in Nat /\ W.written[p] <= W2.written[p]

OwnSteps(W, W2, p, m, m2, k, k2) ==
  LET V == Put(W, p, m, {}) V2 == Put(W2, p, m2, {}) IN
  /\ OwnStep(V, V2, p) /\ Good(V) /\ V.key[p][TM_ACTIVE] = k /\ V2.key[p][TM_ACTIVE] = k2
  /\ V.written = W.written /\ V2.written = W2.written /\ V.received = W.received /\ V2.received = W2.received

\* The invariant of the payloads' order.
InOrderInv == OrderFine(multi, network, written, received)
==============================================================================
