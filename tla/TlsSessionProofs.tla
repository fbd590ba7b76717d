--------------------------- MODULE TlsSessionProofs ---------------------------
(***************************************************************************)
(* What TlsSession does is proved for every number of sessions and events: *)
(* however packets are lost, repeated and delayed, whatever fails and      *)
(* expires, and whoever starts again, the payloads are taken in the order  *)
(* they were given, and no end takes a key into use that the other end has *)
(* not taken.                                                              *)
(*                                                                         *)
(* Both follow from the invariant InOrderInv.  Its proof goes from the     *)
(* small to the large: a step of tls_process() keeps a key good and the    *)
(* world good around it; so do the loop of steps, the sessions' turns in   *)
(* tls_multi_process(), and every action.                                  *)
(***************************************************************************)
EXTENDS TlsInvariants, TLAPS, SequenceTheorems, WellFoundedInduction, FiniteSetTheorems

USE DEF S_ERROR, S_UNDEF, S_INITIAL, S_PRE_START, S_START, S_SENT_KEY, S_GOT_KEY, S_ACTIVE,
        S_NORMAL_OP, TM_ACTIVE, TM_UNTRUSTED, TM_LAME_DUCK, KS_PRIMARY, KS_LAME_DUCK

-----------------------------------------------------------------------------
(* Numbers and sequences. *)

LEMMA Least ==
  ASSUME NEW S \in SUBSET Nat, S # {}
  PROVE  Min(S) \in S /\ \A x \in S : Min(S) <= x
<1> DEFINE R == StrictSubsetOrdering(Nat)
           T == {0..x : x \in S}
<1>1. T \subseteq FiniteSubsetsOf(Nat)
  <2> SUFFICES ASSUME NEW x \in S PROVE IsFiniteSet(0..x) /\ 0..x \subseteq Nat BY DEF FiniteSubsetsOf
  <2>1. 0 \in Int /\ x \in Int OBVIOUS
  <2> QED BY <2>1, FS_Interval
<1>2. IsWellFoundedOn(R, FiniteSubsetsOf(Nat)) /\ T # {} BY FS_StrictSubsetOrderingWellFounded
<1>3. PICK X \in T : \A Y \in T : ~(<<Y, X>> \in R)
  <2> HIDE DEF R, T
  <2> QED BY <1>1, <1>2, WFMin
<1>4. PICK m \in S : X = 0..m OBVIOUS
<1>5. ASSUME NEW x \in S PROVE m <= x
  <2> SUFFICES ASSUME x < m PROVE FALSE OBVIOUS
  <2>1. 0..x \subseteq 0..m /\ m \in 0..m /\ m \notin 0..x OBVIOUS
  <2>2. <<0..x, 0..m>> \in (SUBSET Nat) \X (SUBSET Nat) OBVIOUS
  <2>3. <<0..x, 0..m>> \in R BY <2>1, <2>2 DEF StrictSubsetOrdering
  <2> QED BY <1>3, <1>4, <2>3
<1> QED BY <1>5 DEF Min

LEMMA SeqIs ==
  ASSUME NEW S, NEW s \in Seq(S)
  PROVE  Len(s) \in Nat /\ DOMAIN s = 1..Len(s) /\ (s # <<>> => Len(s) >= 1) /\ \A i \in 1..Len(s) : s[i] \in S
BY LenProperties, EmptySeq, ElementOfSeq

LEMMA TextsAre ==
  ASSUME NEW pay \in Seq(Nat)
  PROVE  /\ Texts(pay) \in Seq(Text) /\ Len(Texts(pay)) = Len(pay)
         /\ \A i \in DOMAIN pay : Texts(pay)[i] = <<"pay", pay[i]>>
         /\ Texts(pay) = <<>> <=> pay = <<>>
<1>1. pay \in [1..Len(pay) -> Nat] /\ DOMAIN pay = 1..Len(pay) /\ Len(pay) \in Nat OBVIOUS
<1>2. Texts(pay) \in [1..Len(pay) -> Text] BY <1>1 DEF Texts, Text
<1> QED BY <1>1, <1>2, SeqDef DEF Texts

LEMMA OneAhead ==
  ASSUME NEW a \in Seq(Text), NEW b \in Seq(Text), Len(a) <= 1, a # <<>>
  PROVE  a \o b # <<>> /\ (a \o b)[1] = a[1] /\ Tail(a \o b) = b /\ a = <<(a \o b)[1]>>
<1>1. Len(a) = 1 /\ Len(b) \in Nat
  <2>1. Len(a) \in Nat \ {0} BY EmptySeq
  <2>2. \A n \in Nat \ {0} : n <= 1 => n = 1 OBVIOUS
  <2>4. Len(a) = 1 BY <2>1, <2>2, Zenon
  <2>3. Len(b) \in Nat OBVIOUS
  <2> QED BY <2>3, <2>4
<1>2. /\ a \o b \in Seq(Text) /\ Len(a \o b) = Len(a) + Len(b)
      /\ \A i \in 1..Len(a) + Len(b) : (a \o b)[i] = IF i <= Len(a) THEN a[i] ELSE b[i - Len(a)]
  BY ConcatProperties
<1> PICK c \in Seq(Text) : c = a \o b BY <1>2
<1>3. Len(c) = 1 + Len(b) /\ c[1] = a[1] /\ \A i \in 1..Len(b) : c[i + 1] = b[i] BY <1>1, <1>2
<1>4. c # <<>> BY <1>1, <1>3, EmptySeq
<1>5. Tail(c) = b
  <2>1. Tail(c) \in Seq(Text) /\ Len(Tail(c)) = Len(c) - 1 /\ \A i \in 1..Len(Tail(c)) : Tail(c)[i] = c[i + 1]
    BY <1>4, HeadTailProperties
  <2>2. Len(Tail(c)) = Len(b) /\ \A i \in 1..Len(Tail(c)) : Tail(c)[i] = b[i] BY <1>1, <1>3, <2>1
  <2> QED BY <2>1, <2>2, SeqEqual
<1>6. a = <<a[1]>>
  <2>1. a[1] \in Text BY <1>1, ElementOfSeq
  <2>2. <<a[1]>> \in Seq(Text) /\ Len(<<a[1]>>) = 1 /\ <<a[1]>>[1] = a[1] BY <2>1
  <2> QED BY <1>1, <2>2, SeqEqual
<1> QED BY <1>3, <1>4, <1>5, <1>6

LEMMA HandIs ==
  ASSUME NEW k, k.read \in Seq(Text), k.tls.in \in Seq(Text), Len(k.read) <= 1
  PROVE  /\ Hand(k) \in Seq(Text)
         /\ k.read = <<>> => Hand(k) = k.tls.in
         /\ k.read # <<>> => /\ Hand(k) # <<>> /\ Hand(k)[1] = k.read[1] /\ Tail(Hand(k)) = k.tls.in
                             /\ k.read = <<Hand(k)[1]>>
<1>1. Hand(k) \in Seq(Text) BY ConcatProperties DEF Hand
<1>2. k.read = <<>> => Hand(k) = k.tls.in BY ConcatEmptySeq DEF Hand
<1>3. k.read # <<>> => /\ Hand(k) # <<>> /\ Hand(k)[1] = k.read[1] /\ Tail(Hand(k)) = k.tls.in
                       /\ k.read = <<Hand(k)[1]>>
  BY OneAhead DEF Hand
<1> QED BY <1>1, <1>2, <1>3

(* What the tail of a sequence of texts, or a text more, makes of its numbers. *)
LEMMA TailOf ==
  ASSUME NEW s \in Seq(Text), s # <<>>, NEW v
  PROVE  /\ Tail(s) \in Seq(Text) /\ s[1] \in Text
         /\ Numbers(Tail(s)) \subseteq Numbers(s)
         /\ Rising(s) => Rising(Tail(s)) /\ (s[1][1] = "pay" => \A n \in Numbers(Tail(s)) : s[1][2] < n)
         /\ (Pays(s, v) \/ KeyThenPays(s, v)) => Pays(Tail(s), v)
         /\ s[1][1] = "pay" => s[1][2] \in Numbers(s)
<1>1. /\ Tail(s) \in Seq(Text) /\ Len(Tail(s)) = Len(s) - 1 /\ Len(s) \in Nat /\ Len(s) >= 1
      /\ \A i \in 1..Len(Tail(s)) : Tail(s)[i] = s[i + 1]
  BY HeadTailProperties, EmptySeq
<1>2. DOMAIN s = 1..Len(s) /\ DOMAIN Tail(s) = 1..(Len(s) - 1) BY <1>1
<1>3. s[1] \in Text BY <1>1, ElementOfSeq
<1>4. Numbers(Tail(s)) \subseteq Numbers(s) BY <1>1, <1>2 DEF Numbers
<1>5. Rising(s) => Rising(Tail(s)) /\ (s[1][1] = "pay" => \A n \in Numbers(Tail(s)) : s[1][2] < n)
  <2>1. Rising(s) => Rising(Tail(s)) BY <1>1, <1>2 DEF Rising
  <2>2. ASSUME Rising(s), s[1][1] = "pay", NEW n \in Numbers(Tail(s)) PROVE s[1][2] < n
    <3>1. PICK i \in 1..(Len(s) - 1) : s[i + 1][1] = "pay" /\ s[i + 1][2] = n BY <1>1, <1>2, <2>2 DEF Numbers
    <3>2. 1 \in DOMAIN s /\ i + 1 \in DOMAIN s /\ 1 < i + 1 BY <1>1, <1>2
    <3> QED BY <2>2, <3>1, <3>2 DEF Rising
  <2> QED BY <2>1, <2>2
<1>6. Pays(s, v) \/ KeyThenPays(s, v) => Pays(Tail(s), v) BY <1>1, <1>2 DEF Pays, KeyThenPays
<1>7. s[1][1] = "pay" => s[1][2] \in Numbers(s) BY <1>1, <1>2 DEF Numbers
<1> QED BY <1>1, <1>3, <1>4, <1>5, <1>6, <1>7

LEMMA AppendNumbers ==
  ASSUME NEW s \in Seq(Text), NEW t \in Text
  PROVE  /\ Append(s, t) \in Seq(Text)
         /\ t[1] # "pay" => Numbers(Append(s, t)) = Numbers(s) /\ (Rising(s) => Rising(Append(s, t)))
         /\ t[1] = "pay" => /\ Numbers(Append(s, t)) = Numbers(s) \cup {t[2]}
                            /\ Rising(s) /\ (\A n \in Numbers(s) : n < t[2]) => Rising(Append(s, t))
<1> DEFINE a == Append(s, t)
<1>1. /\ a \in Seq(Text) /\ Len(a) = Len(s) + 1 /\ Len(s) \in Nat
      /\ \A i \in 1..Len(s) : a[i] = s[i]
      /\ a[Len(s) + 1] = t
  BY AppendProperties
<1>2. DOMAIN s = 1..Len(s) /\ DOMAIN a = 1..(Len(s) + 1) BY <1>1
<1> HIDE DEF a
<1>3. CASE t[1] # "pay"
  <2>1. Numbers(a) \subseteq Numbers(s) BY <1>1, <1>2, <1>3 DEF Numbers
  <2>2. Numbers(s) \subseteq Numbers(a) BY <1>1, <1>2, <1>3 DEF Numbers
  <2>3. Rising(s) => Rising(a) BY <1>1, <1>2, <1>3 DEF Rising
  <2> QED BY <1>1, <1>3, <2>1, <2>2, <2>3 DEF a
<1>4. CASE t[1] = "pay"
  <2>1. Numbers(a) \subseteq Numbers(s) \cup {t[2]} BY <1>1, <1>2, <1>4 DEF Numbers
  <2>2. Numbers(s) \cup {t[2]} \subseteq Numbers(a) BY <1>1, <1>2, <1>4 DEF Numbers
  <2>3. Rising(s) /\ (\A n \in Numbers(s) : n < t[2]) => Rising(a) BY <1>1, <1>2, <1>4 DEF Rising, Numbers
  <2> QED BY <1>1, <1>4, <2>1, <2>2, <2>3 DEF a
<1> QED BY <1>3, <1>4

LEMMA AppendPays ==
  ASSUME NEW s \in Seq(Text), NEW t \in Text, NEW v, IsPay(t, v)
  PROVE  /\ Pays(s, v) => Pays(Append(s, t), v)
         /\ KeyThenPays(s, v) => KeyThenPays(Append(s, t), v)
<1>1. /\ Append(s, t) \in Seq(Text) /\ Len(Append(s, t)) = Len(s) + 1 /\ Len(s) \in Nat
      /\ \A i \in 1..Len(s) : Append(s, t)[i] = s[i]
      /\ Append(s, t)[Len(s) + 1] = t
  BY AppendProperties
<1>2. DOMAIN s = 1..Len(s) /\ DOMAIN Append(s, t) = 1..(Len(s) + 1) BY <1>1
<1>3. Pays(s, v) => Pays(Append(s, t), v) BY <1>1, <1>2 DEF Pays
<1>4. ASSUME KeyThenPays(s, v) PROVE KeyThenPays(Append(s, t), v)
  <2>1. Len(s) >= 1 /\ Append(s, t) # <<>> BY <1>4, SeqIs, AppendProperties DEF KeyThenPays
  <2> QED BY <1>1, <1>2, <1>4, <2>1 DEF KeyThenPays
<1> QED BY <1>3, <1>4

(* How one world becomes another: what a peer's changes leave true of its names, its mail, what
   it has heard, its pairs, and its payloads. *)

LEMMA PeersAre ==
  ASSUME NEW p \in Peers
  PROVE  /\ Other(p) \in Peers /\ Other(Other(p)) = p /\ Other(p) # p
         /\ \A r \in Peers : r = p \/ r = Other(p)
BY PeersAssumption DEF Peers, Other

LEMMA UndefIs ==
  /\ ~Live(Undef) /\ Undef.tls.peer = NoSid /\ Undef.unacked = {} /\ Undef.rec = {}
  /\ Hand(Undef) = <<>> /\ Undef.tls = NewTls /\ Undef.recNext = 0
<1>1. <<>> \in Seq(Text) /\ <<>> \o <<>> = <<>> BY ConcatEmptySeq
<1>2. /\ Undef.state = S_UNDEF /\ Undef.unacked = {} /\ Undef.rec = {} /\ Undef.tls = NewTls
      /\ Undef.recNext = 0 /\ Undef.read = <<>>
  BY DEF Undef, KeyState
<1>3. NewTls.peer = NoSid /\ NewTls.in = <<>> BY DEF NewTls
<1>4. Hand(Undef) = <<>> BY <1>1, <1>2, <1>3, Zenon DEF Hand
<1>5. ~Live(Undef) BY <1>2 DEF Live
<1> QED BY <1>2, <1>3, <1>4, <1>5

LEMMA NamesAre ==
  ASSUME NEW q
  PROVE  NoSid \notin Names(q)
BY DEF Names, NoSid

(* In a good world the slots that are alive are good, and texts have come from a known end. *)
LEMMA LiveIsGood ==
  ASSUME NEW W, Good(W), NEW p \in Peers, NEW i \in Slots, Live(W.key[p][i])
  PROVE  SlotGood(W, p, i)
BY UndefIs DEF Good, PeerGood

LEMMA TextsHavePeer ==
  ASSUME NEW p, NEW k, NEW nm, NEW w, NEW v, KeyGood(p, k, nm, w, v)
  PROVE  /\ HasText(p, k) => k.recNext >= 3 /\ k.tls.peer # NoSid /\ k.tls.phase = "done"
         /\ k.next >= 3 => k.tls.phase = "done" /\ k.tls.peer # NoSid
<1>1. HasText(p, k) => k.recNext >= 3 BY DEF KeyGood, Receives, HasText
<1> QED BY <1>1 DEF KeyGood, Receives, Sends, HelloRead, Shaped

LEMMA LettersGo ==
  ASSUME NEW W, NEW W2, Wider(W, W2), NEW p \in Peers, NEW l, NEW m, LetterGood(W, p, m),
         l.pid = m.pid, l.body = m.body, W.written[Other(p)] \in Nat, W2.written[Other(p)] \in Nat
  PROVE  LetterGood(W2, p, l)
<1>1. Other(p) \in Peers BY PeersAre
<1>2. \A t : IsPay(t, W.written[Other(p)]) => IsPay(t, W2.written[Other(p)]) BY <1>1 DEF Wider, IsPay
<1>3. \A conn : Between(W, p, conn) => Between(W2, p, conn) BY <1>1 DEF Wider, Between
<1> QED BY <1>1, <1>2, <1>3 DEF Wider, LetterGood

(* What is on its way stays good. *)
LEMMA MailGrows ==
  ASSUME NEW W, NEW W2, Good(W), Wider(W, W2), NEW p \in Peers, Evolves(W, W2, p)
  PROVE  MailGood(W2, Other(p))
<1> DEFINE q == Other(p)
<1>1. q \in Peers /\ Other(q) = p BY PeersAre
<1>2. MailGood(W, q) /\ W.written[p] \in Nat /\ W2.written[p] \in Nat BY <1>1 DEF Good, PeerGood, Evolves
<1>3. \A l \in Mail(W2, q) : Carried(Mail(W, q), l) \/ Welcome(W2, p, l) BY DEF Evolves
<1>4. ASSUME NEW l \in Mail(W2, q) PROVE LetterGood(W2, q, l)
  <2>1. CASE Carried(Mail(W, q), l)
    <3>1. PICK m \in Mail(W, q) : l.pid = m.pid /\ l.body = m.body BY <2>1 DEF Carried
    <3>2. LetterGood(W, q, m) BY <1>2 DEF MailGood
    <3> QED BY <1>1, <1>2, <3>1, <3>2, LettersGo
  <2>2. CASE Welcome(W2, p, l) BY <2>2 DEF Welcome
  <2> QED BY <1>3, <2>1, <2>2
<1>5. ASSUME NEW l \in Mail(W2, q), NEW m \in Mail(W2, q) PROVE Numbered(l, m)
  <2>1. CASE Welcome(W2, p, l) \/ Welcome(W2, p, m) BY <2>1 DEF Welcome
  <2>2. CASE Carried(Mail(W, q), l) /\ Carried(Mail(W, q), m)
    <3>1. PICK a \in Mail(W, q), b \in Mail(W, q) : l.pid = a.pid /\ l.body = a.body /\ m.pid = b.pid /\ m.body = b.body
      BY <2>2 DEF Carried
    <3>2. Numbered(a, b) BY <1>2 DEF MailGood
    <3> QED BY <3>1, <3>2 DEF Numbered
  <2> QED BY <1>3, <2>1, <2>2
<1>6. ASSUME NEW m \in W2.net[q] PROVE PacketGood(W2, q, m)
  <2>1. CASE m \in W.net[q]
    <3>1. PacketGood(W, q, m) BY <1>2, <2>1 DEF MailGood
    <3>2. Known(W, p, <<m.sid, m.kid>>) /\ Known(W2, p, <<m.sid, m.kid>>) BY <1>1, <3>1 DEF PacketGood, Wider
    <3>3. ASSUME NEW j \in Slots, Live(W2.key[p][j]), <<m.sid, m.kid>> = Name(W2, p, j)
          PROVE  m.acks \subseteq Got(W2.key[p][j])
      <4>1. PICK i \in Slots : Heir(W, W2, p, i, j) BY <3>2, <3>3, UndefIs DEF Evolves, Succeeds, Newborn
      <4> QED BY <1>1, <3>1, <3>3, <4>1 DEF PacketGood, Heir, Grows
    <3> QED BY <1>1, <3>1, <3>2, <3>3 DEF PacketGood
  <2> QED BY <2>1 DEF Evolves
<1> QED BY <1>4, <1>5, <1>6 DEF MailGood

(* The peer that a key hears stays known. *)
LEMMA PeerKnown ==
  ASSUME NEW W, NEW W2, Good(W), Wider(W, W2), NEW p \in Peers, Evolves(W, W2, p), NEW j \in Slots,
         Live(W2.key[p][j]), W2.key[p][j].tls.peer # NoSid
  PROVE  Known(W2, Other(p), W2.key[p][j].tls.peer)
<1> DEFINE q == Other(p)
<1>1. q \in Peers BY PeersAre
<1>2. ~Newborn(W, W2, p, j) BY DEF Newborn, NewTls
<1>3. PICK i \in Slots : Heir(W, W2, p, i, j) BY <1>2, UndefIs DEF Evolves, Succeeds
<1>4. CASE W2.key[p][j].tls.peer = W.key[p][i].tls.peer
  <2>1. Known(W, q, W.key[p][i].tls.peer) BY <1>3, <1>4, LiveIsGood DEF Heir, SlotGood
  <2> QED BY <1>1, <1>4, <2>1 DEF Wider
<1>5. ASSUME NEW l \in Mail(W, p), l.pid = 1, l.body.from = W2.key[p][j].tls.peer PROVE Known(W2, q, l.body.from)
  <2>1. LetterGood(W, p, l) BY DEF Good, PeerGood, MailGood
  <2> QED BY <1>1, <1>5, <2>1 DEF LetterGood, Wider
<1> QED BY <1>3, <1>4, <1>5 DEF Heir

(* What only this key has sent. *)
LEMMA MineGrows ==
  ASSUME NEW W, NEW W2, Good(W), Wider(W, W2), NEW p \in Peers, Evolves(W, W2, p), NEW j \in Slots,
         Live(W2.key[p][j])
  PROVE  Mine(W2, p, j)
<1> DEFINE q == Other(p)
           nm == Name(W2, p, j)
           k2 == W2.key[p][j]
<1> SUFFICES ASSUME NEW l \in Mail(W2, q), l.pid >= 2, nm \in l.body.conn
             PROVE  l.pid < k2.next /\ k2.tls.phase = "done" /\ l.body.conn = {nm, k2.tls.peer}
  BY DEF Mine
<1>1. q \in Peers /\ Other(q) = p BY PeersAre
<1>2. CASE Welcome(W2, p, l) BY <1>2 DEF Welcome
<1>3. CASE Carried(Mail(W, q), l)
  <2>1. PICK m \in Mail(W, q) : l.pid = m.pid /\ l.body = m.body BY <1>3 DEF Carried
  <2>2. LetterGood(W, q, m) BY <1>1 DEF Good, PeerGood, MailGood
  <2>3. PICK a \in Names(p), b \in Names(q) : m.body.conn = {a, b} /\ Known(W, p, a) /\ Known(W, q, b)
    BY <1>1, <2>1, <2>2 DEF LetterGood, Between, Known
  <2>4. Known(W, p, nm)
    <3>1. p # q /\ nm[1][1] = p BY PeersAre, UndefIs DEF Name, Evolves, Succeeds, SlotBounds
    <3>2. nm # b BY <3>1 DEF Names
    <3> QED BY <2>1, <2>3, <3>2
  <2>5. PICK i \in Slots : Heir(W, W2, p, i, j) BY <2>4, UndefIs DEF Evolves, Succeeds, Newborn
  <2>6. SlotGood(W, p, i) BY <2>5, LiveIsGood DEF Heir
  <2>7. l.pid < W.key[p][i].next /\ W.key[p][i].tls.phase = "done" /\ l.body.conn = {nm, W.key[p][i].tls.peer}
    BY <2>1, <2>5, <2>6 DEF Heir, SlotGood, Mine
  <2>8. W.key[p][i].tls.peer # NoSid BY <2>6, <2>7 DEF SlotGood, KeyGood, Receives, HelloRead
  <2>9. l.pid \in Nat /\ W.key[p][i].next \in Nat /\ k2.next \in Nat
    BY <2>1, <2>2, <2>6, UndefIs DEF LetterGood, SlotGood, KeyGood, Shaped, Evolves, Succeeds
  <2> QED BY <2>5, <2>7, <2>8, <2>9 DEF Heir, Grows
<1> QED BY <1>2, <1>3 DEF Evolves

LEMMA NameIs ==
  ASSUME NEW W, NEW W2, NEW p \in Peers, Evolves(W, W2, p), NEW j \in Slots, Live(W2.key[p][j])
  PROVE  /\ Name(W2, p, j) \in Names(p) /\ Name(W2, p, j) # NoSid
         /\ \A nm \in Names(Other(p)) : nm # Name(W2, p, j)
         /\ Known(W, p, Name(W2, p, j)) => \E i \in Slots : Heir(W, W2, p, i, j)
<1>1. SlotBounds(W2, p, j) /\ W2.n[p] \in Nat /\ W2.key[p][j].keyId \in 0..KeyIdMask
  BY UndefIs DEF Evolves, Succeeds, KeyGood, Shaped
<1>2. Name(W2, p, j) \in Names(p) BY <1>1 DEF Name, Names, SlotBounds
<1>3. \A nm \in Names(Other(p)) : nm # Name(W2, p, j) BY <1>2, PeersAre DEF Names
<1>4. Name(W2, p, j) # NoSid BY <1>2, NamesAre
<1>5. Known(W, p, Name(W2, p, j)) => \E i \in Slots : Heir(W, W2, p, i, j)
  BY UndefIs DEF Evolves, Succeeds, Newborn
<1> QED BY <1>2, <1>3, <1>4, <1>5

(* The letters of a good world are between known names. *)
LEMMA LettersKnown ==
  ASSUME NEW W, Good(W), NEW p \in Peers, NEW l \in Mail(W, p)
  PROVE  /\ LetterGood(W, p, l) /\ l.pid \in Nat
         /\ l.pid = 1 => Known(W, Other(p), l.body.from)
         /\ l.pid >= 2 => \A nm \in l.body.conn :
              nm # NoSid /\ \/ nm \in Names(p) /\ Known(W, p, nm)
                            \/ nm \in Names(Other(p)) /\ Known(W, Other(p), nm)
<1>1. LetterGood(W, p, l) BY DEF Good, PeerGood, MailGood
<1>2. ASSUME l.pid >= 2
      PROVE  \A nm \in l.body.conn :
               nm # NoSid /\ \/ nm \in Names(p) /\ Known(W, p, nm)
                             \/ nm \in Names(Other(p)) /\ Known(W, Other(p), nm)
  <2>1. PICK a \in Names(Other(p)), b \in Names(p) :
          l.body.conn = {a, b} /\ Known(W, Other(p), a) /\ Known(W, p, b)
    BY <1>1, <1>2 DEF LetterGood, Between, Known
  <2>2. a # NoSid /\ b # NoSid BY NamesAre
  <2> QED BY <2>1, <2>2
<1>3. l.pid \in Nat /\ (l.pid = 1 => Known(W, Other(p), l.body.from)) BY <1>1 DEF LetterGood
<1> QED BY <1>1, <1>2, <1>3

(* What has been said to or by a key came after its hello. *)
LEMMA HeardGrows ==
  ASSUME NEW W, NEW W2, Good(W), Wider(W, W2), NEW p \in Peers, Evolves(W, W2, p), Evolves(W, W2, Other(p)),
         NEW j \in Slots, Live(W2.key[p][j])
  PROVE  Heard(W2, p, j)
<1> DEFINE q == Other(p)
           nm == Name(W2, p, j)
           k2 == W2.key[p][j]
<1>1. q \in Peers /\ Other(q) = p BY PeersAre
<1>2. /\ nm \in Names(p) /\ nm # NoSid /\ \A o \in Names(q) : o # nm
      /\ Known(W, p, nm) => \E i \in Slots : Heir(W, W2, p, i, j)
  BY NameIs
<1>3. ASSUME NEW l \in Mail(W2, q), l.pid = 1, l.body.from = nm PROVE HelloSent(p, k2)
  <2>1. CASE Welcome(W2, p, l) BY <1>3, <2>1 DEF Welcome
  <2>2. CASE Carried(Mail(W, q), l)
    <3>1. PICK m \in Mail(W, q) : l.pid = m.pid /\ l.body = m.body BY <2>2 DEF Carried
    <3>2. Known(W, p, nm) BY <1>1, <1>3, <3>1, LettersKnown
    <3>3. PICK i \in Slots : Heir(W, W2, p, i, j) BY <1>2, <3>2
    <3>4. Heard(W, p, i) BY <3>3, LiveIsGood DEF Heir, SlotGood
    <3> QED BY <1>3, <3>1, <3>3, <3>4 DEF Heard, Heir, Grows
  <2> QED BY <2>1, <2>2 DEF Evolves
<1>4. ASSUME NEW l \in Mail(W2, p), l.pid >= 2, nm \in l.body.conn PROVE HelloSent(p, k2)
  <2>1. CASE Welcome(W2, q, l) BY <1>1, <1>4, <2>1 DEF Welcome
  <2>2. CASE Carried(Mail(W, p), l)
    <3>1. PICK m \in Mail(W, p) : l.pid = m.pid /\ l.body = m.body BY <2>2 DEF Carried
    <3>2. Known(W, p, nm) BY <1>1, <1>2, <1>4, <3>1, LettersKnown
    <3>3. PICK i \in Slots : Heir(W, W2, p, i, j) BY <1>2, <3>2
    <3>4. Heard(W, p, i) BY <3>3, LiveIsGood DEF Heir, SlotGood
    <3> QED BY <1>4, <3>1, <3>3, <3>4 DEF Heard, Heir, Grows
  <2> QED BY <1>1, <2>1, <2>2 DEF Evolves
<1>5. ASSUME NEW j2 \in Slots, W2.key[q][j2].tls.peer = nm PROVE HelloSent(p, k2)
  <2>1. PICK i2 \in Slots : Heir(W, W2, q, i2, j2)
    <3>1. W2.key[q][j2] # Undef /\ ~Newborn(W, W2, q, j2) BY <1>2, <1>5, UndefIs DEF Newborn, NewTls
    <3> QED BY <3>1 DEF Evolves, Succeeds
  <2>2. CASE W.key[q][i2].tls.peer = nm
    <3>1. Known(W, p, nm) BY <1>1, <1>2, <2>1, <2>2, LiveIsGood DEF Heir, SlotGood
    <3>2. PICK i \in Slots : Heir(W, W2, p, i, j) BY <1>2, <3>1
    <3>3. Heard(W, p, i) BY <3>2, LiveIsGood DEF Heir, SlotGood
    <3> QED BY <2>2, <3>2, <3>3 DEF Heard, Heir, Grows
  <2>3. ASSUME NEW l \in Mail(W, q), l.pid = 1, l.body.from = nm PROVE HelloSent(p, k2)
    <3>1. Known(W, p, nm) BY <1>1, <2>3, LettersKnown
    <3>2. PICK i \in Slots : Heir(W, W2, p, i, j) BY <1>2, <3>1
    <3>3. Heard(W, p, i) BY <3>2, LiveIsGood DEF Heir, SlotGood
    <3> QED BY <2>3, <3>2, <3>3 DEF Heard, Heir, Grows
  <2> QED BY <1>5, <2>1, <2>2, <2>3 DEF Heir
<1> QED BY <1>3, <1>4, <1>5 DEF Heard

(* Two keys that hear each other go on doing so. *)
LEMMA PairedGrows ==
  ASSUME NEW W, NEW W2, Good(W), Wider(W, W2), NEW p \in Peers, Evolves(W, W2, p), Evolves(W, W2, Other(p)),
         NEW j \in Slots, Live(W2.key[p][j])
  PROVE  Paired(W2, p, j)
<1> DEFINE q == Other(p)
           k2 == W2.key[p][j]
<1>1. q \in Peers /\ Other(q) = p BY PeersAre
<1> SUFFICES ASSUME NEW j2 \in Slots, HasText(p, k2), Live(W2.key[q][j2]), Name(W2, q, j2) = k2.tls.peer,
                    ~Paired(W2, p, j)
             PROVE  W2.key[q][j2].tls.peer = Name(W2, p, j) /\ W2.key[q][j2].next >= 3
  BY DEF Paired
<1>2. ~Newborn(W, W2, p, j) BY <1>1, NameIs DEF Newborn, NewTls
<1>3. PICK i \in Slots : Heir(W, W2, p, i, j) BY <1>2, UndefIs DEF Evolves, Succeeds
<1>4. HasText(p, W.key[p][i]) /\ SlotGood(W, p, i) BY <1>3, LiveIsGood DEF Heir
<1>5. W.key[p][i].tls.peer # NoSid /\ k2.tls.peer = W.key[p][i].tls.peer
  BY <1>3, <1>4, TextsHavePeer DEF SlotGood, Heir, Grows
<1>6. Known(W, q, Name(W2, q, j2)) BY <1>4, <1>5 DEF SlotGood
<1>7. PICK i2 \in Slots : Heir(W, W2, q, i2, j2) BY <1>1, <1>6, NameIs
<1>8. W.key[q][i2].tls.peer = Name(W, p, i) /\ W.key[q][i2].next >= 3
  BY Zenon, <1>3, <1>4, <1>5, <1>7 DEF SlotGood, Paired, Heir
<1>9. W.key[q][i2].tls.peer # NoSid BY <1>3, <1>8, NameIs DEF Heir
<1>10. W2.key[q][j2].tls.peer = Name(W2, p, j) BY <1>3, <1>7, <1>8, <1>9 DEF Heir, Grows
<1>11. W.key[q][i2].next \in Nat /\ W2.key[q][j2].next \in Nat
  BY Zenon, <1>1, <1>7, LiveIsGood, UndefIs DEF Heir, SlotGood, KeyGood, Shaped, Evolves, Succeeds
<1> QED BY <1>7, <1>8, <1>10, <1>11 DEF Heir, Grows

(* What is special about the server. *)
LEMMA ServerGrows ==
  ASSUME NEW W, NEW W2, Good(W), Wider(W, W2), Evolves(W, W2, Server), Evolves(W, W2, Client),
         NEW j \in Slots, Live(W2.key[Server][j])
  PROVE  ServerGood(W2, j)
<1> DEFINE k2 == W2.key[Server][j]
           nm == Name(W2, Server, j)
<1>1. Server \in Peers /\ Client \in Peers /\ Other(Server) = Client /\ Other(Client) = Server
  BY PeersAssumption DEF Peers, Other
<1>2. CASE Newborn(W, W2, Server, j)
  <2>1. ~HasText(Server, k2)
    BY <1>2, UndefIs DEF Newborn, HasText, Hand, DecryptKeyEnabled, NewTls, Undef, KeyState
  <2> QED BY <1>2, <2>1 DEF Newborn, ServerGood
<1>3. ASSUME NEW i \in Slots, Heir(W, W2, Server, i, j), ServesOn(W.key[Server][i], k2)
      PROVE  ServerGood(W2, j)
  <2> DEFINE k == W.key[Server][i]
  <2>1. SlotGood(W, Server, i) /\ ServerGood(W, i) BY <1>1, <1>3, LiveIsGood DEF Heir, SlotGood
  <2>2. KeyGood(Server, k, Name(W, Server, i), W.written[Server], W.written[Client]) /\ k2.keyId = k.keyId
    BY <1>1, <1>3, <2>1 DEF SlotGood, Heir, Name
  <2>3. HasText(Server, k2) => k2.tls.peer = <<k2.remote, k2.keyId>>
    BY Zenon, <1>3, <2>1, <2>2, TextsHavePeer DEF ServesOn, ServerGood, Heir, Grows
  <2>4. \A r \in k2.rec : r.pid >= 2 /\ nm \in r.body.conn => r.body.conn = {nm, <<k2.remote, k2.keyId>>}
    BY Zenon, <1>3, <2>1, <2>2 DEF ServesOn, ServerGood, Heir
  <2>5. ASSUME NEW j2 \in Slots, k2.next >= 3, 2 \notin Packets(k2), Live(W2.key[Client][j2]),
               Name(W2, Client, j2) = k2.tls.peer
        PROVE  2 \in Got(W2.key[Client][j2])
    <3>1. k.next >= 3 /\ 2 \notin Packets(k) BY <1>3, <2>5 DEF ServesOn
    <3>2. k.tls.peer # NoSid /\ k2.tls.peer = k.tls.peer BY <1>3, <2>2, <3>1, TextsHavePeer DEF Heir, Grows
    <3>3. Known(W, Client, Name(W2, Client, j2)) BY <1>1, <2>1, <2>5, <3>2 DEF SlotGood
    <3>4. PICK i2 \in Slots : Heir(W, W2, Client, i2, j2) BY <1>1, <2>5, <3>3, NameIs
    <3>5. 2 \in Got(W.key[Client][i2]) BY Zenon, <2>1, <2>5, <3>1, <3>2, <3>4 DEF ServerGood, Heir
    <3> QED BY <3>4, <3>5 DEF Heir, Grows
  <2> QED BY <2>3, <2>4, <2>5 DEF ServerGood
<1> QED BY <1>1, <1>2, <1>3, UndefIs DEF Evolves, Succeeds, Heir

(* The payloads that a peer takes, and those that it gives. *)
LEMMA ActiveGrows ==
  ASSUME NEW W, NEW W2, Good(W), Wider(W, W2), NEW p \in Peers, Evolves(W, W2, p), Evolves(W, W2, Other(p)),
         Live(W2.key[p][TM_ACTIVE])
  PROVE  ActiveGood(W2, p)
<1> SUFFICES ASSUME HoldsOn(W, W2, p) PROVE ActiveGood(W2, p) BY DEF Evolves
<1> DEFINE q == Other(p)
           k == W.key[p][TM_ACTIVE]
           k2 == W2.key[p][TM_ACTIVE]
           nm == Name(W2, p, TM_ACTIVE)
<1>1. q \in Peers /\ Other(q) = p /\ TM_ACTIVE \in Slots BY PeersAre DEF Slots
<1>2. /\ Live(k) /\ nm = Name(W, p, TM_ACTIVE) /\ Grows(p, k, k2) /\ W2.received[p] = W.received[p]
      /\ Numbers(Hand(k2)) \subseteq Numbers(Hand(k)) /\ (Rising(Hand(k)) => Rising(Hand(k2)))
  BY DEF HoldsOn, Heir
<1>3. ActiveGood(W, p) /\ SlotGood(W, p, TM_ACTIVE) BY <1>1, <1>2, LiveIsGood DEF Good, PeerGood
<1>4. Seen(W2, p) \subseteq Seen(W, p) BY <1>2 DEF Seen
<1>5. ASSUME NEW l \in Mail(W2, p), l.pid >= 3, nm \in l.body.conn
      PROVE  /\ l.body.conn = {nm, k2.tls.peer}
             /\ l.pid >= k2.recNext => \A n \in Seen(W2, p) : n < l.body.text[2]
  <2>1. CASE Welcome(W2, q, l) BY <1>1, <1>5, <2>1 DEF Welcome
  <2>2. CASE Carried(Mail(W, p), l)
    <3>1. PICK m \in Mail(W, p) : l.pid = m.pid /\ l.body = m.body BY <2>2 DEF Carried
    <3>2. /\ l.body.conn = {nm, k.tls.peer}
          /\ l.pid >= k.recNext => \A n \in Seen(W, p) : n < l.body.text[2]
      BY <1>2, <1>3, <1>5, <3>1 DEF ActiveGood
    <3>3. l.pid \in Nat /\ k.tls.peer # NoSid BY <1>5, <3>1, <3>2, LettersKnown
    <3>4. k.recNext \in Nat /\ k2.recNext \in Nat /\ k.recNext <= k2.recNext /\ k2.tls.peer = k.tls.peer
      BY Zenon, <1>1, <1>2, <1>3, <3>3, UndefIs DEF SlotGood, KeyGood, Shaped, Evolves, Succeeds, Grows
    <3>5. l.pid >= k2.recNext => l.pid >= k.recNext BY <3>3, <3>4
    <3> QED BY <1>4, <3>2, <3>4, <3>5
  <2> QED BY <1>1, <2>1, <2>2 DEF Evolves
<1>6. Rising(Hand(k2)) /\ \A m \in Numbers(W2.received[p]), n \in Numbers(Hand(k2)) : m < n
  BY <1>2, <1>3 DEF ActiveGood
<1> QED BY <1>5, <1>6 DEF ActiveGood

LEMMA BacklogGrows ==
  ASSUME NEW W, NEW W2, Good(W), Wider(W, W2), NEW p \in Peers, Evolves(W, W2, p), Evolves(W, W2, Other(p)),
         Live(W2.key[p][TM_ACTIVE])
  PROVE  BacklogGood(W2, p)
<1> SUFFICES ASSUME SendsOn(W, W2, p) PROVE BacklogGood(W2, p) BY DEF Evolves
<1> DEFINE q == Other(p)
           b == Backlog(W.key[p][TM_ACTIVE])
<1>1. q \in Peers /\ Other(q) = p BY PeersAre
<1>2. BacklogGood(W, p) /\ Backlog(W2.key[p][TM_ACTIVE]) = b BY DEF SendsOn, Good, PeerGood
<1>3. ASSUME NEW n \in Numbers(b), NEW m \in Seen(W2, q) PROVE m < n
  <2>1. m \in Seen(W, q) \/ \E l \in Mail(W, q) : l.pid >= 3 /\ l.body.text[2] = m BY <1>1 DEF Evolves
  <2> QED BY <1>2, <2>1 DEF BacklogGood
<1>4. ASSUME NEW n \in Numbers(b), NEW l \in Mail(W2, q), l.pid >= 3 PROVE l.body.text[2] < n
  <2>1. CASE Welcome(W2, p, l) BY <1>2, <1>4, <2>1 DEF Welcome
  <2>2. CASE Carried(Mail(W, q), l) BY <1>2, <1>4, <2>2 DEF BacklogGood, Carried
  <2> QED BY <2>1, <2>2 DEF Evolves
<1>5. Rising(b) BY <1>2 DEF BacklogGood
<1> QED BY <1>2, <1>3, <1>4, <1>5 DEF BacklogGood

LEMMA UntrustedGrows ==
  ASSUME NEW W, NEW W2, Good(W), Wider(W, W2), NEW p \in Peers, Evolves(W, W2, p), Evolves(W, W2, Other(p)),
         Live(W2.key[p][TM_UNTRUSTED])
  PROVE  UntrustedGood(W2, p)
<1> SUFFICES ASSUME WaitsOn(W, W2, p) PROVE UntrustedGood(W2, p) BY DEF Evolves
<1> DEFINE q == Other(p)
           k == W.key[p][TM_UNTRUSTED]
           k2 == W2.key[p][TM_UNTRUSTED]
           nm == Name(W2, p, TM_UNTRUSTED)
<1>1. q \in Peers /\ Other(q) = p BY PeersAre
<1>2. /\ Live(k) /\ nm = Name(W, p, TM_UNTRUSTED) /\ Numbers(Hand(k2)) \subseteq Numbers(Hand(k)) /\ Backlog(k2) = Backlog(k)
  BY DEF WaitsOn, Heir
<1>3. UntrustedGood(W, p) BY <1>2 DEF Good, PeerGood
<1>4. ASSUME NEW l \in Mail(W2, p), l.pid >= 3 PROVE nm \notin l.body.conn
  <2>1. CASE Welcome(W2, q, l) BY <1>1, <1>4, <2>1 DEF Welcome
  <2>2. CASE Carried(Mail(W, p), l) BY <1>2, <1>3, <1>4, <2>2 DEF UntrustedGood, Carried
  <2> QED BY <1>1, <2>1, <2>2 DEF Evolves
<1> QED BY <1>2, <1>3, <1>4 DEF UntrustedGood

(* A world that each peer lets go on stays good. *)
LEMMA GoodEvolves ==
  ASSUME NEW W, NEW W2, Good(W), Wider(W, W2), \A p \in Peers : Evolves(W, W2, p)
  PROVE  Good(W2)
<1> SUFFICES ASSUME NEW p \in Peers PROVE PeerGood(W2, p) BY DEF Good
<1> DEFINE q == Other(p)
<1>1. q \in Peers /\ Other(q) = p /\ Evolves(W, W2, p) /\ Evolves(W, W2, q) BY PeersAre
<1>2. ASSUME NEW j \in Slots, ~(W2.key[p][j] = Undef /\ W2.sid[p][j] = NoSid) PROVE SlotGood(W2, p, j)
  <2> DEFINE k2 == W2.key[p][j]
  <2>1. /\ KeyGood(p, k2, Name(W2, p, j), W2.written[p], W2.written[q]) /\ SlotBounds(W2, p, j) /\ Live(k2)
    <3>1. KeyGood(p, k2, Name(W2, p, j), W2.written[p], W2.written[q]) /\ SlotBounds(W2, p, j)
      BY <1>1, <1>2 DEF Evolves, Succeeds
    <3>2. k2.state \in S_INITIAL..S_NORMAL_OP BY <3>1 DEF KeyGood, Shaped
    <3> QED BY <3>1, <3>2 DEF Live
  <2>2. k2.tls.peer # NoSid => Known(W2, q, k2.tls.peer) BY <1>1, <2>1, PeerKnown
  <2>3. Mine(W2, p, j) /\ Heard(W2, p, j) /\ Paired(W2, p, j)
    BY <1>1, <2>1, MineGrows, HeardGrows, PairedGrows
  <2>4. p = Server => ServerGood(W2, j)
    <3>1. Client \in Peers /\ Server \in Peers BY DEF Peers
    <3> QED BY <2>1, <3>1, ServerGrows
  <2> QED BY <2>1, <2>2, <2>3, <2>4 DEF SlotGood, SlotBounds
<1>3. Live(W2.key[p][TM_ACTIVE]) => ActiveGood(W2, p) /\ BacklogGood(W2, p) BY <1>1, ActiveGrows, BacklogGrows
<1>4. Live(W2.key[p][TM_UNTRUSTED]) => UntrustedGood(W2, p) BY <1>1, UntrustedGrows
<1>5. MailGood(W2, p) BY <1>1, MailGrows
<1>6. /\ W2.n[p] \in Nat /\ W2.written[p] \in Nat /\ W2.received[p] \in Seq(Text)
      /\ Pays(W2.received[p], W2.written[q]) /\ Rising(W2.received[p])
      /\ Live(W2.key[p][TM_ACTIVE]) /\ Live(W2.key[p][TM_UNTRUSTED]) => W2.sid[p][TM_ACTIVE] # W2.sid[p][TM_UNTRUSTED]
  BY <1>1 DEF Evolves
<1> QED BY <1>2, <1>3, <1>4, <1>5, <1>6 DEF PeerGood

(* A good world stays good when each peer evolves, and when one key takes a quiet step. *)

(* Payloads that have been given stay genuine when more are given. *)
LEMMA KeyGoodWider ==
  ASSUME NEW p, NEW k, NEW nm, NEW w \in Nat, NEW v \in Nat, NEW w2 \in Nat, NEW v2 \in Nat, w <= w2, v <= v2,
         KeyGood(p, k, nm, w, v)
  PROVE  KeyGood(p, k, nm, w2, v2)
<1>1. \A t : (IsPay(t, w) => IsPay(t, w2)) /\ (IsPay(t, v) => IsPay(t, v2)) BY DEF IsPay
<1>2. Sends(p, k, nm, w2)
  <2>1. 1..w \subseteq 1..w2 OBVIOUS
  <2> QED BY <1>1, <2>1 DEF KeyGood, Sends, Pays
<1>3. Receives(p, k, v2) BY <1>1 DEF KeyGood, Receives, Pays, KeyThenPays
<1> QED BY <1>2, <1>3 DEF KeyGood

LEMMA SlotMoves ==
  ASSUME NEW W, NEW W2, Good(W), Wider(W, W2), NEW p \in Peers, NEW i \in Slots, NEW j \in Slots,
         W2.key[p][j] = W.key[p][i], W2.sid[p][j] = W.sid[p][i], W2.nk[p][j] = W.nk[p][i],
         W.n[p] <= W2.n[p], W2.n[p] \in Nat,
         W2.written[p] \in Nat, W2.written[Other(p)] \in Nat
  PROVE  /\ Succeeds(W, W2, p, j)
         /\ Live(W.key[p][i]) => Heir(W, W2, p, i, j)
<1>1. Other(p) \in Peers BY PeersAre
<1> DEFINE k == W.key[p][i]
<1>2. ASSUME Live(k) PROVE Heir(W, W2, p, i, j)
  <2>1. k.next \in Nat /\ k.recNext \in Nat BY <1>2, LiveIsGood DEF SlotGood, KeyGood, Shaped
  <2> QED BY <1>2, <2>1 DEF Heir, Grows, Name, ServesOn
<1>3. ASSUME ~(k = Undef /\ W.sid[p][i] = NoSid) PROVE Succeeds(W, W2, p, j)
  <2>1. SlotGood(W, p, i) BY <1>3 DEF Good, PeerGood
  <2>2. Live(k)
    <3>1. k.state \in S_INITIAL..S_NORMAL_OP BY <2>1 DEF SlotGood, KeyGood, Shaped
    <3> QED BY <3>1 DEF Live
  <2>3. KeyGood(p, k, Name(W2, p, j), W2.written[p], W2.written[Other(p)])
    <3>1. W.written[p] \in Nat /\ W.written[Other(p)] \in Nat /\ W.written[p] <= W2.written[p]
          /\ W.written[Other(p)] <= W2.written[Other(p)]
      BY <1>1 DEF Good, PeerGood, Wider
    <3>2. KeyGood(p, k, Name(W2, p, j), W.written[p], W.written[Other(p)]) BY <2>1 DEF SlotGood, Name
    <3> QED BY <3>1, <3>2, KeyGoodWider
  <2>4. SlotBounds(W2, p, j)
    <3>1. W.n[p] \in Nat BY DEF Good, PeerGood
    <3> QED BY <2>1, <3>1 DEF SlotGood, SlotBounds
  <2> QED BY <1>2, <2>2, <2>3, <2>4 DEF Succeeds
<1> QED BY <1>2, <1>3 DEF Succeeds

LEMMA SlotStays ==
  ASSUME NEW W, NEW W2, Good(W), Wider(W, W2), NEW p \in Peers, NEW j \in Slots,
         W2.key[p][j] = W.key[p][j], W2.sid[p][j] = W.sid[p][j], W2.nk[p][j] = W.nk[p][j], W2.n[p] = W.n[p],
         W2.written[p] \in Nat, W2.written[Other(p)] \in Nat
  PROVE  /\ Succeeds(W, W2, p, j)
         /\ Live(W.key[p][j]) => Heir(W, W2, p, j, j)
<1>1. W.n[p] \in Nat BY DEF Good, PeerGood
<1> QED BY <1>1, SlotMoves

(* A peer of which nothing changes. *)
LEMMA PeerStays ==
  ASSUME NEW W, NEW W2, Good(W), Wider(W, W2), NEW p \in Peers,
         \A j \in Slots : /\ W2.key[p][j] = W.key[p][j] /\ W2.sid[p][j] = W.sid[p][j]
                          /\ W2.nk[p][j] = W.nk[p][j],
         W2.n[p] = W.n[p], W2.received[p] = W.received[p],
         W2.written[p] \in Nat, W2.written[Other(p)] \in Nat,
         \A l \in Mail(W2, Other(p)) : Carried(Mail(W, Other(p)), l),
         W2.net[Other(p)] \subseteq W.net[Other(p)]
  PROVE  Evolves(W, W2, p)
<1> DEFINE q == Other(p)
<1>1. q \in Peers /\ Other(q) = p /\ PeerGood(W, p) /\ PeerGood(W, q) /\ {TM_ACTIVE, TM_UNTRUSTED} \subseteq Slots
  BY PeersAre DEF Good, Slots
<1>2. /\ W2.n[p] \in Nat /\ W2.received[p] \in Seq(Text) /\ Rising(W2.received[p]) BY <1>1 DEF PeerGood
<1>3. Pays(W2.received[p], W2.written[q])
  <2>1. W.written[q] \in Nat /\ W.written[q] <= W2.written[q] /\ Pays(W2.received[p], W.written[q])
    BY <1>1 DEF PeerGood, Wider
  <2> QED BY <2>1 DEF Pays, IsPay
<1>4. \A j \in Slots : Succeeds(W, W2, p, j) /\ (Live(W.key[p][j]) => Heir(W, W2, p, j, j)) BY SlotStays
<1>5. Seen(W2, p) = Seen(W, p) BY <1>1 DEF Seen
<1>6. Live(W2.key[p][TM_ACTIVE]) => HoldsOn(W, W2, p) /\ SendsOn(W, W2, p) BY <1>1, <1>4 DEF HoldsOn, SendsOn
<1>7. Live(W2.key[p][TM_UNTRUSTED]) => WaitsOn(W, W2, p) BY <1>1, <1>4 DEF WaitsOn
<1>8. Live(W2.key[p][TM_ACTIVE]) /\ Live(W2.key[p][TM_UNTRUSTED]) => W2.sid[p][TM_ACTIVE] # W2.sid[p][TM_UNTRUSTED]
  BY <1>1 DEF PeerGood
<1> QED BY <1>2, <1>3, <1>4, <1>5, <1>6, <1>7, <1>8 DEF Evolves

LEMMA OneSlotGood ==
  ASSUME NEW W, NEW W2, Good(W), NEW p \in Peers, NEW i \in Slots, OneSlot(W, W2, p, i),
         KeyGood(p, W2.key[p][i], Name(W, p, i), W.written[p], W.written[Other(p)]),
         Heir(W, W2, p, i, i),
         \A l \in Mail(W2, p) : Carried(Mail(W, p), l),
         \A l \in Mail(W2, Other(p)) : Carried(Mail(W, Other(p)), l) \/ Welcome(W2, p, l),
         \A m \in W2.net[Other(p)] : m \in W.net[Other(p)] \/ PacketGood(W2, Other(p), m),
         i = TM_ACTIVE => /\ ActiveGood(W2, p) \/ HoldsOn(W, W2, p)
                          /\ BacklogGood(W2, p) \/ SendsOn(W, W2, p)
                          /\ \A n \in Seen(W2, p) : n \in Seen(W, p) \/ \E l \in Mail(W, p) : l.pid >= 3 /\ l.body.text[2] = n,
         i = TM_UNTRUSTED => UntrustedGood(W2, p) \/ WaitsOn(W, W2, p)
  PROVE  Good(W2)
<1> DEFINE q == Other(p)
<1>1. q \in Peers /\ Other(q) = p /\ q # p /\ (\A a \in Peers : a = p \/ a = q) /\ {TM_ACTIVE, TM_UNTRUSTED} \subseteq Slots
  BY PeersAre DEF Slots
<1>2. PeerGood(W, p) /\ PeerGood(W, q) /\ W.written[p] \in Nat /\ W.written[q] \in Nat
  BY <1>1 DEF Good, PeerGood
<1>3. Wider(W, W2)
  <2>1. \A a \in Peers : W.written[a] \in Nat /\ W2.written[a] = W.written[a] BY DEF Good, PeerGood, OneSlot
  <2> QED BY <2>1 DEF Wider, Known, OneSlot
<1>4. Evolves(W, W2, q) BY <1>1, <1>2, <1>3, PeerStays DEF OneSlot
<1>5. Evolves(W, W2, p)
  <2>1. ASSUME NEW j \in Slots, j # i
        PROVE  Succeeds(W, W2, p, j) /\ (Live(W.key[p][j]) => Heir(W, W2, p, j, j)) /\ W2.key[p][j] = W.key[p][j]
    <3>1. W2.key[p][j] = W.key[p][j] /\ W2.sid[p][j] = W.sid[p][j] /\ W2.nk[p][j] = W.nk[p][j] /\ W2.n[p] = W.n[p]
          /\ W2.written[p] \in Nat /\ W2.written[q] \in Nat
      BY <1>2, <2>1 DEF OneSlot
    <3> QED BY <1>3, <3>1, SlotStays
  <2>2. Succeeds(W, W2, p, i)
    <3>1. SlotGood(W, p, i) /\ Name(W2, p, i) = Name(W, p, i) BY LiveIsGood DEF OneSlot, Name
    <3>2. SlotBounds(W2, p, i) BY <3>1 DEF OneSlot, SlotGood, SlotBounds
    <3> QED BY <3>1, <3>2 DEF OneSlot, Succeeds
  <2>3. /\ W2.n[p] \in Nat /\ W2.written[p] \in Nat /\ W2.received[p] \in Seq(Text)
        /\ Pays(W2.received[p], W2.written[q]) /\ Rising(W2.received[p])
    BY <1>2 DEF PeerGood, OneSlot
  <2>4. \A j \in Slots : Succeeds(W, W2, p, j) BY <2>1, <2>2
  <2>5. \A n \in Seen(W2, p) : n \in Seen(W, p) \/ \E l \in Mail(W, p) : l.pid >= 3 /\ l.body.text[2] = n
    <3>1. CASE i = TM_ACTIVE BY <3>1
    <3>2. CASE i # TM_ACTIVE
      <4>1. W2.key[p][TM_ACTIVE] = W.key[p][TM_ACTIVE] /\ W2.received[p] = W.received[p]
        BY <1>1, <2>1, <3>2 DEF OneSlot
      <4> QED BY <4>1 DEF Seen
    <3> QED BY <3>1, <3>2
  <2>6. Live(W2.key[p][TM_ACTIVE]) => /\ ActiveGood(W2, p) \/ HoldsOn(W, W2, p)
                                      /\ BacklogGood(W2, p) \/ SendsOn(W, W2, p)
    <3>1. CASE i = TM_ACTIVE BY <3>1
    <3>2. CASE i # TM_ACTIVE BY <1>1, <2>1, <3>2 DEF HoldsOn, SendsOn, OneSlot
    <3> QED BY <3>1, <3>2
  <2>7. Live(W2.key[p][TM_UNTRUSTED]) => UntrustedGood(W2, p) \/ WaitsOn(W, W2, p)
    <3>1. CASE i = TM_UNTRUSTED BY <3>1
    <3>2. CASE i # TM_UNTRUSTED BY <1>1, <2>1, <3>2 DEF WaitsOn
    <3> QED BY <3>1, <3>2
  <2>8. Live(W2.key[p][TM_ACTIVE]) /\ Live(W2.key[p][TM_UNTRUSTED]) => W2.sid[p][TM_ACTIVE] # W2.sid[p][TM_UNTRUSTED]
    <3>1. \A j \in Slots : Live(W2.key[p][j]) => Live(W.key[p][j]) BY <2>1 DEF OneSlot
    <3> QED BY <1>1, <1>2, <3>1 DEF PeerGood, OneSlot
  <2> QED BY <2>3, <2>4, <2>5, <2>6, <2>7, <2>8 DEF Evolves
<1> QED BY <1>1, <1>3, <1>4, <1>5, GoodEvolves

LEMMA MailIs ==
  ASSUME NEW W, NEW p
  PROVE  \A l : l \in Mail(W, p) <=> \/ l \in W.net[p]
                                     \/ \E j \in Slots : l \in W.key[Other(p)][j].unacked \/ l \in W.key[p][j].rec
BY DEF Mail, Slots

LEMMA NullWelcome ==
  ASSUME NEW W, NEW p, NEW l, l.pid = 0, l.body = Null
  PROVE  Welcome(W, p, l)
<1>1. LetterGood(W, Other(p), l) BY DEF LetterGood
<1>2. \A m : Numbered(l, m) /\ Numbered(m, l) BY DEF Numbered
<1> QED BY <1>1, <1>2 DEF Welcome

(* The letters of a quiet step. *)
LEMMA QuietMail ==
  ASSUME NEW W, NEW W2, Good(W), NEW p \in Peers, NEW i \in Slots, OneSlot(W, W2, p, i),
         W2.key[p][i].rec \subseteq W.key[p][i].rec,
         \A u \in W2.key[p][i].unacked : u \in W.key[p][i].unacked \/ (u.pid = 0 /\ u.body = Null),
         SendsOnly(W, W2, p, W.key[p][i])
  PROVE  /\ \A l \in Mail(W2, p) : Carried(Mail(W, p), l)
         /\ \A l \in Mail(W2, Other(p)) : Carried(Mail(W, Other(p)), l) \/ Welcome(W2, p, l)
         /\ \A m \in W2.net[Other(p)] : m \in W.net[Other(p)] \/ PacketGood(W2, Other(p), m)
<1> DEFINE q == Other(p)
<1>1. q \in Peers /\ Other(q) = p /\ q # p BY PeersAre
<1>2. \A j \in Slots : /\ W2.key[q][j] = W.key[q][j] /\ W2.key[p][j].rec \subseteq W.key[p][j].rec
                       /\ \A u \in W2.key[p][j].unacked : u \in W.key[p][j].unacked \/ (u.pid = 0 /\ u.body = Null)
  BY <1>1 DEF OneSlot
<1>3. ASSUME NEW l \in Mail(W2, p) PROVE Carried(Mail(W, p), l)
  <2>1. l \in Mail(W, p) BY <1>2, MailIs DEF OneSlot
  <2> QED BY <2>1 DEF Carried
<1>4. ASSUME NEW l \in Mail(W2, q) PROVE Carried(Mail(W, q), l) \/ Welcome(W2, p, l)
  <2>1. \/ l \in Mail(W, q) \/ (l.pid = 0 /\ l.body = Null)
        \/ \E u \in W.key[p][i].unacked : u.pid = l.pid /\ u.body = l.body
    <3>1. CASE l \in W2.net[q] BY <3>1, MailIs DEF SendsOnly
    <3>2. CASE \E j \in Slots : l \in W2.key[p][j].unacked \/ l \in W2.key[q][j].rec
      BY <1>1, <1>2, <3>2, MailIs
    <3> QED BY <1>1, <3>1, <3>2, MailIs
  <2>2. W.key[p][i].unacked \subseteq Mail(W, q) BY <1>1, MailIs
  <2> QED BY <2>1, <2>2, NullWelcome DEF Carried
<1> QED BY <1>3, <1>4 DEF SendsOnly

LEMMA QuietGood ==
  ASSUME NEW W, NEW W2, Good(W), NEW p \in Peers, NEW i \in Slots, OneSlot(W, W2, p, i),
         KeyGood(p, W2.key[p][i], Name(W, p, i), W.written[p], W.written[Other(p)]),
         Quietly(p, W.key[p][i], W2.key[p][i]),
         SendsOnly(W, W2, p, W.key[p][i])
  PROVE  Good(W2)
<1> DEFINE k == W.key[p][i]
           k2 == W2.key[p][i]
<1>1. Heir(W, W2, p, i, i)
  <2>1. k.rec \subseteq Mail(W, p) BY MailIs
  <2>2. k2.tls.peer = k.tls.peer \/ \E l \in Mail(W, p) : l.pid = 1 /\ l.body.from = k2.tls.peer
    BY <2>1 DEF Quietly
  <2>3. p = Server => ServesOn(k, k2) BY DEF Quietly, ServesOn
  <2> QED BY Zenon, <2>2, <2>3 DEF Heir, OneSlot, Quietly, Name
<1>2. i = TM_ACTIVE => HoldsOn(W, W2, p) /\ SendsOn(W, W2, p) /\ Seen(W2, p) \subseteq Seen(W, p)
  BY <1>1 DEF HoldsOn, SendsOn, Seen, Quietly, OneSlot
<1>3. i = TM_UNTRUSTED => WaitsOn(W, W2, p) BY <1>1 DEF WaitsOn, Quietly
<1> QED BY <1>1, <1>2, <1>3, OneSlotGood, QuietMail DEF Quietly

(* The steps of a key, one by one. *)

(* The steps of a key, one by one. *)
LEMMA KeyBegins ==
  ASSUME NEW p \in Peers, NEW k, NEW k2, NEW nm, NEW w, NEW v, KeyGood(p, k, nm, w, v), NEW op,
         Keeps(k, k2, {"state", "unacked", "due", "next", "negotiating", "young"}),
         k.state = S_INITIAL, k2.state = S_PRE_START, k2.next = k.next + 1,
         k2.unacked = k.unacked \cup {[pid |-> k.next, op |-> op, body |-> Null]}, k2.due = k.due \cup {k.next}
  PROVE  KeyGood(p, k2, nm, w, v) /\ Quietly(p, k, k2)
<1>1. k.next = 0 /\ ~HelloSent(p, k) /\ ~KeySent(p, k) /\ k.recNext = 0 /\ k.write = <<>> /\ k.tls.out = <<>>
  BY DEF KeyGood, Sends, Receives, KeySent
<1>2. k.unacked = {}
  <2>1. \A u \in k.unacked : u.pid \in 0..(0 - 1) BY <1>1 DEF KeyGood, Sends
  <2> QED BY <2>1
<1>3. /\ k2.keyId = k.keyId /\ k2.remote = k.remote /\ k2.addr = k.addr /\ k2.recNext = k.recNext /\ k2.rec = k.rec
      /\ k2.acks = k.acks /\ k2.tls = k.tls /\ k2.read = k.read /\ k2.write = k.write /\ k2.pay = k.pay
  BY DEF Keeps, KeyFields
<1>4. Shaped(k2)
  <2>1. k2.next = 1 /\ k2.state = 2 /\ KeyFields \subseteq DOMAIN k2 BY <1>1 DEF Keeps
  <2> QED BY <1>3, <2>1 DEF KeyGood, Shaped
<1>5. k2.unacked = {[pid |-> 0, op |-> op, body |-> Null]} /\ k2.next = 1 /\ Packets(k2) = {0} /\ Packets(k) = {}
  BY <1>1, <1>2 DEF Packets
<1>6. Sends(p, k2, nm, w)
  <2>1. k2.due \subseteq Packets(k2) BY <1>1, <1>5 DEF KeyGood, Sends
  <2>2. \A u \in k2.unacked : u.pid = 0 BY <1>5
  <2> QED BY <1>1, <1>3, <1>5, <2>1, <2>2 DEF KeyGood, Sends, HelloSent, KeySent
<1>7. Hand(k2) = Hand(k) /\ Got(k2) = Got(k) BY <1>3 DEF Hand, Got
<1>8. Receives(p, k2, v) BY <1>1, <1>3, <1>7 DEF KeyGood, Receives, HelloRead, DecryptKeyEnabled
<1>9. Quietly(p, k, k2)
  <2>1. \A u \in k2.unacked : u.pid = 0 /\ u.body = Null BY <1>5
  <2>2. HasText(p, k2) <=> HasText(p, k) BY <1>7 DEF HasText, DecryptKeyEnabled
  <2> QED BY <1>1, <1>3, <1>5, <1>7, <2>1, <2>2 DEF Quietly, Grows, HelloSent, Backlog
<1> QED BY <1>4, <1>6, <1>8, <1>9 DEF KeyGood

LEMMA KeyMoves ==
  ASSUME NEW p \in Peers, NEW k, NEW k2, NEW nm, NEW w, NEW v, KeyGood(p, k, nm, w, v),
         Keeps(k, k2, {"state", "negotiating", "young"}),
         (k.state >= S_ACTIVE /\ k2.state = S_NORMAL_OP) \/ (k.state = S_PRE_START /\ k2.state = S_START)
  PROVE  KeyGood(p, k2, nm, w, v) /\ Quietly(p, k, k2)
<1>1. /\ k2.keyId = k.keyId /\ k2.remote = k.remote /\ k2.addr = k.addr /\ k2.recNext = k.recNext /\ k2.rec = k.rec
      /\ k2.acks = k.acks /\ k2.tls = k.tls /\ k2.read = k.read /\ k2.write = k.write /\ k2.pay = k.pay
      /\ k2.next = k.next /\ k2.unacked = k.unacked /\ k2.due = k.due
  BY DEF Keeps, KeyFields
<1>2. Shaped(k2) BY <1>1 DEF KeyGood, Shaped, Keeps
<1>3. Hand(k2) = Hand(k) /\ Got(k2) = Got(k) /\ Packets(k2) = Packets(k) BY <1>1 DEF Hand, Got, Packets
<1>4. /\ k.state \in Int /\ k2.state \in Int /\ k.next \in Nat /\ k.recNext \in Nat
      /\ Sends(p, k, nm, w) /\ Receives(p, k, v)
  <2>1. Shaped(k) /\ Sends(p, k, nm, w) /\ Receives(p, k, v) BY DEF KeyGood
  <2>2. k.state \in S_INITIAL..S_NORMAL_OP /\ k2.state \in S_INITIAL..S_NORMAL_OP /\ k.next \in Nat /\ k.recNext \in Nat
    BY <1>2, <2>1 DEF Shaped
  <2> QED BY <2>1, <2>2
<1>5. /\ HelloSent(p, k2) <=> HelloSent(p, k)
      /\ HelloRead(p, k2) <=> HelloRead(p, k)
      /\ DecryptKeyEnabled(p, k2) <=> DecryptKeyEnabled(p, k)
      /\ KeySent(p, k2) <=> KeySent(p, k)
  BY <1>1, <1>4 DEF HelloSent, HelloRead, DecryptKeyEnabled, KeySent
<1>6. Backlog(k2) = Backlog(k) /\ (k2.state >= S_ACTIVE <=> k.state >= S_ACTIVE) BY <1>1, <1>4 DEF Backlog
<1>7. k.state # S_INITIAL /\ k2.state # S_INITIAL /\ (HelloSent(p, k) => k2.state >= S_START)
  BY <1>4 DEF Sends
<1>8. Sends(p, k2, nm, w) BY <1>1, <1>3, <1>4, <1>5, <1>6, <1>7 DEF Sends
<1>9. Receives(p, k2, v) BY <1>1, <1>3, <1>4, <1>5, <1>7 DEF Receives
<1>10. Quietly(p, k, k2) BY <1>1, <1>3, <1>4, <1>5, <1>6 DEF Quietly, Grows, HasText
<1> QED BY <1>2, <1>8, <1>9, <1>10 DEF KeyGood

\* What only has to do with when packets are sent, and the acknowledgements.
LEMMA KeyAcks ==
  ASSUME NEW p \in Peers, NEW k, NEW k2, NEW nm, NEW w, NEW v, KeyGood(p, k, nm, w, v),
         Keeps(k, k2, {"due", "acks", "addr"}), k2.due \subseteq Packets(k), k2.acks \subseteq k.acks,
         k.addr => k2.addr
  PROVE  KeyGood(p, k2, nm, w, v) /\ Quietly(p, k, k2)
<1>1. /\ k2.keyId = k.keyId /\ k2.remote = k.remote /\ k2.state = k.state /\ k2.recNext = k.recNext /\ k2.rec = k.rec
      /\ k2.tls = k.tls /\ k2.read = k.read /\ k2.write = k.write /\ k2.pay = k.pay
      /\ k2.next = k.next /\ k2.unacked = k.unacked
  BY DEF Keeps, KeyFields
<1>2. Shaped(k2) BY <1>1 DEF KeyGood, Shaped, Keeps
<1>3. Hand(k2) = Hand(k) /\ Got(k2) = Got(k) /\ Packets(k2) = Packets(k) BY <1>1 DEF Hand, Got, Packets
<1>4. Sends(p, k, nm, w) /\ Receives(p, k, v) BY DEF KeyGood
<1>5. /\ HelloSent(p, k2) <=> HelloSent(p, k)
      /\ HelloRead(p, k2) <=> HelloRead(p, k)
      /\ DecryptKeyEnabled(p, k2) <=> DecryptKeyEnabled(p, k)
      /\ KeySent(p, k2) <=> KeySent(p, k)
      /\ Backlog(k2) = Backlog(k)
  BY <1>1 DEF HelloSent, HelloRead, DecryptKeyEnabled, KeySent, Backlog
<1>6. Sends(p, k2, nm, w) BY <1>1, <1>3, <1>4, <1>5 DEF Sends
<1>7. Receives(p, k2, v) BY <1>1, <1>3, <1>4, <1>5 DEF Receives
<1>8. Quietly(p, k, k2) BY <1>1, <1>3, <1>5 DEF KeyGood, Shaped, Quietly, Grows, HasText
<1> QED BY <1>2, <1>6, <1>7, <1>8 DEF KeyGood

\* Its own key method message is ready to go; the key's state is further on.
LEMMA KeySends ==
  ASSUME NEW p \in Peers, NEW k, NEW k2, NEW nm, NEW w, NEW v, KeyGood(p, k, nm, w, v),
         Keeps(k, k2, {"state", "write", "key"}), k.state = (IF p = Server THEN S_GOT_KEY ELSE S_START),
         k2.state = S_SENT_KEY, NEW t \in Text, t[1] = "key", k2.write = <<t>>
  PROVE  KeyGood(p, k2, nm, w, v) /\ Quietly(p, k, k2)
<1>1. /\ k2.keyId = k.keyId /\ k2.remote = k.remote /\ k2.addr = k.addr /\ k2.recNext = k.recNext /\ k2.rec = k.rec
      /\ k2.acks = k.acks /\ k2.tls = k.tls /\ k2.read = k.read /\ k2.pay = k.pay
      /\ k2.next = k.next /\ k2.unacked = k.unacked /\ k2.due = k.due
  BY DEF Keeps, KeyFields
<1>2. Shaped(k2)
  <2>1. k2.write \in Seq(Text) OBVIOUS
  <2> QED BY <1>1, <2>1 DEF KeyGood, Shaped, Keeps
<1>3. Hand(k2) = Hand(k) /\ Got(k2) = Got(k) /\ Packets(k2) = Packets(k) BY <1>1 DEF Hand, Got, Packets
<1>4. ~KeySent(p, k) /\ KeySent(p, k2) /\ k.write = <<>> /\ k.tls.out = <<>> /\ k.next <= 2 /\ KeyText(k2.write)
  <2>1. ~KeySent(p, k) /\ KeySent(p, k2) BY PeersAssumption DEF KeySent, Peers
  <2>2. k2.write[1] = t /\ Len(k2.write) = 1 OBVIOUS
  <2> QED BY <2>1, <2>2 DEF KeyGood, Sends, KeyText
<1>5. Sends(p, k2, nm, w) BY <1>1, <1>3, <1>4 DEF KeyGood, Shaped, Sends, HelloSent
<1>6. DecryptKeyEnabled(p, k2) <=> DecryptKeyEnabled(p, k) BY DEF DecryptKeyEnabled
<1>7. Receives(p, k2, v) BY <1>1, <1>3, <1>6 DEF KeyGood, Shaped, Receives, HelloRead
<1>8. Quietly(p, k, k2) BY <1>1, <1>3, <1>6 DEF KeyGood, Shaped, Quietly, Grows, HelloSent, Backlog, HasText
<1> QED BY <1>2, <1>5, <1>7, <1>8 DEF KeyGood

\* The next text is ready to be read.
LEMMA KeyReads ==
  ASSUME NEW p \in Peers, NEW k, NEW k2, NEW nm, NEW w, NEW v, KeyGood(p, k, nm, w, v),
         Keeps(k, k2, {"read", "tls"}), KeepsTls(k.tls, k2.tls, {"in"}),
         k.read = <<>>, k.tls.in # <<>>, k2.read = <<Head(k.tls.in)>>, k2.tls.in = Tail(k.tls.in)
  PROVE  KeyGood(p, k2, nm, w, v) /\ Quietly(p, k, k2) /\ Len(k2.tls.in) < Len(k.tls.in)
<1>1. /\ k2.keyId = k.keyId /\ k2.remote = k.remote /\ k2.addr = k.addr /\ k2.recNext = k.recNext /\ k2.rec = k.rec
      /\ k2.acks = k.acks /\ k2.write = k.write /\ k2.pay = k.pay /\ k2.state = k.state
      /\ k2.next = k.next /\ k2.unacked = k.unacked /\ k2.due = k.due
  BY DEF Keeps, KeyFields
<1>2. k2.tls.phase = k.tls.phase /\ k2.tls.peer = k.tls.peer /\ k2.tls.out = k.tls.out
  BY DEF KeepsTls, TlsFields
<1>3. PICK b \in Seq(Text) : b = k.tls.in BY DEF KeyGood, Shaped
<1>4. /\ Head(b) \in Text /\ Tail(b) \in Seq(Text) /\ Len(Tail(b)) = Len(b) - 1 /\ Len(b) \in Nat
      /\ <<Head(b)>> \o Tail(b) = b
  <2>1. Head(b) \in Text /\ Tail(b) \in Seq(Text) /\ Len(Tail(b)) = Len(b) - 1 /\ Len(b) \in Nat /\ Head(b) = b[1]
        /\ \A i \in 1..Len(Tail(b)) : Tail(b)[i] = b[i + 1]
    BY <1>3, HeadTailProperties
  <2>2. <<Head(b)>> \in Seq(Text) /\ Len(<<Head(b)>>) = 1 /\ <<Head(b)>>[1] = Head(b) BY <2>1
  <2>3. PICK a \in Seq(Text) : a = <<Head(b)>> BY <2>2
  <2>4. a \o Tail(b) \in Seq(Text) /\ Len(a \o Tail(b)) = Len(a) + Len(Tail(b))
        /\ \A i \in 1..Len(a) + Len(Tail(b)) : (a \o Tail(b))[i] = IF i <= Len(a) THEN a[i] ELSE Tail(b)[i - Len(a)]
    BY <2>1, ConcatProperties
  <2>5. Len(a \o Tail(b)) = Len(b) /\ \A i \in 1..Len(b) : (a \o Tail(b))[i] = b[i] BY <2>1, <2>2, <2>3, <2>4
  <2>6. a \o Tail(b) = b BY <2>4, <2>5, SeqEqual
  <2> QED BY <2>1, <2>3, <2>6
<1>5. Hand(k2) = Hand(k)
  <2>1. Hand(k) = b BY <1>3, ConcatEmptySeq DEF Hand
  <2> QED BY <1>3, <1>4, <2>1 DEF Hand
<1>6. Shaped(k2)
  <2>1. k2.read \in Seq(Text) /\ k2.tls.in \in Seq(Text) BY <1>3, <1>4
  <2> QED BY <1>1, <1>2, <2>1 DEF KeyGood, Shaped, Keeps, KeepsTls
<1>7. Got(k2) = Got(k) /\ Packets(k2) = Packets(k) BY <1>1 DEF Got, Packets
<1>8. Sends(p, k2, nm, w) BY <1>1, <1>2, <1>7 DEF KeyGood, Shaped, Sends, HelloSent, KeySent
<1>9. Receives(p, k2, v)
  <2>1. Len(k2.read) = 1 BY <1>3, <1>4
  <2> QED BY <1>1, <1>2, <1>5, <1>7, <2>1 DEF KeyGood, Shaped, Receives, HelloRead, DecryptKeyEnabled
<1>10. Quietly(p, k, k2)
  BY <1>1, <1>2, <1>5, <1>7 DEF KeyGood, Shaped, Quietly, Grows, HelloSent, Backlog, HasText, DecryptKeyEnabled
<1> QED BY <1>3, <1>4, <1>6, <1>8, <1>9, <1>10 DEF KeyGood

\* The peer's key method message has been read.
LEMMA KeyHears ==
  ASSUME NEW p \in Peers, NEW k, NEW k2, NEW nm, NEW w, NEW v, KeyGood(p, k, nm, w, v),
         Keeps(k, k2, {"state", "read", "auth", "src", "key"}), k.state = (IF p = Server THEN S_START ELSE S_SENT_KEY),
         k2.state = S_GOT_KEY, k.read # <<>>, k.read[1][1] = "key", k2.read = <<>>
  PROVE  KeyGood(p, k2, nm, w, v) /\ Quietly(p, k, k2)
<1>1. /\ k2.keyId = k.keyId /\ k2.remote = k.remote /\ k2.addr = k.addr /\ k2.recNext = k.recNext /\ k2.rec = k.rec
      /\ k2.acks = k.acks /\ k2.tls = k.tls /\ k2.write = k.write /\ k2.pay = k.pay
      /\ k2.next = k.next /\ k2.unacked = k.unacked /\ k2.due = k.due
  BY DEF Keeps, KeyFields
<1>2. Shaped(k2) BY <1>1 DEF KeyGood, Shaped, Keeps
<1>3. Got(k2) = Got(k) /\ Packets(k2) = Packets(k) BY <1>1 DEF Got, Packets
<1>4. /\ k.read \in Seq(Text) /\ k.tls.in \in Seq(Text) /\ Len(k.read) <= 1 BY DEF KeyGood, Shaped, Receives
<1>5. /\ Hand(k) \in Seq(Text) /\ Hand(k) # <<>> /\ Hand(k)[1][1] = "key" /\ Tail(Hand(k)) = k.tls.in
  BY <1>4, HandIs
<1>6. Hand(k2) = Tail(Hand(k)) BY <1>1, <1>4, <1>5, ConcatEmptySeq DEF Hand
<1>7. ~DecryptKeyEnabled(p, k) /\ DecryptKeyEnabled(p, k2) BY DEF DecryptKeyEnabled
<1>8. k.recNext >= 3 /\ KeyThenPays(Hand(k), v) BY <1>5, <1>7 DEF KeyGood, Receives
<1>9. Pays(Hand(k2), v) /\ Numbers(Hand(k2)) \subseteq Numbers(Hand(k)) /\ (Rising(Hand(k)) => Rising(Hand(k2)))
  BY <1>5, <1>6, <1>8, TailOf
<1>10. KeySent(p, k2) <=> KeySent(p, k) BY DEF KeySent
<1>11. Sends(p, k2, nm, w) BY <1>1, <1>3, <1>10 DEF KeyGood, Shaped, Sends, HelloSent
<1>12. Receives(p, k2, v)
  <2>1. k2.read = <<>> /\ Len(k2.read) = 0 OBVIOUS
  <2> QED BY <1>1, <1>3, <1>7, <1>8, <1>9, <2>1 DEF KeyGood, Shaped, Receives, HelloRead
<1>13. Quietly(p, k, k2)
  BY <1>1, <1>3, <1>5, <1>9 DEF KeyGood, Shaped, Quietly, Grows, HelloSent, Backlog, HasText
<1> QED BY <1>2, <1>11, <1>12, <1>13 DEF KeyGood

\* A key that has both method messages, and all that it has sent acknowledged, takes the payloads that wait.
LEMMA KeyActivates ==
  ASSUME NEW p \in Peers, NEW k, NEW k2, NEW nm, NEW w, NEW v, KeyGood(p, k, nm, w, v), Flushed(p, k),
         Keeps(k, k2, {"state", "tls", "pay"}), KeepsTls(k.tls, k2.tls, {"out"}),
         k.state = (IF p = Server THEN S_SENT_KEY ELSE S_GOT_KEY), k2.state = S_ACTIVE,
         k.unacked = {}, k2.tls.out = k.tls.out \o Texts(k.pay), k2.pay = <<>>
  PROVE  KeyGood(p, k2, nm, w, v) /\ Quietly(p, k, k2)
<1>1. /\ k2.keyId = k.keyId /\ k2.remote = k.remote /\ k2.addr = k.addr /\ k2.recNext = k.recNext /\ k2.rec = k.rec
      /\ k2.acks = k.acks /\ k2.read = k.read /\ k2.write = k.write
      /\ k2.next = k.next /\ k2.unacked = k.unacked /\ k2.due = k.due
  BY DEF Keeps, KeyFields
<1>2. k2.tls.phase = k.tls.phase /\ k2.tls.peer = k.tls.peer /\ k2.tls.in = k.tls.in
  BY DEF KeepsTls, TlsFields
<1>3. DecryptKeyEnabled(p, k) /\ DecryptKeyEnabled(p, k2) /\ KeySent(p, k) /\ KeySent(p, k2)
  BY PeersAssumption DEF DecryptKeyEnabled, KeySent, Peers
<1>4. k.recNext >= 3 /\ k.tls.phase = "done" /\ k.next = 3 /\ k.tls.out = <<>> /\ k.write = <<>>
  <2>1. k.recNext >= 3 /\ k.tls.phase = "done" BY <1>3 DEF KeyGood, Receives
  <2>2. k.next >= 3 BY <1>3, <2>1 DEF Flushed
  <2> QED BY <2>1, <2>2 DEF KeyGood, Sends
<1>5. PICK t : t = Texts(k.pay) OBVIOUS
<1>6. /\ t \in Seq(Text) /\ \A i \in DOMAIN t : IsPay(t[i], w)
  <2>1. k.pay \in Seq(Nat) /\ \A i \in DOMAIN k.pay : k.pay[i] \in 1..w BY DEF KeyGood, Shaped, Sends
  <2>2. t \in Seq(Text) /\ DOMAIN t = DOMAIN k.pay /\ \A i \in DOMAIN k.pay : t[i] = <<"pay", k.pay[i]>>
    <3>1. DOMAIN Texts(k.pay) = DOMAIN k.pay BY DEF Texts
    <3> QED BY <1>5, <2>1, <3>1, TextsAre
  <2> QED BY <2>1, <2>2 DEF IsPay
<1>7. k2.tls.out = t BY <1>4, <1>5, <1>6, ConcatEmptySeq
<1>8. Shaped(k2)
  <2>1. k2.pay \in Seq(Nat) OBVIOUS
  <2> QED BY <1>1, <1>2, <1>6, <1>7, <2>1 DEF KeyGood, Shaped, Keeps, KeepsTls
<1>9. Hand(k2) = Hand(k) /\ Got(k2) = Got(k) /\ Packets(k2) = Packets(k) BY <1>1, <1>2 DEF Hand, Got, Packets
<1>10. Sends(p, k2, nm, w)
  <2>1. \A i \in DOMAIN k2.pay : k2.pay[i] \in 1..w OBVIOUS
  <2>2. Pays(k2.tls.out, w) BY <1>6, <1>7 DEF Pays
  <2> QED BY <1>1, <1>2, <1>3, <1>4, <1>9, <2>1, <2>2 DEF KeyGood, Shaped, Sends, HelloSent
<1>11. Receives(p, k2, v) BY <1>1, <1>2, <1>3, <1>9 DEF KeyGood, Shaped, Receives, HelloRead
<1>12. Quietly(p, k, k2)
  <2>1. Backlog(k2) = Backlog(k) BY <1>5, <1>7 DEF Backlog
  <2> QED BY <1>1, <1>2, <1>3, <1>9, <2>1 DEF KeyGood, Shaped, Quietly, Grows, HelloSent, HasText
<1> QED BY <1>8, <1>10, <1>11, <1>12 DEF KeyGood

\* The key method message goes into the TLS connection.
LEMMA KeyPasses ==
  ASSUME NEW p \in Peers, NEW k, NEW k2, NEW nm, NEW w, NEW v, KeyGood(p, k, nm, w, v),
         Keeps(k, k2, {"write", "tls"}), KeepsTls(k.tls, k2.tls, {"out"}), k.write # <<>>, k.tls.phase = "done",
         k2.tls.out = Append(k.tls.out, k.write[1]), k2.write = <<>>
  PROVE  KeyGood(p, k2, nm, w, v) /\ Quietly(p, k, k2)
<1>1. /\ k2.keyId = k.keyId /\ k2.remote = k.remote /\ k2.addr = k.addr /\ k2.recNext = k.recNext /\ k2.rec = k.rec
      /\ k2.acks = k.acks /\ k2.read = k.read /\ k2.pay = k.pay /\ k2.state = k.state
      /\ k2.next = k.next /\ k2.unacked = k.unacked /\ k2.due = k.due
  BY DEF Keeps, KeyFields
<1>2. k2.tls.phase = k.tls.phase /\ k2.tls.peer = k.tls.peer /\ k2.tls.in = k.tls.in
  BY DEF KeepsTls, TlsFields
<1>3. k.next = 2 /\ KeySent(p, k) /\ KeyText(k.write) /\ k.tls.out = <<>> /\ k.state < S_ACTIVE
  <2>1. KeySent(p, k) /\ ~(k.next >= 3) /\ HelloSent(p, k) BY DEF KeyGood, Sends, HelloSent
  <2>2. k.next = 2 BY <2>1 DEF KeyGood, Sends, Shaped
  <2>3. k.state < S_ACTIVE
    <3>1. ~(k.state >= S_ACTIVE) BY <2>1 DEF KeyGood, Sends
    <3> QED BY <3>1 DEF KeyGood, Shaped
  <2>4. \/ KeyText(k.write) /\ k.tls.out = <<>>
        \/ k.write = <<>>
    BY <2>1, <2>2 DEF KeyGood, Sends
  <2> QED BY <2>1, <2>2, <2>3, <2>4
<1>4. k.write[1] \in Text /\ k.write[1][1] = "key"
  <2>1. k.write \in Seq(Text) /\ Len(k.write) = 1 /\ k.write[1][1] = "key"
    BY <1>3 DEF KeyGood, Shaped, KeyText
  <2> QED BY <2>1, ElementOfSeq
<1>5. PICK t \in Text : t = k.write[1] BY <1>4
<1>6. k2.tls.out \in Seq(Text) /\ KeyText(k2.tls.out)
  <2>1. k2.tls.out = Append(<<>>, t) BY <1>3, <1>5
  <2>2. Append(<<>>, t) = <<t>> OBVIOUS
  <2>3. <<t>> \in Seq(Text) /\ Len(<<t>>) = 1 /\ <<t>>[1] = t OBVIOUS
  <2> QED BY <1>4, <1>5, <2>1, <2>2, <2>3 DEF KeyText
<1>7. Shaped(k2)
  <2>1. k2.write \in Seq(Text) OBVIOUS
  <2> QED BY <1>1, <1>2, <1>6, <2>1 DEF KeyGood, Shaped, Keeps, KeepsTls
<1>8. Hand(k2) = Hand(k) /\ Got(k2) = Got(k) /\ Packets(k2) = Packets(k) BY <1>1, <1>2 DEF Hand, Got, Packets
<1>9. Sends(p, k2, nm, w) BY <1>1, <1>2, <1>3, <1>6, <1>8 DEF KeyGood, Shaped, Sends, HelloSent, KeySent
<1>10. Receives(p, k2, v) BY <1>1, <1>2, <1>8 DEF KeyGood, Shaped, Receives, HelloRead, DecryptKeyEnabled
<1>11. Quietly(p, k, k2)
  BY <1>1, <1>2, <1>3, <1>8 DEF KeyGood, Shaped, Quietly, Grows, HelloSent, HasText, DecryptKeyEnabled, Backlog
<1> QED BY <1>7, <1>9, <1>10, <1>11 DEF KeyGood

LEMMA AdvancesOn ==
  ASSUME NEW p, NEW k, NEW k2, NEW r, NEW v, Shaped(k), Receives(p, k, v), Advances(k, k2, r),
         \A s \in k.rec : s.pid \in Nat
  PROVE  /\ Got(k) \subseteq Got(k2) /\ k2.recNext \in Nat /\ k2.rec \subseteq k.rec /\ k.rec # {}
         /\ k.remote # NoSid /\ k.addr
         /\ \A s \in k2.rec : s.pid >= k2.recNext /\ \A t \in k2.rec : t.pid = s.pid => t = s
<1>1. k.recNext \in Nat BY DEF Shaped
<1>2. Got(k) \subseteq Got(k2)
  <2>1. 0..(k.recNext - 1) \subseteq 0..k.recNext /\ k.recNext \in 0..k.recNext BY <1>1
  <2>2. 0..(k2.recNext - 1) = 0..k.recNext BY <1>1 DEF Advances
  <2>3. ASSUME NEW s \in k.rec PROVE s.pid \in 0..k.recNext \cup {t.pid : t \in k2.rec}
    BY <2>1, <2>3 DEF Advances
  <2> QED BY <2>1, <2>2, <2>3 DEF Got
<1>3. ASSUME NEW s \in k2.rec PROVE s.pid >= k2.recNext
  <2>1. s \in k.rec /\ s # r /\ r \in k.rec /\ r.pid = k.recNext BY DEF Advances
  <2>2. s.pid >= k.recNext /\ s.pid # k.recNext BY <2>1 DEF Receives
  <2>3. s.pid >= k.recNext + 1 BY <1>1, <2>1, <2>2
  <2> QED BY <2>2, <2>3, <1>1 DEF Advances
<1> QED BY <1>1, <1>2, <1>3 DEF Advances, Receives

\* A reset packet carries nothing.
LEMMA KeyFeeds ==
  ASSUME NEW p \in Peers, NEW k, NEW k2, NEW nm, NEW w, NEW v, KeyGood(p, k, nm, w, v), NEW r,
         Keeps(k, k2, {"rec", "recNext"}), Advances(k, k2, r), \A s \in k.rec : s.pid \in Nat,
         k.state # S_INITIAL, r.pid = 0
  PROVE  KeyGood(p, k2, nm, w, v) /\ Quietly(p, k, k2)
<1>1. /\ k2.keyId = k.keyId /\ k2.remote = k.remote /\ k2.addr = k.addr /\ k2.state = k.state
      /\ k2.acks = k.acks /\ k2.tls = k.tls /\ k2.read = k.read /\ k2.write = k.write /\ k2.pay = k.pay
      /\ k2.next = k.next /\ k2.unacked = k.unacked /\ k2.due = k.due
  BY DEF Keeps, KeyFields
<1>2. /\ Got(k) \subseteq Got(k2) /\ k2.recNext \in Nat /\ k2.rec \subseteq k.rec /\ k.rec # {}
      /\ k.remote # NoSid /\ k.addr
      /\ \A s \in k2.rec : s.pid >= k2.recNext /\ \A t \in k2.rec : t.pid = s.pid => t = s
  BY AdvancesOn DEF KeyGood
<1>3. k.recNext = 0 /\ k2.recNext = 1 BY DEF Advances
<1>4. Shaped(k2) BY <1>1, <1>2 DEF KeyGood, Shaped, Keeps
<1>5. Hand(k2) = Hand(k) /\ Packets(k2) = Packets(k) BY <1>1 DEF Hand, Packets
<1>6. Sends(p, k2, nm, w) BY <1>1, <1>5 DEF KeyGood, Shaped, Sends, HelloSent, KeySent
<1>7. Receives(p, k2, v) BY <1>1, <1>2, <1>3, <1>5 DEF KeyGood, Shaped, Receives, HelloRead, DecryptKeyEnabled
<1>8. Quietly(p, k, k2)
  BY <1>1, <1>2, <1>3, <1>5 DEF KeyGood, Shaped, Quietly, Grows, HelloSent, Backlog, HasText, DecryptKeyEnabled
<1> QED BY <1>4, <1>6, <1>7, <1>8 DEF KeyGood

\* The other end's hello, by which a TLS connection knows it.
LEMMA KeyGreets ==
  ASSUME NEW p \in Peers, NEW k, NEW k2, NEW nm, NEW w, NEW v, KeyGood(p, k, nm, w, v), NEW r,
         Keeps(k, k2, {"rec", "recNext", "tls"}), Advances(k, k2, r), \A s \in k.rec : s.pid \in Nat,
         KeepsTls(k.tls, k2.tls, {"phase", "peer"}), k.state # S_INITIAL, r.pid = 1,
         k.tls.phase = (IF p = Server THEN "start" ELSE "greeted"),
         k2.tls.phase = (IF p = Server THEN "greeted" ELSE "done"), k2.tls.peer = r.body.from, r.body.from # NoSid
  PROVE  KeyGood(p, k2, nm, w, v) /\ Quietly(p, k, k2)
<1>1. /\ k2.keyId = k.keyId /\ k2.remote = k.remote /\ k2.addr = k.addr /\ k2.state = k.state
      /\ k2.acks = k.acks /\ k2.read = k.read /\ k2.write = k.write /\ k2.pay = k.pay
      /\ k2.next = k.next /\ k2.unacked = k.unacked /\ k2.due = k.due
      /\ k2.tls.in = k.tls.in /\ k2.tls.out = k.tls.out
  BY DEF Keeps, KeyFields, KeepsTls, TlsFields
<1>2. /\ Got(k) \subseteq Got(k2) /\ k2.recNext \in Nat /\ k2.rec \subseteq k.rec /\ k.rec # {}
      /\ k.remote # NoSid /\ k.addr
      /\ \A s \in k2.rec : s.pid >= k2.recNext /\ \A t \in k2.rec : t.pid = s.pid => t = s
  BY AdvancesOn DEF KeyGood
<1>3. k.recNext = 1 /\ k2.recNext = 2 BY DEF Advances
<1>4. p = Client \/ p = Server BY DEF Peers
<1>5. /\ HelloSent(p, k2) <=> HelloSent(p, k)
      /\ ~HelloRead(p, k) /\ HelloRead(p, k2) /\ k.tls.phase # "done" /\ k.tls.peer = NoSid
  <2>1. /\ HelloSent(p, k2) <=> HelloSent(p, k)
        /\ ~HelloRead(p, k) /\ HelloRead(p, k2) /\ k.tls.phase # "done"
    BY <1>4, PeersAssumption DEF HelloSent, HelloRead
  <2> QED BY <2>1 DEF KeyGood, Receives
<1>6. Shaped(k2)
  <2>1. k2.tls.phase \in {"start", "greeted", "done"} OBVIOUS
  <2> QED BY <1>1, <1>2, <2>1 DEF KeyGood, Shaped, Keeps, KeepsTls
<1>7. Hand(k2) = Hand(k) /\ Packets(k2) = Packets(k) BY <1>1 DEF Hand, Packets
<1>8. k.next <= 2 /\ ~(k.next >= 3) BY <1>5 DEF KeyGood, Shaped, Sends
<1>9. Sends(p, k2, nm, w) BY <1>1, <1>5, <1>7, <1>8 DEF KeyGood, Shaped, Sends, KeySent
<1>10. Receives(p, k2, v) BY <1>1, <1>2, <1>3, <1>5, <1>7 DEF KeyGood, Shaped, Receives, DecryptKeyEnabled
<1>11. Quietly(p, k, k2)
  <2>1. Grows(p, k, k2) BY <1>1, <1>2, <1>3, <1>5, <1>7 DEF KeyGood, Shaped, Grows
  <2>2. r \in k.rec /\ r.pid = 1 /\ r.body.from = k2.tls.peer BY DEF Advances
  <2>3. /\ HasText(p, k2) <=> HasText(p, k)
        /\ Backlog(k2) = Backlog(k)
    BY <1>1, <1>7 DEF Backlog, HasText, DecryptKeyEnabled
  <2> QED BY <1>1, <1>2, <1>7, <1>8, <2>1, <2>2, <2>3 DEF Quietly
<1> QED BY <1>6, <1>9, <1>10, <1>11 DEF KeyGood

LEMMA AppendsToHand ==
  ASSUME NEW a \in Seq(Text), NEW b \in Seq(Text), NEW t \in Text
  PROVE  a \o Append(b, t) = Append(a \o b, t)
<1>1. /\ Append(b, t) \in Seq(Text) /\ Len(Append(b, t)) = Len(b) + 1 /\ Len(b) \in Nat /\ Len(a) \in Nat
      /\ \A i \in 1..Len(b) : Append(b, t)[i] = b[i]
      /\ Append(b, t)[Len(b) + 1] = t
  BY AppendProperties
<1> PICK c \in Seq(Text) : c = Append(b, t) BY <1>1
<1>2. /\ a \o c \in Seq(Text) /\ Len(a \o c) = Len(a) + Len(c)
      /\ \A i \in 1..Len(a) + Len(c) : (a \o c)[i] = IF i <= Len(a) THEN a[i] ELSE c[i - Len(a)]
  BY ConcatProperties
<1>3. /\ a \o b \in Seq(Text) /\ Len(a \o b) = Len(a) + Len(b)
      /\ \A i \in 1..Len(a) + Len(b) : (a \o b)[i] = IF i <= Len(a) THEN a[i] ELSE b[i - Len(a)]
  BY ConcatProperties
<1> PICK d \in Seq(Text) : d = a \o b BY <1>3
<1>4. /\ Append(d, t) \in Seq(Text) /\ Len(Append(d, t)) = Len(d) + 1
      /\ \A i \in 1..Len(d) : Append(d, t)[i] = d[i]
      /\ Append(d, t)[Len(d) + 1] = t
  BY AppendProperties
<1> PICK e \in Seq(Text) : e = Append(d, t) BY <1>4
<1> PICK f \in Seq(Text) : f = a \o c BY <1>2
<1>5. Len(e) = Len(a) + Len(b) + 1 /\ Len(f) = Len(e) BY <1>1, <1>2, <1>3, <1>4
<1>6. ASSUME NEW i \in 1..Len(f) PROVE f[i] = e[i]
  <2>1. CASE i <= Len(a) BY <1>1, <1>2, <1>3, <1>4, <1>5, <2>1
  <2>2. CASE i > Len(a) /\ i <= Len(a) + Len(b) BY <1>1, <1>2, <1>3, <1>4, <1>5, <2>2
  <2>3. CASE i = Len(a) + Len(b) + 1 BY <1>1, <1>2, <1>3, <1>4, <1>5, <2>3
  <2> QED BY <1>1, <1>5, <2>1, <2>2, <2>3
<1> QED BY <1>5, <1>6, SeqEqual

\* The next text arrives.
LEMMA KeyTakes ==
  ASSUME NEW p \in Peers, NEW k, NEW k2, NEW nm, NEW w, NEW v, KeyGood(p, k, nm, w, v), NEW r, NEW t \in Text,
         Keeps(k, k2, {"rec", "recNext", "tls"}), Advances(k, k2, r), \A s \in k.rec : s.pid \in Nat,
         KeepsTls(k.tls, k2.tls, {"in"}), k.state # S_INITIAL, r.pid >= 2,
         k.tls.phase = "done", k2.tls.in = Append(k.tls.in, t),
         r.pid = 2 => t[1] = "key", r.pid >= 3 => IsPay(t, v)
  PROVE  KeyGood(p, k2, nm, w, v) /\ Took(p, k, k2, t)
<1>1. /\ k2.keyId = k.keyId /\ k2.remote = k.remote /\ k2.addr = k.addr /\ k2.state = k.state
      /\ k2.acks = k.acks /\ k2.read = k.read /\ k2.write = k.write /\ k2.pay = k.pay
      /\ k2.next = k.next /\ k2.unacked = k.unacked /\ k2.due = k.due
      /\ k2.tls.phase = k.tls.phase /\ k2.tls.out = k.tls.out /\ k2.tls.peer = k.tls.peer
  BY DEF Keeps, KeyFields, KeepsTls, TlsFields
<1>2. /\ Got(k) \subseteq Got(k2) /\ k2.recNext \in Nat /\ k2.rec \subseteq k.rec /\ k.rec # {}
      /\ k.remote # NoSid /\ k.addr
      /\ \A s \in k2.rec : s.pid >= k2.recNext /\ \A u \in k2.rec : u.pid = s.pid => u = s
  BY AdvancesOn DEF KeyGood
<1>3. k.recNext = r.pid /\ k2.recNext = r.pid + 1 /\ r.pid \in Nat BY DEF Advances
<1>4. k.read \in Seq(Text) /\ k.tls.in \in Seq(Text) /\ Len(k.read) <= 1 BY DEF KeyGood, Shaped, Receives
<1>5. Hand(k) \in Seq(Text) /\ Hand(k2) = Append(Hand(k), t) /\ k2.tls.in \in Seq(Text)
  <2>1. Hand(k) \in Seq(Text) BY <1>4, HandIs
  <2>2. k2.tls.in \in Seq(Text) BY <1>4, AppendProperties
  <2>3. Hand(k2) = k.read \o Append(k.tls.in, t) BY <1>1 DEF Hand
  <2>4. k.read \o Append(k.tls.in, t) = Append(k.read \o k.tls.in, t) BY <1>4, AppendsToHand
  <2> QED BY <2>1, <2>2, <2>3, <2>4 DEF Hand
<1>6. Shaped(k2) BY <1>1, <1>2, <1>5 DEF KeyGood, Shaped, Keeps, KeepsTls
<1>7. Packets(k2) = Packets(k) BY <1>1 DEF Packets
<1>8. Sends(p, k2, nm, w) BY <1>1, <1>7 DEF KeyGood, Shaped, Sends, KeySent, HelloSent
<1>9. DecryptKeyEnabled(p, k2) = DecryptKeyEnabled(p, k) BY <1>1 DEF DecryptKeyEnabled
<1>10. HasText(p, k) <=> k.recNext >= 3 BY DEF HasText, KeyGood, Receives, KeyThenPays
<1>11. /\ DecryptKeyEnabled(p, k) => Pays(Hand(k2), v)
       /\ ~DecryptKeyEnabled(p, k) => KeyThenPays(Hand(k2), v)
  <2>1. CASE DecryptKeyEnabled(p, k)
    <3>1. k.recNext >= 3 /\ Pays(Hand(k), v) BY <2>1 DEF KeyGood, Receives
    <3>2. IsPay(t, v) BY <1>3, <3>1
    <3> QED BY <1>5, <2>1, <3>1, <3>2, AppendPays
  <2>2. CASE ~DecryptKeyEnabled(p, k) /\ k.recNext >= 3
    <3>1. KeyThenPays(Hand(k), v) /\ IsPay(t, v) BY <1>3, <2>2 DEF KeyGood, Receives
    <3> QED BY <1>5, <2>2, <3>1, AppendPays
  <2>3. CASE ~DecryptKeyEnabled(p, k) /\ ~(k.recNext >= 3)
    <3>1. Hand(k) = <<>> /\ t[1] = "key" BY <1>3, <2>3 DEF KeyGood, Receives
    <3>2. Append(<<>>, t) = <<t>> /\ <<t>> \in Seq(Text) /\ Len(<<t>>) = 1 /\ <<t>>[1] = t /\ <<t>> # <<>>
      OBVIOUS
    <3>3. Hand(k2) = <<t>> BY <1>5, <3>1, <3>2
    <3>4. KeyThenPays(Hand(k2), v) BY <3>1, <3>2, <3>3 DEF KeyThenPays
    <3> QED BY <2>3, <3>4
  <2> QED BY <2>1, <2>2, <2>3
<1>12. HelloRead(p, k2) /\ HelloRead(p, k) BY <1>1 DEF HelloRead
<1>13. Receives(p, k2, v) BY <1>1, <1>2, <1>3, <1>9, <1>11, <1>12 DEF KeyGood, Receives
<1>14. Grows(p, k, k2) BY <1>1, <1>2, <1>3 DEF KeyGood, Shaped, Grows, HelloSent
<1>15. Backlog(k2) = Backlog(k) BY <1>1 DEF Backlog
<1> QED BY <1>1, <1>2, <1>5, <1>6, <1>8, <1>9, <1>10, <1>13, <1>14, <1>15 DEF KeyGood, Took

(* A text is taken from a packet whose turn it is. *)

LEMMA SamePair ==
  ASSUME NEW a, NEW b, NEW c, {a, b} = {a, c}
  PROVE  b = c
OBVIOUS

LEMMA KeyTakesText ==
  ASSUME NEW p \in Peers, NEW k, NEW k2, NEW nm, NEW w, NEW v, KeyGood(p, k, nm, w, v), NEW r,
         TakesText(k, k2, r), \A s \in k.rec : s.pid \in Nat, r.pid >= 2,
         r.body.text \in Text, r.pid = 2 => r.body.text[1] = "key", r.pid >= 3 => IsPay(r.body.text, v)
  PROVE  KeyGood(p, k2, nm, w, v) /\ Took(p, k, k2, r.body.text)
<1> PICK t \in Text : t = r.body.text OBVIOUS
<1>1. /\ Keeps(k, k2, {"rec", "recNext", "tls"}) /\ Advances(k, k2, r) /\ KeepsTls(k.tls, k2.tls, {"in"})
      /\ k2.tls.in = Append(k.tls.in, t) /\ k.state # S_INITIAL /\ k.tls.phase = "done"
  BY DEF TakesText, Gains
<1>2. (r.pid = 2 => t[1] = "key") /\ (r.pid >= 3 => IsPay(t, v)) OBVIOUS
<1>3. KeyGood(p, k2, nm, w, v) /\ Took(p, k, k2, t) BY <1>1, <1>2, KeyTakes
<1> QED BY <1>3

(* A text is taken from a packet whose turn it is. *)
LEMMA TakeGood ==
  ASSUME NEW W, NEW W2, Good(W), NEW p \in Peers, NEW i \in Slots, OneSlot(W, W2, p, i),
         W2.net[Other(p)] \subseteq W.net[Other(p)], NEW r,
         TakesText(W.key[p][i], W2.key[p][i], r), NEW n \in Nat, n >= 2, r.pid = n,
         r.body.conn = {Name(W, p, i), W.key[p][i].tls.peer}
  PROVE  Good(W2)
<1> DEFINE k == W.key[p][i]
           k2 == W2.key[p][i]
           q == Other(p)
           nm == Name(W, p, i)
           t == r.body.text
<1>1. q \in Peers /\ Other(q) = p /\ q # p /\ PeerGood(W, p) /\ PeerGood(W, q) BY PeersAre DEF Good
<1>2. SlotGood(W, p, i) /\ Live(k) /\ Live(k2) /\ Name(W2, p, i) = nm BY LiveIsGood DEF OneSlot, Name
<1>3. r \in k.rec /\ r \in Mail(W, p) BY MailIs DEF TakesText, Advances
<1>4. LetterGood(W, p, r) /\ \A s \in k.rec : s.pid \in Nat
  <2>1. \A s \in k.rec : LetterGood(W, p, s) BY <1>1, MailIs DEF PeerGood, MailGood
  <2> QED BY <1>3, <2>1 DEF LetterGood
<1>5. t \in Text /\ (n = 2 => t[1] = "key") /\ (n >= 3 => IsPay(t, W.written[q])) BY <1>3, <1>4 DEF LetterGood
<1>6. /\ KeyGood(p, k2, nm, W.written[p], W.written[q]) /\ Grows(p, k, k2) /\ Backlog(k2) = Backlog(k)
      /\ Hand(k) \in Seq(Text) /\ Hand(k2) = Append(Hand(k), t) 
      /\ HasText(p, k) <=> k.recNext >= 3
      /\ k2.tls.peer = k.tls.peer /\ k2.remote = k.remote /\ k2.unacked = k.unacked /\ k2.next = k.next
      /\ k2.rec \subseteq k.rec /\ k2.tls.phase = k.tls.phase
  <2>1. KeyGood(p, k, nm, W.written[p], W.written[q]) BY <1>2 DEF SlotGood
  <2>3. /\ t \in Text /\ r.pid >= 2 /\ \A s \in k.rec : s.pid \in Nat
        /\ r.pid = 2 => t[1] = "key"
        /\ r.pid >= 3 => IsPay(t, W.written[q])
    BY <1>4, <1>5
  <2>4. TakesText(k, k2, r) OBVIOUS
  <2> HIDE DEF k, k2, nm, q, t
  <2>5. KeyGood(p, k2, nm, W.written[p], W.written[q]) /\ Took(p, k, k2, r.body.text)
    BY <2>1, <2>3, <2>4, KeyTakesText DEF t
  <2> USE DEF t
  <2> QED BY <2>5 DEF Took
<1>7. k2.keyId = k.keyId /\ n = k.recNext /\ k2.recNext = n + 1 BY DEF OneSlot, TakesText, Advances
<1>8. /\ \A l \in Mail(W2, p) : Carried(Mail(W, p), l)
      /\ \A l \in Mail(W2, q) : Carried(Mail(W, q), l) \/ Welcome(W2, p, l)
      /\ \A m \in W2.net[q] : m \in W.net[q] \/ PacketGood(W2, q, m)
  <2>1. SendsOnly(W, W2, p, k) BY DEF SendsOnly
  <2> QED BY <1>6, <2>1, QuietMail
<1>9. ASSUME n = 2 PROVE Paired(W2, p, i)
  <2> SUFFICES ASSUME NEW j \in Slots, Live(W2.key[q][j]), Name(W2, q, j) = k.tls.peer
               PROVE  W2.key[q][j].tls.peer = nm /\ W2.key[q][j].next >= 3
    BY <1>2, <1>6 DEF Paired
  <2>1. W2.key[q][j] = W.key[q][j] /\ Name(W, q, j) = k.tls.peer BY <1>1 DEF OneSlot, Name
  <2>2. SlotGood(W, q, j) BY <1>1, <2>1, LiveIsGood
  <2>3. n < W.key[q][j].next /\ r.body.conn = {k.tls.peer, W.key[q][j].tls.peer}
    BY <1>1, <1>3, <2>1, <2>2 DEF SlotGood, Mine
  <2>4. W.key[q][j].next \in Nat BY <2>2 DEF SlotGood, KeyGood, Shaped
  <2>5. {k.tls.peer, nm} = {k.tls.peer, W.key[q][j].tls.peer} BY <2>3
  <2>6. nm = W.key[q][j].tls.peer BY <2>5, SamePair
  <2>7. n < W.key[q][j].next BY <2>3
  <2>8. W.key[q][j].next >= 3 BY <1>9, <2>4, <2>7
  <2> QED BY <2>1, <2>6, <2>8
<1>10. ASSUME p = Server, n = 2 PROVE ServerGood(W2, i)
  <2>1. ServerGood(W, i) /\ q = Client BY <1>2, <1>10 DEF SlotGood, Other, Peers
  <2>2. k.tls.peer = <<k.remote, k.keyId>>
    <3>1. r.body.conn = {nm, <<k.remote, k.keyId>>} BY <1>3, <1>10, <2>1 DEF ServerGood
    <3>2. {nm, k.tls.peer} = {nm, <<k.remote, k.keyId>>} BY <3>1
    <3> HIDE DEF nm, k
    <3> QED BY <3>2, SamePair
  <2>3. \A j \in Slots : W2.key[Client][j] = W.key[Client][j] /\ Name(W2, Client, j) = Name(W, Client, j)
    BY <1>1, <2>1 DEF OneSlot, Name
  <2>4. \A s \in k2.rec : s.pid >= 2 /\ nm \in s.body.conn => s.body.conn = {nm, <<k2.remote, k2.keyId>>}
    BY Zenon, <1>6, <1>7, <1>10, <2>1 DEF ServerGood
  <2>5. \A j \in Slots : k2.next >= 3 /\ 2 \notin Packets(k2) /\ Live(W2.key[Client][j])
                         /\ Name(W2, Client, j) = k2.tls.peer => 2 \in Got(W2.key[Client][j])
    BY Zenon, <1>6, <1>10, <2>1, <2>3 DEF ServerGood, Packets
  <2> QED BY Zenon, <1>2, <1>6, <1>7, <1>10, <2>2, <2>4, <2>5 DEF ServerGood
<1>11. Heir(W, W2, p, i, i)
  <2>1. n >= 3 => HasText(p, k) BY <1>6, <1>7
  <2>2. n >= 3 /\ p = Server => ServesOn(k, k2) BY <1>6, <2>1 DEF ServesOn, Packets
  <2>3. n = 2 \/ n >= 3 OBVIOUS
  <2> QED BY <1>2, <1>6, <1>9, <1>10, <2>1, <2>2, <2>3 DEF Heir
<1>12. W2.received[p] = W.received[p] BY DEF OneSlot
<1>13. ASSUME i = TM_ACTIVE
       PROVE  /\ ActiveGood(W2, p) \/ HoldsOn(W, W2, p)
              /\ SendsOn(W, W2, p)
              /\ \A x \in Seen(W2, p) : x \in Seen(W, p) \/ \E l \in Mail(W, p) : l.pid >= 3 /\ l.body.text[2] = x
  <2>1. SendsOn(W, W2, p) BY <1>2, <1>6, <1>13 DEF SendsOn
  <2>2. CASE n = 2
    <3>1. Numbers(Hand(k2)) = Numbers(Hand(k)) /\ (Rising(Hand(k)) => Rising(Hand(k2)))
      BY <1>5, <1>6, <2>2, AppendNumbers
    <3> QED BY <1>11, <1>12, <1>13, <2>1, <3>1 DEF HoldsOn, Seen
  <2>3. CASE n >= 3
    <3>1. t[1] = "pay" BY <1>5, <2>3 DEF IsPay
    <3>2. ActiveGood(W, p) /\ nm = Name(W, p, TM_ACTIVE) BY <1>1, <1>2, <1>13 DEF PeerGood
    <3>3. \A x \in Seen(W, p) : x < t[2]
      <4>1. n >= k.recNext /\ nm \in r.body.conn BY <1>4, <1>7
      <4> QED BY <1>3, <1>13, <2>3, <3>2, <4>1 DEF ActiveGood
    <3>4. Numbers(Hand(k2)) = Numbers(Hand(k)) \cup {t[2]} BY <1>5, <1>6, <3>1, AppendNumbers
    <3>5. Rising(Hand(k2)) /\ \A m \in Numbers(W.received[p]), x \in Numbers(Hand(k2)) : m < x
      <4>1. Rising(Hand(k)) /\ \A m \in Numbers(W.received[p]), x \in Numbers(Hand(k)) : m < x
        BY <1>13, <3>2 DEF ActiveGood
      <4>2. \A x \in Numbers(Hand(k)) : x < t[2] BY <1>13, <3>3 DEF Seen
      <4>3. Rising(Hand(k2)) BY <1>5, <1>6, <3>1, <4>1, <4>2, AppendNumbers
      <4> QED BY <3>3, <3>4, <4>1, <4>3 DEF Seen
    <3>6. Seen(W2, p) = Seen(W, p) \cup {t[2]} BY <1>12, <1>13, <3>4 DEF Seen
    <3>7. ASSUME NEW l \in Mail(W2, p), l.pid >= 3, nm \in l.body.conn
          PROVE  /\ l.body.conn = {nm, k.tls.peer}
                 /\ l.pid >= k2.recNext => \A x \in Seen(W2, p) : x < l.body.text[2]
      <4>1. PICK m \in Mail(W, p) : m.pid = l.pid /\ m.body = l.body BY <1>8 DEF Carried
      <4>2. /\ l.body.conn = {nm, k.tls.peer}
            /\ l.pid >= k.recNext => \A x \in Seen(W, p) : x < l.body.text[2]
        BY <1>13, <3>2, <3>7, <4>1 DEF ActiveGood
      <4>3. l.pid \in Nat BY <1>1, <4>1 DEF PeerGood, MailGood, LetterGood
      <4>4. l.pid >= k2.recNext => t[2] < l.body.text[2]
        <5>1. Numbered(r, m) BY <1>1, <1>3, <4>1 DEF PeerGood, MailGood
        <5> QED BY <1>5, <1>7, <2>3, <4>1, <4>2, <4>3, <5>1 DEF Numbered
      <4> QED BY <1>5, <1>7, <3>6, <4>2, <4>3, <4>4
    <3>8. ActiveGood(W2, p) BY <1>2, <1>6, <1>12, <1>13, <3>5, <3>7 DEF ActiveGood
    <3> QED BY <1>3, <2>1, <2>3, <3>6, <3>8
  <2> QED BY <1>5, <2>2, <2>3
<1>14. ASSUME i = TM_UNTRUSTED PROVE WaitsOn(W, W2, p)
  <2>1. UntrustedGood(W, p) BY <1>1, <1>2, <1>14 DEF PeerGood
  <2>2. n = 2 BY <1>3, <1>5, <1>14, <2>1 DEF UntrustedGood
  <2>3. Numbers(Hand(k2)) = Numbers(Hand(k)) BY <1>5, <1>6, <2>2, AppendNumbers
  <2> QED BY <1>6, <1>11, <1>14, <2>3 DEF WaitsOn
<1> QED BY <1>6, <1>8, <1>11, <1>13, <1>14, OneSlotGood

(* A key writes a packet: its hello, its key method message, a payload. *)

(* The name of a live key is a known one, and its own. *)
LEMMA OwnName ==
  ASSUME NEW W, Good(W), NEW p \in Peers, NEW i \in Slots, Live(W.key[p][i])
  PROVE  /\ Name(W, p, i) \in Names(p) /\ Known(W, p, Name(W, p, i)) /\ Name(W, p, i) # NoSid
         /\ \A nm \in Names(Other(p)) : nm # Name(W, p, i)
         /\ \A j \in Slots : j # i /\ Live(W.key[p][j]) => Name(W, p, j) # Name(W, p, i)
<1>1. SlotGood(W, p, i) /\ W.n[p] \in Nat BY LiveIsGood DEF Good, PeerGood
<1>2. /\ W.sid[p][i] \in {p} \X (1..W.n[p]) /\ W.key[p][i].keyId < W.nk[p][i]
      /\ W.key[p][i].keyId \in 0..KeyIdMask
  BY <1>1 DEF SlotGood, KeyGood, Shaped
<1>3. Name(W, p, i) \in Names(p) BY <1>1, <1>2 DEF Name, Names
<1>4. \A nm \in Names(Other(p)) : nm # Name(W, p, i) BY <1>3, PeersAre DEF Names
<1>5. ASSUME NEW j \in Slots, j # i PROVE W.sid[p][j] # W.sid[p][i]
  <2>1. CASE Live(W.key[p][j]) BY <1>5, <2>1 DEF Good, PeerGood, Slots
  <2>2. CASE ~Live(W.key[p][j])
    <3>1. ~SlotGood(W, p, j)
      <4>1. SlotGood(W, p, j) => W.key[p][j].state \in S_INITIAL..S_NORMAL_OP BY DEF SlotGood, KeyGood, Shaped
      <4> QED BY <2>2, <4>1 DEF Live
    <3>2. W.sid[p][j] = NoSid BY <3>1 DEF Good, PeerGood
    <3>3. NoSid \notin {p} \X (1..W.n[p]) BY DEF NoSid
    <3> QED BY <1>2, <3>2, <3>3
  <2> QED BY <2>1, <2>2
<1>6. Known(W, p, Name(W, p, i))
  <2>1. Name(W, p, i)[1] = W.sid[p][i] /\ Name(W, p, i)[2] = W.key[p][i].keyId BY DEF Name
  <2>2. W.sid[p][i][2] <= W.n[p] BY <1>1, <1>2
  <2> QED BY <1>2, <1>3, <1>5, <2>1, <2>2 DEF Known
<1>7. \A j \in Slots : j # i /\ Live(W.key[p][j]) => Name(W, p, j) # Name(W, p, i) BY <1>5 DEF Name
<1> QED BY <1>3, <1>4, <1>6, <1>7, NamesAre

LEMMA KeyGreetsFirst ==
  ASSUME NEW p \in Peers, NEW k, NEW k2, NEW nm, NEW w, NEW v, KeyGood(p, k, nm, w, v), NEW u,
         GreetsFirst(p, k, k2, nm, u)
  PROVE  KeyGood(p, k2, nm, w, v) /\ Greeted(p, k, k2)
<1>0. /\ Keeps(k, k2, {"next", "unacked", "due", "tls"}) /\ KeepsTls(k.tls, k2.tls, {"phase"})
      /\ Wrote(p, k, k2, nm, k.next, u) /\ u.body.from = nm /\ k.state >= S_START
      /\ k.tls.phase = (IF p = Server THEN "greeted" ELSE "start")
      /\ k2.tls.phase = (IF p = Server THEN "done" ELSE "greeted")
  BY DEF GreetsFirst
<1>1. /\ k2.keyId = k.keyId /\ k2.remote = k.remote /\ k2.addr = k.addr /\ k2.state = k.state
      /\ k2.acks = k.acks /\ k2.read = k.read /\ k2.write = k.write /\ k2.pay = k.pay
      /\ k2.recNext = k.recNext /\ k2.rec = k.rec
      /\ k2.tls.in = k.tls.in /\ k2.tls.out = k.tls.out /\ k2.tls.peer = k.tls.peer
  BY <1>0 DEF Keeps, KeyFields, KeepsTls, TlsFields
<1>2. p = Client \/ p = Server BY DEF Peers
<1>3. /\ ~HelloSent(p, k) /\ HelloSent(p, k2)
      /\ HelloRead(p, k2) <=> HelloRead(p, k)
      /\ k.tls.phase # "done"
  BY <1>0, <1>2, PeersAssumption DEF HelloSent, HelloRead
<1>4. k.next = 1 /\ k.state \in Int /\ k.next \in Nat
  <2>1. k.state \in S_INITIAL..S_NORMAL_OP /\ k.next \in Nat BY DEF KeyGood, Shaped
  <2>2. k.next <= 1 BY <1>3 DEF KeyGood, Sends
  <2>3. k.next >= 1 BY <1>0, <2>1 DEF KeyGood, Sends
  <2> QED BY <2>1, <2>2, <2>3
<1>5. k2.next = 2 /\ u.pid = 1 /\ k2.unacked = k.unacked \cup {u} /\ k2.due = k.due \cup {1}
  BY <1>0, <1>4 DEF Wrote
<1>6. Packets(k2) = Packets(k) \cup {1} BY <1>5 DEF Packets
<1>7. Hand(k2) = Hand(k) /\ Got(k2) = Got(k) /\ Backlog(k2) = Backlog(k) BY <1>1 DEF Hand, Got, Backlog
<1>8. Shaped(k2)
  <2>1. k2.tls.phase \in {"start", "greeted", "done"} BY <1>0
  <2> QED BY <1>0, <1>1, <1>5, <2>1 DEF KeyGood, Shaped, Keeps, KeepsTls
<1>9. ~(k.state >= S_ACTIVE) BY <1>4 DEF KeyGood, Sends
<1>10. KeySent(p, k2) <=> KeySent(p, k) BY <1>1 DEF KeySent
<1>11. Sends(p, k2, nm, w)
  <2>1. \A x \in k2.unacked : /\ x.pid \in 0..1 /\ (x.pid = 1 => x.body.from = nm)
    <3>1. \A x \in k.unacked : x.pid \in 0..0 BY <1>4 DEF KeyGood, Sends
    <3> QED BY <1>0, <1>5, <3>1
  <2>2. k2.due \subseteq Packets(k2) BY <1>5, <1>6 DEF KeyGood, Sends
  <2>3. /\ KeySent(p, k) => KeyText(k.write) /\ k.tls.out = <<>>
        /\ ~KeySent(p, k) => k.write = <<>> /\ k.tls.out = <<>>
        /\ \A i \in DOMAIN k.pay : k.pay[i] \in 1..w
    BY <1>4 DEF KeyGood, Sends
  <2> QED BY <1>0, <1>1, <1>3, <1>4, <1>5, <1>9, <1>10, <2>1, <2>2, <2>3 DEF Sends
<1>12. DecryptKeyEnabled(p, k2) <=> DecryptKeyEnabled(p, k) BY <1>1 DEF DecryptKeyEnabled
<1>13. Receives(p, k2, v)
  <2>1. ~(k.recNext >= 3) BY <1>3 DEF KeyGood, Receives
  <2> QED BY <1>1, <1>3, <1>7, <1>12, <2>1 DEF KeyGood, Receives
<1>14. Grows(p, k, k2) BY <1>1, <1>3, <1>4, <1>5, <1>7 DEF KeyGood, Shaped, Grows
<1>15. HasText(p, k2) <=> HasText(p, k) BY <1>7, <1>12 DEF HasText
<1> QED BY <1>3, <1>4, <1>7, <1>8, <1>11, <1>13, <1>14, <1>15 DEF KeyGood, Greeted

LEMMA KeyPosts ==
  ASSUME NEW p \in Peers, NEW k, NEW k2, NEW nm, NEW w, NEW v, KeyGood(p, k, nm, w, v), NEW u, NEW t,
         Keeps(k, k2, {"next", "unacked", "due", "tls"}), KeepsTls(k.tls, k2.tls, {"out"}),
         Wrote(p, k, k2, nm, k.next, u), nm \in u.body.conn, k.tls.phase = "done", k.tls.out # <<>>,
         t = Head(k.tls.out), k2.tls.out = Tail(k.tls.out)
  PROVE  KeyGood(p, k2, nm, w, v) /\ Posted(p, k, k2, t, w)
<1>1. /\ k2.keyId = k.keyId /\ k2.remote = k.remote /\ k2.addr = k.addr /\ k2.state = k.state
      /\ k2.acks = k.acks /\ k2.read = k.read /\ k2.write = k.write /\ k2.pay = k.pay
      /\ k2.recNext = k.recNext /\ k2.rec = k.rec
      /\ k2.tls.in = k.tls.in /\ k2.tls.phase = k.tls.phase /\ k2.tls.peer = k.tls.peer
  BY DEF Keeps, KeyFields, KeepsTls, TlsFields
<1>2. /\ HelloSent(p, k) /\ HelloSent(p, k2)
      /\ HelloRead(p, k2) <=> HelloRead(p, k)
  BY <1>1 DEF HelloSent, HelloRead
<1>3. k.state \in S_INITIAL..S_NORMAL_OP /\ k.next \in Nat /\ k.next >= 2 /\ k.state >= S_START
  <2>1. k.next \in Nat /\ k.state \in S_INITIAL..S_NORMAL_OP BY DEF KeyGood, Shaped
  <2> QED BY <1>2, <2>1 DEF KeyGood, Sends
<1>4. PICK n \in Nat : n = k.next /\ n >= 2 BY <1>3
<1>5. k2.next = n + 1 /\ u.pid = n /\ k2.unacked = k.unacked \cup {u} /\ k2.due = k.due \cup {n}
  BY <1>4 DEF Wrote
<1>6. Packets(k2) = Packets(k) \cup {n} BY <1>5 DEF Packets
<1>7. Hand(k2) = Hand(k) /\ Got(k2) = Got(k) BY <1>1 DEF Hand, Got
<1>8. PICK b \in Seq(Text) : b = k.tls.out BY DEF KeyGood, Shaped
<1>9. /\ b # <<>> /\ t = b[1] /\ t \in Text /\ Tail(b) \in Seq(Text) /\ k2.tls.out = Tail(b) /\ Len(Tail(b)) = Len(b) - 1
  <2>1. b # <<>> /\ t = Head(b) /\ k2.tls.out = Tail(b) BY <1>8
  <2>2. Head(b) = b[1] /\ Head(b) \in Text /\ Tail(b) \in Seq(Text) /\ Len(Tail(b)) = Len(b) - 1
    BY <2>1, HeadTailProperties
  <2> QED BY <2>1, <2>2
<1>10. /\ KeySent(p, k2) <=> KeySent(p, k)
       /\ DecryptKeyEnabled(p, k2) <=> DecryptKeyEnabled(p, k)
  BY <1>1 DEF KeySent, DecryptKeyEnabled
<1>11. KeySent(p, k) BY <1>8, <1>9 DEF KeyGood, Sends
<1>12. n = 2 => t[1] = "key" /\ Tail(b) = <<>> /\ k.write = <<>> /\ ~(k.state >= S_ACTIVE)
  <2>1. ASSUME n = 2 PROVE KeyText(b) /\ k.write = <<>> /\ ~(k.state >= S_ACTIVE)
    BY <1>4, <1>8, <1>9, <1>11, <2>1 DEF KeyGood, Sends
  <2>2. ASSUME n = 2 PROVE Tail(b) = <<>>
    <3>1. Len(b) = 1 /\ Len(Tail(b)) = 0 BY <1>9, <2>1, <2>2 DEF KeyText
    <3> QED BY <1>9, <3>1, EmptySeq
  <2> QED BY <1>9, <2>1, <2>2 DEF KeyText
<1>13. n >= 3 => k.state >= S_ACTIVE /\ k.write = <<>> /\ Pays(b, w) /\ k.pay = <<>>
  BY <1>3, <1>4, <1>8, <1>9 DEF KeyGood, Sends
<1>14. n >= 3 => Pays(Tail(b), w) /\ IsPay(t, w)
  <2>1. ASSUME n >= 3 PROVE IsPay(t, w)
    <3>1. 1 \in DOMAIN b BY <1>9, SeqIs
    <3> QED BY <1>9, <1>13, <2>1, <3>1 DEF Pays
  <2> QED BY <1>9, <1>13, <2>1, TailOf
<1>15. Shaped(k2)
  <2>1. Shaped(k) /\ KeyFields \subseteq DOMAIN k2 /\ TlsFields \subseteq DOMAIN k2.tls
    BY DEF KeyGood, Keeps, KeepsTls
  <2>2. k2.next \in Nat BY <1>5
  <2>3. k2.tls.out \in Seq(Text) BY ONLY <1>9
  <2> QED BY <1>1, <2>1, <2>2, <2>3 DEF Shaped
<1>16. Sends(p, k2, nm, w)
  <2>1. \A x \in k2.unacked : /\ x.pid \in 0..(k2.next - 1) /\ (x.pid = 1 => x.body.from = nm)
                              /\ x.pid >= 2 => nm \in x.body.conn
    <3>1. \A x \in k.unacked : /\ x.pid \in 0..(n - 1) /\ (x.pid = 1 => x.body.from = nm)
                               /\ x.pid >= 2 => nm \in x.body.conn
      BY <1>4 DEF KeyGood, Sends
    <3>2. 0..(n - 1) \subseteq 0..n /\ n \in 0..n /\ k2.next - 1 = n BY <1>5
    <3>3. u.pid \in 0..n /\ u.pid # 1 /\ nm \in u.body.conn BY <1>4, <1>5, <3>2
    <3> QED BY <1>5, <3>1, <3>2, <3>3
  <2>2. k2.due \subseteq Packets(k2) BY <1>5, <1>6 DEF KeyGood, Sends
  <2>3. /\ \A i \in DOMAIN k.pay : k.pay[i] \in 1..w
        /\ k.state >= S_ACTIVE => k.pay = <<>> /\ (\A x \in k.unacked : x.pid >= 3) /\ k.next >= 3
    BY DEF KeyGood, Sends
  <2>4. k.state >= S_ACTIVE => \A x \in k2.unacked : x.pid >= 3 BY <1>4, <1>5, <2>3
  <2>5. n = 2 \/ n >= 3 BY <1>4
  <2>6. k2.write = <<>> /\ Pays(k2.tls.out, w) /\ k2.tls.phase = "done"
    <3>1. Pays(<<>>, w) BY DEF Pays
    <3> QED BY <1>1, <1>9, <1>12, <1>13, <1>14, <2>5, <3>1
  <2>7. k2.state < S_ACTIVE => k2.next = 3 /\ k2.tls.out = <<>>
    <3> SUFFICES ASSUME k2.state < S_ACTIVE PROVE k2.next = 3 /\ k2.tls.out = <<>> OBVIOUS
    <3>1. ~(k.state >= S_ACTIVE) BY <1>1, <1>3
    <3>2. n = 2 BY <1>13, <2>5, <3>1
    <3>3. k2.next = 3 BY <1>5, <3>2
    <3>4. Tail(b) = <<>> BY <1>12, <3>2
    <3> QED BY <1>9, <3>3, <3>4, Zenon
  <2>8. k2.state >= S_ACTIVE => k2.pay = <<>> /\ \A x \in k2.unacked : x.pid >= 3 BY <1>1, <2>3, <2>4
  <2>9. k2.state \in Int /\ k2.state >= S_START /\ k2.next >= 3 /\ k2.next \in Nat BY <1>1, <1>3, <1>4, <1>5
  <2>10. \A i \in DOMAIN k2.pay : k2.pay[i] \in 1..w BY <1>1, <2>3
  <2> QED BY <1>2, <1>10, <1>11, <2>1, <2>2, <2>6, <2>7, <2>8, <2>9, <2>10 DEF Sends
<1>17. Receives(p, k2, v) BY <1>1, <1>2, <1>7, <1>10 DEF KeyGood, Receives
<1>18. Grows(p, k, k2) BY <1>1, <1>2, <1>4, <1>5, <1>7 DEF KeyGood, Shaped, Grows
<1>19. /\ HasText(p, k2) <=> HasText(p, k)
       /\ n >= 3 => DecryptKeyEnabled(p, k)
  BY <1>3, <1>7, <1>10, <1>13 DEF HasText, DecryptKeyEnabled
<1>20. /\ n = 2 => Backlog(k2) = Backlog(k)
       /\ n >= 3 => Backlog(k2) = Tail(b) /\ Backlog(k) = b
  BY <1>1, <1>8, <1>9, <1>12, <1>13 DEF Backlog
<1>21. Posted(p, k, k2, t, w)
  BY <1>1, <1>4, <1>5, <1>7, <1>9, <1>12, <1>13, <1>14, <1>18, <1>19, <1>20 DEF Posted
<1> QED BY <1>15, <1>16, <1>17, <1>21 DEF KeyGood

(* One letter more. *)
LEMMA OneLetter ==
  ASSUME NEW W, NEW W2, Good(W), NEW p \in Peers, NEW i \in Slots, OneSlot(W, W2, p, i),
         W2.net[Other(p)] \subseteq W.net[Other(p)], W2.key[p][i].rec \subseteq W.key[p][i].rec,
         NEW u, W2.key[p][i].unacked = W.key[p][i].unacked \cup {u}
  PROVE  /\ \A l \in Mail(W2, p) : Carried(Mail(W, p), l)
         /\ \A l \in Mail(W2, Other(p)) : l \in Mail(W, Other(p)) \/ l = u
         /\ \A l \in Mail(W, Other(p)) : Carried(Mail(W, Other(p)), l)
<1> DEFINE q == Other(p)
<1>1. q \in Peers /\ Other(q) = p /\ q # p BY PeersAre
<1>2. \A j \in Slots : /\ W2.key[q][j] = W.key[q][j] /\ W2.key[p][j].rec \subseteq W.key[p][j].rec
                       /\ \A l \in W2.key[p][j].unacked : l \in W.key[p][j].unacked \/ l = u
  BY <1>1 DEF OneSlot
<1>3. ASSUME NEW l \in Mail(W2, p) PROVE Carried(Mail(W, p), l)
  <2>1. l \in Mail(W, p) BY <1>2, MailIs DEF OneSlot
  <2> QED BY <2>1 DEF Carried
<1>4. ASSUME NEW l \in Mail(W2, q) PROVE l \in Mail(W, q) \/ l = u BY <1>1, <1>2, MailIs
<1> QED BY <1>3, <1>4 DEF Carried

LEMMA GreetGood ==
  ASSUME NEW W, NEW W2, Good(W), NEW p \in Peers, NEW i \in Slots, OneSlot(W, W2, p, i),
         W2.net[Other(p)] \subseteq W.net[Other(p)], NEW u,
         GreetsFirst(p, W.key[p][i], W2.key[p][i], Name(W, p, i), u)
  PROVE  Good(W2)
<1> DEFINE k == W.key[p][i]
           k2 == W2.key[p][i]
           q == Other(p)
           nm == Name(W, p, i)
<1>1. q \in Peers /\ Other(q) = p /\ q # p /\ PeerGood(W, p) /\ PeerGood(W, q) BY PeersAre DEF Good
<1>2. /\ SlotGood(W, p, i) /\ Live(k) /\ Live(k2)
      /\ \A a \in Peers, j \in Slots : Name(W2, a, j) = Name(W, a, j)
  BY LiveIsGood DEF OneSlot, Name
<1>3. /\ KeyGood(p, k2, nm, W.written[p], W.written[q]) /\ k.next = 1 /\ HelloSent(p, k2)
      /\ Grows(p, k, k2) /\ Backlog(k2) = Backlog(k) /\ Hand(k2) = Hand(k)
      /\ HasText(p, k2) <=> HasText(p, k)
  <2>1. KeyGood(p, k, nm, W.written[p], W.written[q]) /\ GreetsFirst(p, k, k2, nm, u) BY <1>2 DEF SlotGood
  <2> HIDE DEF k, k2, nm, q
  <2> QED BY <2>1, KeyGreetsFirst DEF Greeted
<1>4. /\ u.pid = 1 /\ u.body # Null /\ u.body.kind = "hello" /\ u.body.from = nm
      /\ k2.unacked = k.unacked \cup {u} /\ k2.next = 2
      /\ k2.remote = k.remote /\ k2.rec = k.rec /\ k2.tls.peer = k.tls.peer
  <2>1. GreetsFirst(p, k, k2, nm, u) /\ k.next = 1 BY <1>3
  <2> HIDE DEF k, k2, nm
  <2> QED BY <2>1 DEF GreetsFirst, Wrote, Keeps, KeepsTls, KeyFields, TlsFields
<1>5. /\ \A l \in Mail(W2, p) : Carried(Mail(W, p), l)
      /\ \A l \in Mail(W2, q) : l \in Mail(W, q) \/ l = u
      /\ \A l \in Mail(W, q) : Carried(Mail(W, q), l)
  <2>1. W2.net[q] \subseteq W.net[q] /\ W2.key[p][i].rec \subseteq W.key[p][i].rec
        /\ W2.key[p][i].unacked = W.key[p][i].unacked \cup {u}
    BY <1>4
  <2> HIDE DEF k, k2, nm
  <2> QED BY <2>1, OneLetter
<1>6. Welcome(W2, p, u)
  <2>1. LetterGood(W2, q, u)
    <3>1. Known(W2, p, nm) BY <1>2, OwnName DEF Known, OneSlot
    <3> QED BY <1>1, <1>4, <3>1 DEF LetterGood
  <2>2. \A m : Numbered(u, m) /\ Numbered(m, u) BY <1>4 DEF Numbered
  <2>3. \A j \in Slots : Live(W2.key[p][j]) /\ u.body.from = Name(W2, p, j) => HelloSent(p, W2.key[p][j])
    <3> SUFFICES ASSUME NEW j \in Slots, Live(W2.key[p][j]), nm = Name(W, p, j) PROVE j = i
      BY <1>2, <1>3, <1>4
    <3> SUFFICES ASSUME j # i PROVE FALSE OBVIOUS
    <3>1. W2.key[p][j] = W.key[p][j] BY DEF OneSlot
    <3> QED BY <1>2, <3>1, OwnName
  <2> QED BY <1>1, <1>4, <2>1, <2>2, <2>3 DEF Welcome
<1>7. Heir(W, W2, p, i, i)
  <2>1. p = Server => ServesOn(k, k2) BY <1>3, <1>4 DEF ServesOn
  <2> QED BY <1>2, <1>3, <1>4, <2>1 DEF Heir
<1>8. i = TM_ACTIVE => HoldsOn(W, W2, p) /\ SendsOn(W, W2, p) /\ Seen(W2, p) = Seen(W, p)
  BY <1>2, <1>3, <1>7 DEF HoldsOn, SendsOn, Seen, OneSlot
<1>9. i = TM_UNTRUSTED => WaitsOn(W, W2, p) BY <1>3, <1>7 DEF WaitsOn
<1> QED BY <1>3, <1>5, <1>6, <1>7, <1>8, <1>9, OneSlotGood

LEMMA KeyPosted ==
  ASSUME NEW p \in Peers, NEW k, NEW k2, NEW nm, NEW w, NEW v, KeyGood(p, k, nm, w, v), NEW u,
         Posts(p, k, k2, nm, u)
  PROVE  KeyGood(p, k2, nm, w, v) /\ Posted(p, k, k2, u.body.text, w)
<1> PICK t : t = u.body.text OBVIOUS
<1>1. /\ Keeps(k, k2, {"next", "unacked", "due", "tls"}) /\ KeepsTls(k.tls, k2.tls, {"out"})
      /\ Wrote(p, k, k2, nm, k.next, u) /\ nm \in u.body.conn
      /\ k.tls.phase = "done" /\ k.tls.out # <<>> /\ t = Head(k.tls.out) /\ k2.tls.out = Tail(k.tls.out)
  BY DEF Posts
<1>2. KeyGood(p, k2, nm, w, v) /\ Posted(p, k, k2, t, w) BY <1>1, KeyPosts
<1> QED BY <1>2

(* Payloads are only sent to a key that is active there: the sender has all it has sent acknowledged, *)
(* or has read what the other end sends last.                                                         *)
LEMMA PaysGoToActive ==
  ASSUME NEW W, Good(W), NEW p \in Peers, NEW i \in Slots, Resting(W, Other(p)), Live(W.key[p][i]),
         Live(W.key[Other(p)][TM_UNTRUSTED]), W.key[p][i].state >= S_ACTIVE
  PROVE  Name(W, Other(p), TM_UNTRUSTED) # W.key[p][i].tls.peer
<1> DEFINE k == W.key[p][i]
           q == Other(p)
           l == W.key[q][TM_UNTRUSTED]
<1>1. q \in Peers /\ SlotGood(W, p, i) /\ SlotGood(W, q, TM_UNTRUSTED) /\ Other(q) = p
  BY PeersAre, LiveIsGood DEF Slots
<1> SUFFICES ASSUME Name(W, q, TM_UNTRUSTED) = k.tls.peer PROVE FALSE OBVIOUS
<1>2. DecryptKeyEnabled(p, k) /\ HasText(p, k)
  <2>1. k.state \in S_INITIAL..S_NORMAL_OP BY <1>1 DEF SlotGood, KeyGood, Shaped
  <2> QED BY <2>1 DEF DecryptKeyEnabled, HasText
<1>3. l.tls.peer = Name(W, p, i) /\ l.next >= 3 BY <1>1, <1>2 DEF SlotGood, Paired, Slots
<1>4. l.recNext <= 2 /\ InOrder(l) = {} /\ ~DecryptKeyEnabled(q, l) BY DEF Resting
<1>5. KeyGood(q, l, Name(W, q, TM_UNTRUSTED), W.written[q], W.written[p]) BY <1>1 DEF SlotGood
<1>6. CASE p = Client
  <2>1. q = Server BY <1>6 DEF Other
  <2>2. KeySent(q, l)
    <3>1. ~(l.next <= 2) BY <1>3, <1>5 DEF KeyGood, Shaped
    <3> QED BY <1>5, <3>1 DEF KeyGood, Sends
  <2>3. DecryptKeyEnabled(q, l) BY <2>1, <2>2 DEF DecryptKeyEnabled, KeySent
  <2> QED BY <1>4, <2>3
<1>7. CASE p = Server
  <2>1. q = Client /\ ServerGood(W, i) BY <1>1, <1>7, PeersAssumption DEF Other, SlotGood
  <2>2. k.next >= 3 /\ 2 \notin Packets(k)
    <3>1. KeyGood(p, k, Name(W, p, i), W.written[p], W.written[q]) BY <1>1 DEF SlotGood
    <3>2. k.next >= 3 /\ \A u \in k.unacked : u.pid >= 3 BY <3>1 DEF KeyGood, Sends
    <3> QED BY <3>2 DEF Packets
  <2>3. 2 \in Got(l) BY <1>7, <2>1, <2>2 DEF ServerGood, Slots
  <2>4. l.recNext = 2
    <3>1. l.tls.peer # NoSid BY <1>1, <1>3, OwnName
    <3>2. l.recNext >= 2 /\ l.recNext \in Nat BY <1>5, <3>1 DEF KeyGood, Receives, Shaped
    <3> QED BY <1>4, <3>2
  <2>5. 2 \notin 0..(l.recNext - 1) BY <2>4
  <2>6. \E r \in l.rec : r.pid = 2 BY <2>3, <2>5 DEF Got
  <2> QED BY <1>4, <2>4, <2>6 DEF InOrder
<1> QED BY <1>6, <1>7 DEF Peers

(* A text is sent.  Payloads only go to a key that is active at the other end. *)

(* A text is sent. *)
LEMMA PostGood ==
  ASSUME NEW W, NEW W2, Good(W), NEW p \in Peers, NEW i \in Slots, OneSlot(W, W2, p, i),
         W2.net[Other(p)] \subseteq W.net[Other(p)], NEW u, Resting(W, Other(p)),
         Posts(p, W.key[p][i], W2.key[p][i], Name(W, p, i), u)
  PROVE  Good(W2)
<1> DEFINE k == W.key[p][i]
           k2 == W2.key[p][i]
           q == Other(p)
           nm == Name(W, p, i)
           t == u.body.text
           peer == k.tls.peer
<1>1. q \in Peers /\ Other(q) = p /\ q # p /\ PeerGood(W, p) /\ PeerGood(W, q) BY PeersAre DEF Good
<1>2. /\ SlotGood(W, p, i) /\ Live(k) /\ Live(k2)
      /\ \A a \in Peers, j \in Slots : Name(W2, a, j) = Name(W, a, j)
      /\ KeyGood(p, k, nm, W.written[p], W.written[q])
  BY LiveIsGood DEF OneSlot, Name, SlotGood
<1>3. KeyGood(p, k2, nm, W.written[p], W.written[q]) /\ Posted(p, k, k2, t, W.written[p])
  <2>1. KeyGood(p, k, nm, W.written[p], W.written[q]) /\ Posts(p, k, k2, nm, u) BY <1>2
  <2> HIDE DEF k, k2, nm, q
  <2> QED BY <2>1, KeyPosted
<1>4. PICK n \in Nat : n = k.next BY <1>2 DEF KeyGood, Shaped
<1>5. /\ n >= 2 /\ u.pid = n /\ u.body # Null /\ u.body.kind = "record" /\ u.body.conn = {nm, peer}
      /\ k2.unacked = k.unacked \cup {u} /\ k2.next = n + 1 /\ k2.tls.phase = "done" /\ k2.tls.peer = peer
      /\ k.tls.phase = "done" /\ k2.remote = k.remote /\ k2.rec = k.rec /\ t \in Text
  <2>1. Posts(p, k, k2, nm, u) /\ k.next = n /\ Posted(p, k, k2, t, W.written[p]) BY <1>3, <1>4
  <2> HIDE DEF k, k2, nm
  <2> QED BY <2>1 DEF Posts, Posted, Wrote
<1>6. /\ Grows(p, k, k2) /\ Hand(k2) = Hand(k)
      /\ HasText(p, k2) <=> HasText(p, k)
      /\ n = 2 => t[1] = "key" /\ Backlog(k2) = Backlog(k)
      /\ n >= 3 => /\ k.state >= S_ACTIVE /\ IsPay(t, W.written[p]) /\ DecryptKeyEnabled(p, k)
                   /\ Backlog(k) \in Seq(Text) /\ Backlog(k) # <<>> /\ Backlog(k)[1] = t
                   /\ Backlog(k2) = Tail(Backlog(k))
  <2>1. k.next = n /\ Posted(p, k, k2, t, W.written[p]) BY <1>3, <1>4
  <2> HIDE DEF k, k2, nm
  <2> QED BY <2>1 DEF Posted
<1>7. Known(W, q, peer) /\ peer \in Names(q)
  <2>1. HelloRead(p, k) BY <1>5 DEF HelloRead
  <2> QED BY Zenon, <1>2, <2>1 DEF SlotGood, KeyGood, Receives, Known
<1>8. /\ \A l \in Mail(W2, p) : Carried(Mail(W, p), l)
      /\ \A l \in Mail(W2, q) : l \in Mail(W, q) \/ l = u
      /\ \A l \in Mail(W, q) : Carried(Mail(W, q), l)
  <2>1. k2.unacked = k.unacked \cup {u} /\ k2.rec = k.rec BY <1>5
  <2> QED BY <2>1, OneLetter
<1>9. ASSUME n >= 3
      PROVE  /\ i = TM_ACTIVE /\ t[1] = "pay" /\ t[2] \in Numbers(Backlog(k))
             /\ BacklogGood(W, p)
             /\ Numbers(Backlog(k2)) \subseteq Numbers(Backlog(k)) /\ Rising(Backlog(k2))
             /\ \A x \in Numbers(Backlog(k2)) : t[2] < x
  <2>1. i = TM_ACTIVE
    <3> SUFFICES ASSUME i = TM_UNTRUSTED PROVE FALSE BY DEF Slots
    <3> QED BY <1>1, <1>2, <1>6, <1>9 DEF PeerGood, UntrustedGood
  <2>2. BacklogGood(W, p) /\ Rising(Backlog(k)) BY <1>1, <1>2, <2>1 DEF PeerGood, BacklogGood
  <2>3. t[1] = "pay" BY <1>6, <1>9 DEF IsPay
  <2>4. PICK b \in Seq(Text) : b = Backlog(k) /\ b # <<>> /\ b[1] = t /\ Backlog(k2) = Tail(b) /\ Rising(b)
    BY <1>6, <1>9, <2>2
  <2>5. t[2] \in Numbers(b) /\ Numbers(Tail(b)) \subseteq Numbers(b) /\ Rising(Tail(b)) /\ \A x \in Numbers(Tail(b)) : t[2] < x
    BY <2>3, <2>4, TailOf
  <2> QED BY <2>1, <2>2, <2>3, <2>4, <2>5
<1>10. ASSUME NEW j \in Slots, Live(W.key[p][j])
       PROVE  Name(W, p, j) \in u.body.conn => j = i
  <2>1. Name(W, p, j) # peer BY <1>7, <1>10, OwnName
  <2> QED BY <1>2, <1>5, <1>10, <2>1, OwnName
<1>11. ASSUME NEW j \in Slots, Live(W.key[q][j])
       PROVE  Name(W, q, j) \in u.body.conn => Name(W, q, j) = peer
  <2>1. Name(W, q, j) \in Names(q) /\ nm \in Names(p) BY <1>1, <1>2, <1>11, OwnName
  <2>2. Name(W, q, j) # nm BY <1>1, <1>2, <1>11, <2>1, OwnName
  <2> QED BY <1>5, <2>2
<1>12. \A j \in Slots : W2.key[q][j] = W.key[q][j] BY <1>1 DEF OneSlot
<1>13. Seen(W2, q) = Seen(W, q) /\ W2.received = W.received /\ W2.written = W.written
  BY <1>12 DEF Seen, OneSlot, Slots
<1>14. LetterGood(W2, q, u)
  <2>1. Between(W2, q, u.body.conn)
    <3>1. Known(W2, p, nm) /\ Known(W2, q, peer) /\ nm \in Names(p) BY <1>2, <1>7, OwnName DEF Known, OneSlot
    <3> QED BY <1>1, <1>5, <1>7, <3>1 DEF Between
  <2>2. n # 0 /\ n # 1 BY <1>5
  <2> QED BY <1>1, <1>5, <1>6, <1>13, <2>1, <2>2 DEF LetterGood
<1>15. ASSUME NEW m \in Mail(W2, q) PROVE Numbered(u, m) /\ Numbered(m, u)
  <2>1. CASE m = u BY <1>5, <2>1 DEF Numbered
  <2>2. CASE m \in Mail(W, q)
    <3> SUFFICES ASSUME m.pid >= 2, m.body.conn = u.body.conn
                 PROVE  m.pid # n /\ ~(n < m.pid) /\ (m.pid >= 3 /\ m.pid < n => m.body.text[2] < t[2])
      BY <1>5 DEF Numbered
    <3>1. m.pid < k.next /\ m.pid \in Nat
      <4>1. nm \in m.body.conn BY <1>5
      <4>2. LetterGood(W, q, m) BY <1>1, <2>2 DEF PeerGood, MailGood
      <4> QED BY <1>2, <2>2, <4>1, <4>2 DEF SlotGood, Mine, LetterGood
    <3>2. m.pid < n BY <1>4, <3>1
    <3>3. ASSUME m.pid >= 3 PROVE m.body.text[2] < t[2]
      <4>1. n >= 3 BY <3>1, <3>2, <3>3
      <4> QED BY <1>9, <2>2, <3>3, <4>1 DEF BacklogGood
    <3> QED BY <3>1, <3>2, <3>3
  <2> QED BY <1>8, <2>1, <2>2
<1>16. ASSUME NEW j \in Slots, Live(W2.key[p][j]), Name(W2, p, j) \in u.body.conn
       PROVE  n < W2.key[p][j].next /\ W2.key[p][j].tls.phase = "done" /\ u.body.conn = {Name(W2, p, j), W2.key[p][j].tls.peer}
  <2>1. j = i
    <3>1. Live(W.key[p][j]) BY <1>16 DEF OneSlot
    <3> QED BY <1>2, <1>10, <1>16, <3>1
  <2>2. n < n + 1 OBVIOUS
  <2> QED BY <1>2, <1>5, <2>1, <2>2
<1>17. ASSUME NEW j \in Slots, Live(W2.key[q][j]), Name(W2, q, j) \in u.body.conn
       PROVE  HelloSent(q, W2.key[q][j])
  <2>1. peer = Name(W, q, j) /\ Live(W.key[q][j]) BY <1>1, <1>2, <1>11, <1>12, <1>17
  <2>2. SlotGood(W, q, j) BY <1>1, <2>1, LiveIsGood
  <2> QED BY <1>1, <1>12, <2>1, <2>2 DEF SlotGood, Heard
<1>18. ASSUME n >= 3
       PROVE  /\ Live(W2.key[q][TM_UNTRUSTED]) => Name(W2, q, TM_UNTRUSTED) \notin u.body.conn
              /\ Live(W2.key[q][TM_ACTIVE]) /\ Name(W2, q, TM_ACTIVE) \in u.body.conn =>
                   /\ u.body.conn = {Name(W2, q, TM_ACTIVE), W2.key[q][TM_ACTIVE].tls.peer}
                   /\ \A x \in Seen(W2, q) : x < t[2]
              /\ \A x \in Numbers(Backlog(W2.key[p][TM_ACTIVE])) : t[2] < x
  <2>0. TM_UNTRUSTED \in Slots /\ TM_ACTIVE \in Slots BY DEF Slots
  <2>1. ASSUME Live(W2.key[q][TM_UNTRUSTED]) PROVE Name(W2, q, TM_UNTRUSTED) \notin u.body.conn
    <3>1. Live(W.key[q][TM_UNTRUSTED]) /\ Name(W2, q, TM_UNTRUSTED) = Name(W, q, TM_UNTRUSTED)
      BY <1>1, <1>2, <1>12, <2>0, <2>1
    <3>2. Name(W, q, TM_UNTRUSTED) # peer BY <1>2, <1>6, <1>18, <3>1, PaysGoToActive
    <3> QED BY <1>11, <2>0, <3>1, <3>2
  <2>2. ASSUME Live(W2.key[q][TM_ACTIVE]), Name(W2, q, TM_ACTIVE) \in u.body.conn
        PROVE  u.body.conn = {Name(W2, q, TM_ACTIVE), W2.key[q][TM_ACTIVE].tls.peer}
    <3>1. Live(W.key[q][TM_ACTIVE]) /\ Name(W2, q, TM_ACTIVE) = peer /\ Name(W, q, TM_ACTIVE) = peer
      BY <1>1, <1>2, <1>11, <1>12, <2>0, <2>2
    <3>2. HasText(p, k) BY <1>6, <1>18 DEF HasText
    <3>3. W.key[q][TM_ACTIVE].tls.peer = nm BY <1>2, <2>0, <3>1, <3>2 DEF SlotGood, Paired
    <3> QED BY <1>5, <1>12, <2>0, <3>1, <3>3
  <2>3. \A x \in Seen(W2, q) : x < t[2] BY <1>9, <1>13, <1>18 DEF BacklogGood
  <2>4. \A x \in Numbers(Backlog(W2.key[p][TM_ACTIVE])) : t[2] < x BY <1>9, <1>18
  <2> QED BY <2>1, <2>2, <2>3, <2>4
<1>19. Welcome(W2, p, u)
  <2>1. n >= 2 /\ n # 1 /\ u.pid = n BY <1>5
  <2> HIDE DEF k, k2, nm, peer
  <2> QED BY <1>14, <1>15, <1>16, <1>17, <1>18, <2>1 DEF Welcome
<1>20. Heir(W, W2, p, i, i)
  <2>1. p = Server => ServesOn(k, k2)
    <3>1. Packets(k2) = Packets(k) \cup {n} BY <1>5 DEF Packets
    <3>2. n = 2 \/ n >= 3 BY <1>5
    <3>3. 2 \notin Packets(k2) => n >= 3 /\ 2 \notin Packets(k) BY <3>1, <3>2
    <3> QED BY <1>4, <1>5, <1>6, <3>3 DEF ServesOn
  <2> QED BY <1>2, <1>5, <1>6, <2>1 DEF Heir
<1>21. n = 2 \/ n >= 3 BY <1>5
<1>22. ASSUME i = TM_ACTIVE
       PROVE  HoldsOn(W, W2, p) /\ (BacklogGood(W2, p) \/ SendsOn(W, W2, p)) /\ Seen(W2, p) = Seen(W, p)
  <2>1. HoldsOn(W, W2, p) /\ Seen(W2, p) = Seen(W, p) BY <1>6, <1>13, <1>20, <1>22 DEF HoldsOn, Seen
  <2>2. CASE n = 2 BY <1>2, <1>6, <1>22, <2>1, <2>2 DEF SendsOn
  <2>3. CASE n >= 3
    <3>1. ASSUME NEW x \in Numbers(Backlog(k2)), NEW m \in Seen(W2, q) PROVE m < x
      BY <1>9, <1>13, <1>22, <2>3, <3>1 DEF BacklogGood
    <3>2. ASSUME NEW x \in Numbers(Backlog(k2)), NEW l \in Mail(W2, q), l.pid >= 3 PROVE l.body.text[2] < x
      <4>1. CASE l = u BY <1>9, <2>3, <3>2, <4>1
      <4>2. CASE l \in Mail(W, q) BY <1>9, <1>22, <2>3, <3>2, <4>2 DEF BacklogGood
      <4> QED BY <1>8, <3>2, <4>1, <4>2
    <3>3. BacklogGood(W2, p) BY <1>9, <1>22, <2>3, <3>1, <3>2 DEF BacklogGood
    <3> QED BY <2>1, <3>3
  <2> QED BY <1>21, <2>2, <2>3
<1>23. ASSUME i = TM_UNTRUSTED PROVE WaitsOn(W, W2, p)
  <2>1. n = 2 BY <1>9, <1>21, <1>23
  <2> QED BY <1>6, <1>20, <1>23, <2>1 DEF WaitsOn
<1>24. /\ \A l \in Mail(W2, q) : Carried(Mail(W, q), l) \/ Welcome(W2, p, l)
       /\ \A m \in W2.net[q] : m \in W.net[q]
  BY <1>8, <1>19
<1> QED BY <1>3, <1>8, <1>20, <1>22, <1>23, <1>24, OneSlotGood

-----------------------------------------------------------------------------
(* The same of a world in the middle of tls_process(). *)

(* Worlds that do not differ, but for packets lost. *)
LEMMA SameGood ==
  ASSUME NEW W, NEW W2, Good(W),
         \A p \in Peers, j \in Slots : W2.key[p][j] = W.key[p][j] /\ W2.sid[p][j] = W.sid[p][j] /\ W2.nk[p][j] = W.nk[p][j],
         \A p \in Peers : /\ W2.n[p] = W.n[p] /\ W2.received[p] = W.received[p] /\ W2.written[p] = W.written[p]
                          /\ W2.net[p] \subseteq W.net[p]
  PROVE  Good(W2)
<1>1. Wider(W, W2)
  <2>1. \A a \in Peers : W.written[a] \in Nat /\ W2.written[a] = W.written[a] BY DEF Good, PeerGood
  <2> QED BY <2>1 DEF Wider, Known
<1>2. ASSUME NEW p \in Peers PROVE Evolves(W, W2, p)
  <2>1. Other(p) \in Peers /\ Other(Other(p)) = p BY PeersAre
  <2>2. \A l \in Mail(W2, Other(p)) : Carried(Mail(W, Other(p)), l)
    <3>1. Mail(W2, Other(p)) \subseteq Mail(W, Other(p)) BY <2>1, MailIs
    <3> QED BY <3>1 DEF Carried
  <2>3. W2.written[p] \in Nat /\ W2.written[Other(p)] \in Nat BY <2>1 DEF Good, PeerGood
  <2> QED BY <1>1, <2>1, <2>2, <2>3, PeerStays
<1> QED BY <1>1, <1>2, GoodEvolves

LEMMA AtIs ==
  ASSUME NEW W, NEW p \in Peers, NEW i \in Slots, NEW k, NEW S
  PROVE  Differs(At(W, p, i, k, S), W, p, i, k, S)
<1>1. Other(p) \in Peers /\ Other(p) # p BY PeersAre
<1> QED BY <1>1 DEF At, Name, Differs

LEMMA HoldsIs ==
  ASSUME NEW W, NEW p \in Peers, NEW i \in Slots, NEW k, NEW S, Holds(W, p, i, k, S)
  PROVE  KeyFine(W, p, i, k) /\ SlotGood(At(W, p, i, k, S), p, i)
<1> PICK V : V = At(W, p, i, k, S) OBVIOUS
<1>1. V.key[p][i] = k /\ V.written = W.written /\ Name(V, p, i) = <<W.sid[p][i], k.keyId>>
  <2>1. Differs(V, W, p, i, k, S) BY AtIs
  <2> QED BY <2>1 DEF Differs
<1>2. SlotGood(V, p, i) BY <1>1, LiveIsGood DEF Holds
<1> QED BY <1>1, <1>2 DEF SlotGood, KeyFine

LEMMA KeyFineIs ==
  ASSUME NEW W, NEW p, NEW i, NEW k, KeyFine(W, p, i, k)
  PROVE  Shaped(k) /\ Live(k) /\ k.state \in S_INITIAL..S_NORMAL_OP
BY DEF KeyFine, KeyGood, Shaped, Live

LEMMA AtStep ==
  ASSUME NEW W, NEW p \in Peers, NEW i \in Slots, NEW k, NEW k2, NEW S, NEW S2, Holds(W, p, i, k, S),
         Live(k2), k2.keyId = k.keyId
  PROVE  /\ OneSlot(At(W, p, i, k, S), At(W, p, i, k2, S2), p, i)
         /\ S2 = S => At(W, p, i, k2, S2).net[Other(p)] \subseteq At(W, p, i, k, S).net[Other(p)]
<1> PICK V : V = At(W, p, i, k, S) OBVIOUS
<1> PICK V2 : V2 = At(W, p, i, k2, S2) OBVIOUS
<1>1. /\ V.key[p][i] = k /\ V.sid = W.sid /\ V.nk = W.nk /\ V.n = W.n /\ V.written = W.written /\ V.received = W.received
      /\ \A a \in Peers, j \in Slots : (a = p /\ j = i) \/ V.key[a][j] = W.key[a][j]
      /\ V.net[p] = W.net[p] /\ V.net[Other(p)] = W.net[Other(p)] \cup S
  BY AtIs DEF Differs
<1>2. /\ V2.key[p][i] = k2 /\ V2.sid = W.sid /\ V2.nk = W.nk /\ V2.n = W.n /\ V2.written = W.written /\ V2.received = W.received
      /\ \A a \in Peers, j \in Slots : (a = p /\ j = i) \/ V2.key[a][j] = W.key[a][j]
      /\ V2.net[p] = W.net[p] /\ V2.net[Other(p)] = W.net[Other(p)] \cup S2
  BY AtIs DEF Differs
<1>3. OneSlot(V, V2, p, i) BY <1>1, <1>2 DEF OneSlot, Holds
<1>4. S2 = S => V2.net[Other(p)] \subseteq V.net[Other(p)] BY <1>1, <1>2
<1> QED BY <1>3, <1>4

(* A quiet step, and one with a packet. *)
LEMMA HoldsQuiet ==
  ASSUME NEW W, NEW p \in Peers, NEW i \in Slots, NEW k, NEW k2, NEW S, Holds(W, p, i, k, S),
         KeyFine(W, p, i, k2), k2.keyId = k.keyId, Quietly(p, k, k2)
  PROVE  Holds(W, p, i, k2, S)
<1> PICK V : V = At(W, p, i, k, S) OBVIOUS
<1> PICK V2 : V2 = At(W, p, i, k2, S) OBVIOUS
<1>1. Live(k2) BY KeyFineIs
<1>2. OneSlot(V, V2, p, i) /\ V2.net[Other(p)] \subseteq V.net[Other(p)] BY <1>1, AtStep
<1>3. V.key[p][i] = k /\ V2.key[p][i] = k2 /\ V.written = W.written /\ Name(V, p, i) = <<W.sid[p][i], k.keyId>>
  <2>1. Differs(V, W, p, i, k, S) /\ Differs(V2, W, p, i, k2, S) BY AtIs
  <2> QED BY <2>1 DEF Differs
<1>4. SendsOnly(V, V2, p, k) BY <1>2 DEF SendsOnly
<1>5. KeyGood(p, V2.key[p][i], Name(V, p, i), V.written[p], V.written[Other(p)]) BY <1>3 DEF KeyFine
<1>6. Quietly(p, V.key[p][i], V2.key[p][i]) /\ SendsOnly(V, V2, p, V.key[p][i]) /\ Good(V)
  BY <1>3, <1>4 DEF Holds
<1>7. Good(V2) BY <1>2, <1>5, <1>6, QuietGood
<1> QED BY <1>1, <1>7 DEF Holds

LEMMA HoldsSent ==
  ASSUME NEW W, NEW p \in Peers, NEW i \in Slots, NEW k, NEW k2, NEW S, Holds(W, p, i, k, S),
         KeyFine(W, p, i, k2), k2.keyId = k.keyId, Quietly(p, k, k2), NEW m,
         m.sid = W.sid[p][i], m.kid = k.keyId, m.acks \subseteq k.acks,
         (m.pid = 0 /\ m.body = Null) \/ \E u \in k.unacked : u.pid = m.pid /\ u.body = m.body
  PROVE  Holds(W, p, i, k2, S \cup {m})
<1> DEFINE q == Other(p)
<1> PICK V : V = At(W, p, i, k, S) OBVIOUS
<1> PICK V2 : V2 = At(W, p, i, k2, S \cup {m}) OBVIOUS
<1>1. Live(k2) /\ Live(k) /\ KeyFine(W, p, i, k) BY KeyFineIs, HoldsIs DEF Holds
<1>2. OneSlot(V, V2, p, i) BY <1>1, AtStep
<1>3. /\ V.key[p][i] = k /\ V2.key[p][i] = k2 /\ V.written = W.written /\ Name(V, p, i) = <<W.sid[p][i], k.keyId>>
      /\ V.net[q] = W.net[q] \cup S /\ V2.net[q] = W.net[q] \cup S \cup {m}
      /\ Name(V2, p, i) = <<W.sid[p][i], k2.keyId>>
  BY AtIs DEF Differs
<1>4. Good(V) BY DEF Holds
<1>5. q \in Peers /\ Other(q) = p /\ q # p BY PeersAre
<1>6. KeyGood(p, V2.key[p][i], Name(V, p, i), V.written[p], V.written[q]) BY <1>3 DEF KeyFine
<1>7. PacketGood(V2, q, m)
  <2>1. Known(V2, p, Name(V, p, i))
    <3>1. Known(V, p, Name(V, p, i)) BY <1>1, <1>3, <1>4, OwnName
    <3> QED BY <1>2, <3>1 DEF Known, OneSlot
  <2>2. m.pid >= 2 => Name(V, p, i) \in m.body.conn BY <1>1, <1>3 DEF KeyFine, KeyGood, Sends
  <2>3. ASSUME NEW j \in Slots, Live(V2.key[p][j]), Name(V, p, i) = Name(V2, p, j) PROVE m.acks \subseteq Got(V2.key[p][j])
    <3>1. j = i
      <4> SUFFICES ASSUME j # i PROVE FALSE OBVIOUS
      <4>1. V2.key[p][j] = V.key[p][j] /\ Name(V2, p, j) = Name(V, p, j) BY <1>2 DEF OneSlot, Name
      <4> QED BY <1>1, <1>3, <1>4, <2>3, <4>1, OwnName
    <3>2. k.acks \subseteq Got(k) BY <1>1 DEF KeyFine, KeyGood, Receives
    <3>3. Got(k) \subseteq Got(k2) BY DEF Quietly, Grows
    <3> QED BY <1>3, <3>1, <3>2, <3>3
  <2> QED BY <1>3, <1>5, <2>1, <2>2, <2>3 DEF PacketGood
<1>8. SendsOnly(V, V2, p, V.key[p][i]) BY <1>3, <1>7 DEF SendsOnly
<1>9. Good(V2) BY <1>2, <1>3, <1>4, <1>6, <1>8, QuietGood
<1> QED BY <1>1, <1>9 DEF Holds

(* The steps of tls_process(). *)

LEMMA KeyMeasures ==
  ASSUME NEW W, NEW p, NEW i, NEW k, KeyFine(W, p, i, k)
  PROVE  k.next \in Nat /\ k.recNext \in Nat /\ Len(k.tls.in) \in Nat /\ Rank(p, k.state) \in Int /\ k.state \in Int
<1>1. Shaped(k) BY DEF KeyFine, KeyGood
<1>2. k.state \in Int /\ k.tls.in \in Seq(Text) BY <1>1 DEF Shaped
<1>3. Rank(p, k.state) \in Int BY <1>2 DEF Rank
<1>4. Len(k.tls.in) \in Nat BY <1>2
<1> QED BY <1>1, <1>2, <1>3, <1>4 DEF Shaped

LEMMA OnwardSelf ==
  ASSUME NEW W, NEW p, NEW i, NEW k, KeyFine(W, p, i, k)
  PROVE  Onward(p, k, k)
<1>1. k.next \in Nat /\ k.recNext \in Nat /\ Len(k.tls.in) \in Nat /\ Rank(p, k.state) \in Int BY KeyMeasures
<1> QED BY <1>1 DEF Onward, Measured

LEMMA OnwardOn ==
  ASSUME NEW p, NEW a, NEW b, NEW c, Onward(p, a, b), Onward(p, b, c)
  PROVE  /\ Onward(p, a, c)
         /\ Same(p, a, c) => Same(p, a, b) /\ Same(p, b, c)
<1>0. Measured(p, a) /\ Measured(p, b) /\ Measured(p, c) BY DEF Onward
<1>1. Onward(p, a, c)
  <2>1. a.next <= b.next /\ b.next <= c.next /\ a.recNext <= b.recNext /\ b.recNext <= c.recNext BY DEF Onward
  <2>2. a.next <= c.next /\ a.recNext <= c.recNext BY <1>0, <2>1 DEF Measured
  <2>3. Rank(p, a.state) <= Rank(p, c.state) BY <1>0 DEF Onward, Measured
  <2>4. ASSUME c.next = a.next PROVE c.due \subseteq a.due
    <3>1. c.next = b.next /\ b.next = a.next BY <1>0, <2>1, <2>4 DEF Measured
    <3> QED BY <3>1 DEF Onward
  <2>5. ASSUME c.recNext = a.recNext PROVE c.rec = a.rec /\ Len(c.tls.in) <= Len(a.tls.in)
    <3>1. c.recNext = b.recNext /\ b.recNext = a.recNext BY <1>0, <2>1, <2>5 DEF Measured
    <3>2. c.rec = b.rec /\ b.rec = a.rec /\ Len(c.tls.in) <= Len(b.tls.in) /\ Len(b.tls.in) <= Len(a.tls.in)
      BY <3>1 DEF Onward
    <3>3. PICK la \in Nat, lb \in Nat, lc \in Nat : la = Len(a.tls.in) /\ lb = Len(b.tls.in) /\ lc = Len(c.tls.in)
      BY <1>0, Zenon DEF Measured
    <3>4. lc <= la BY <3>2, <3>3
    <3> QED BY <3>2, <3>3, <3>4, Zenon
  <2> QED BY <1>0, <2>2, <2>3, <2>4, <2>5 DEF Onward
<1>2. ASSUME Same(p, a, c) PROVE Same(p, a, b) /\ Same(p, b, c)
  <2>1. c.next = b.next /\ b.next = a.next /\ c.recNext = b.recNext /\ b.recNext = a.recNext
    BY <1>2 DEF Onward, Measured, Same
  <2>2. Rank(p, c.state) = Rank(p, b.state) /\ Rank(p, a.state) = Rank(p, b.state)
    BY <1>2 DEF Onward, Measured, Same
  <2>3. b.due = a.due /\ c.due = b.due BY <1>2, <2>1 DEF Onward, Measured, Same
  <2>4. b.rec = a.rec /\ c.rec = b.rec /\ Len(b.tls.in) = Len(a.tls.in) /\ Len(c.tls.in) = Len(b.tls.in)
    BY <1>2, <2>1 DEF Onward, Measured, Same
  <2> QED BY <2>1, <2>2, <2>3, <2>4 DEF Same
<1> QED BY <1>1, <1>2

LEMMA StepsSelf ==
  ASSUME NEW W, NEW p \in Peers, NEW i \in Slots, NEW x, WorkFine(W, p, i, x)
  PROVE  Steps(W, p, i, x, x)
<1>1. ~x.error => KeyFine(W, p, i, x.k) BY HoldsIs DEF WorkFine
<1> QED BY <1>1, OnwardSelf DEF Steps

LEMMA StepsOn ==
  ASSUME NEW W, NEW p \in Peers, NEW i \in Slots, NEW x, NEW y, NEW z, Steps(W, p, i, x, y), Steps(W, p, i, y, z)
  PROVE  Steps(W, p, i, x, z)
BY OnwardOn DEF Steps

LEMMA FailSteps ==
  ASSUME NEW W, NEW p \in Peers, NEW i \in Slots, NEW x, WorkFine(W, p, i, x)
  PROVE  Steps(W, p, i, x, Fail(x)) /\ Fail(x).error
<1> DEFINE y == Fail(x)
<1>1. y.error /\ y.link = x.link /\ y.p = x.p /\ y.sid = x.sid /\ y.stop = x.stop /\ WorkFields \subseteq DOMAIN y
  BY DEF Fail, WorkFine, WorkFields
<1>2. \E k : Holds(W, p, i, k, Sent(x.link)) BY DEF WorkFine
<1>3. "state" \in DOMAIN x.k /\ WorkFields \subseteq DOMAIN x
  <2>1. ~x.error => KeyFine(W, p, i, x.k) BY HoldsIs DEF WorkFine
  <2> QED BY <2>1, KeyFineIs DEF WorkFine, Shaped, KeyFields
<1>4. y.k.state = S_ERROR /\ "state" \in DOMAIN y.k BY <1>3 DEF Fail, WorkFields
<1>5. x.stop \in BOOLEAN /\ x.p = p /\ x.sid = W.sid[p][i] BY DEF WorkFine
<1>6. y.error = TRUE BY <1>3 DEF Fail, WorkFields
<1> HIDE DEF y
<1> QED BY <1>1, <1>2, <1>4, <1>5, <1>6 DEF Steps, WorkFine, y

(* A step that changes only the key, quietly. *)
LEMMA QuietSteps ==
  ASSUME NEW W, NEW p \in Peers, NEW i \in Slots, NEW x, NEW y, WorkFine(W, p, i, x), ~x.error,
         WorkFields \subseteq DOMAIN y, y.p = x.p, y.sid = x.sid, y.stop = x.stop, y.error = x.error, y.link = x.link,
         KeyGood(p, y.k, <<W.sid[p][i], x.k.keyId>>, W.written[p], W.written[Other(p)]), y.k.keyId = x.k.keyId,
         Quietly(p, x.k, y.k), Onward(p, x.k, y.k)
  PROVE  Steps(W, p, i, x, y)
<1>1. KeyFine(W, p, i, y.k) /\ Holds(W, p, i, x.k, Sent(x.link)) BY DEF KeyFine, WorkFine
<1>2. Holds(W, p, i, y.k, Sent(x.link)) BY <1>1, HoldsQuiet
<1> QED BY <1>2 DEF Steps, WorkFine

LEMMA WorkIs ==
  ASSUME NEW W, NEW p \in Peers, NEW i \in Slots, NEW x, WorkFine(W, p, i, x), ~x.error
  PROVE  /\ KeyFine(W, p, i, x.k) /\ Shaped(x.k) /\ KeyFields \subseteq DOMAIN x.k /\ TlsFields \subseteq DOMAIN x.k.tls
         /\ KeyGood(p, x.k, <<W.sid[p][i], x.k.keyId>>, W.written[p], W.written[Other(p)])
         /\ WorkFields \subseteq DOMAIN x
         /\ x.k.next \in Nat /\ x.k.recNext \in Nat /\ Len(x.k.tls.in) \in Nat /\ Rank(p, x.k.state) \in Int /\ x.k.state \in Int
<1>1. KeyFine(W, p, i, x.k) BY HoldsIs DEF WorkFine
<1> QED BY <1>1, KeyMeasures DEF KeyFine, KeyGood, Shaped, WorkFine

LEMMA InitialHandshakeSteps ==
  ASSUME NEW W, NEW p \in Peers, NEW i \in Slots, NEW x, WorkFine(W, p, i, x), ~x.error
  PROVE  Steps(W, p, i, x, InitialHandshake(x)) /\ InitialHandshake(x).error = x.error /\ InitialHandshake(x).stop = x.stop
<1> DEFINE y == InitialHandshake(x)
           k == x.k
           k2 == y.k
<1>1. CASE y = x BY <1>1, StepsSelf
<1>2. CASE x.k.state = S_INITIAL /\ CanOutput(x.k)
  <2> PICK op : op = x.k.opcode OBVIOUS
  <2>1. /\ KeyFine(W, p, i, k) /\ KeyFields \subseteq DOMAIN k /\ WorkFields \subseteq DOMAIN x
        /\ KeyGood(p, k, <<W.sid[p][i], k.keyId>>, W.written[p], W.written[Other(p)])
        /\ k.next \in Nat /\ k.recNext \in Nat /\ Len(k.tls.in) \in Nat
    BY WorkIs
  <2>2. /\ WorkFields \subseteq DOMAIN y /\ y.p = x.p /\ y.sid = x.sid /\ y.stop = x.stop /\ y.error = x.error /\ y.link = x.link
        /\ k2 = [MarkOutgoing(x.k, x.k.opcode, Null) EXCEPT !.state = S_PRE_START, !.negotiating = TRUE, !.young = TRUE]
    BY <1>2, <2>1 DEF InitialHandshake, Goto, WorkFields
  <2>3. /\ Keeps(k, k2, {"state", "unacked", "due", "next", "negotiating", "young"})
        /\ k2.state = S_PRE_START /\ k2.next = k.next + 1 /\ k2.due = k.due \cup {k.next}
        /\ k2.unacked = k.unacked \cup {[pid |-> k.next, op |-> op, body |-> Null]}
        /\ k2.keyId = k.keyId /\ k2.recNext = k.recNext /\ k2.rec = k.rec /\ k2.tls = k.tls
    <3> HIDE DEF y, k2
    <3>1. Keeps(k, k2, {"state", "unacked", "due", "next", "negotiating", "young"})
      BY <2>1, <2>2 DEF MarkOutgoing, Keeps, KeyFields
    <3>2. /\ k2.state = S_PRE_START /\ k2.next = k.next + 1 /\ k2.due = k.due \cup {k.next}
          /\ k2.unacked = k.unacked \cup {[pid |-> k.next, op |-> op, body |-> Null]}
      BY <2>1, <2>2 DEF MarkOutgoing, KeyFields
    <3>3. k2.keyId = k.keyId /\ k2.recNext = k.recNext /\ k2.rec = k.rec /\ k2.tls = k.tls
      BY <3>1 DEF Keeps, KeyFields
    <3> QED BY <3>1, <3>2, <3>3
  <2> HIDE DEF y, k2
  <2>4. KeyGood(p, k2, <<W.sid[p][i], k.keyId>>, W.written[p], W.written[Other(p)]) /\ Quietly(p, k, k2)
    <3>1. PICK nm, w, v : nm = <<W.sid[p][i], k.keyId>> /\ w = W.written[p] /\ v = W.written[Other(p)] OBVIOUS
    <3>2. KeyGood(p, k, nm, w, v) /\ k.state = S_INITIAL BY <1>2, <2>1, <3>1
    <3>3. KeyGood(p, k2, nm, w, v) /\ Quietly(p, k, k2) BY <2>3, <3>2, KeyBegins
    <3> QED BY <3>1, <3>3
  <2>5. Onward(p, k, k2) BY <1>2, <2>1, <2>3 DEF Onward, Measured, Rank
  <2>6. Steps(W, p, i, x, y) BY <2>2, <2>3, <2>4, <2>5, QuietSteps DEF k2
  <2> QED BY <2>2, <2>6 DEF y
<1> QED BY <1>1, <1>2 DEF InitialHandshake

LEMMA TimeOutSteps ==
  ASSUME NEW W, NEW p \in Peers, NEW i \in Slots, NEW x, WorkFine(W, p, i, x), ~x.error
  PROVE  Steps(W, p, i, x, TimeOut(x)) /\ TimeOut(x).stop = x.stop
<1> DEFINE y == TimeOut(x)
           k == x.k
           k2 == y.k
<1>1. CASE y = x BY <1>1, StepsSelf
<1>2. CASE y = Fail(x)
  <2>1. Fail(x).stop = x.stop BY DEF WorkFine, Fail, WorkFields
  <2> QED BY <1>2, <2>1, FailSteps
<1>3. CASE y # x /\ ~(x.k.state < S_ACTIVE)
  <2>1. /\ KeyFine(W, p, i, k) /\ KeyFields \subseteq DOMAIN k /\ WorkFields \subseteq DOMAIN x
        /\ KeyGood(p, k, <<W.sid[p][i], k.keyId>>, W.written[p], W.written[Other(p)])
        /\ k.next \in Nat /\ k.recNext \in Nat /\ Len(k.tls.in) \in Nat /\ k.state \in Int
    BY WorkIs
  <2>2. /\ WorkFields \subseteq DOMAIN y /\ y.p = x.p /\ y.sid = x.sid /\ y.stop = x.stop /\ y.error = x.error /\ y.link = x.link
        /\ k2 = [k EXCEPT !.state = S_NORMAL_OP, !.negotiating = FALSE, !.young = FALSE]
    BY <1>3, <2>1 DEF TimeOut, WorkFields
  <2>3. /\ Keeps(k, k2, {"state", "negotiating", "young"})
        /\ k2.state = S_NORMAL_OP /\ k2.next = k.next /\ k2.due = k.due
        /\ k2.keyId = k.keyId /\ k2.recNext = k.recNext /\ k2.rec = k.rec /\ k2.tls = k.tls
    BY <2>1, <2>2 DEF Keeps, KeyFields
  <2> HIDE DEF y, k2
  <2>4. KeyGood(p, k2, <<W.sid[p][i], k.keyId>>, W.written[p], W.written[Other(p)]) /\ Quietly(p, k, k2)
    BY <1>3, <2>1, <2>3, KeyMoves
  <2>5. Onward(p, k, k2)
    <3>1. k.state \in S_INITIAL..S_NORMAL_OP BY <2>1, KeyFineIs
    <3>2. /\ Rank(p, k.state) \in Int /\ Rank(p, k2.state) \in Int /\ Rank(p, k.state) <= Rank(p, k2.state)
      BY <2>3, <3>1 DEF Rank
    <3>3. Measured(p, k) /\ Measured(p, k2) BY <2>1, <2>3, <3>2 DEF Measured
    <3> QED BY <2>3, <3>2, <3>3 DEF Onward, Measured
  <2>6. Steps(W, p, i, x, y) BY <2>2, <2>3, <2>4, <2>5, QuietSteps DEF k2
  <2> QED BY <2>2, <2>6 DEF y
<1> QED BY <1>1, <1>2, <1>3 DEF TimeOut

LEMMA StartSteps ==
  ASSUME NEW W, NEW p \in Peers, NEW i \in Slots, NEW x, WorkFine(W, p, i, x)
  PROVE  Steps(W, p, i, x, Start(x)) /\ Start(x).stop = x.stop /\ Start(x).error = x.error
<1> DEFINE y == Start(x)
           k == x.k
           k2 == y.k
<1>1. CASE y = x BY <1>1, StepsSelf
<1>2. CASE Busy(x) /\ x.k.state = S_PRE_START /\ FullSync(x.k)
  <2>0. ~x.error BY <1>2 DEF Busy
  <2>1. /\ KeyFine(W, p, i, k) /\ KeyFields \subseteq DOMAIN k /\ WorkFields \subseteq DOMAIN x
        /\ KeyGood(p, k, <<W.sid[p][i], k.keyId>>, W.written[p], W.written[Other(p)])
        /\ k.next \in Nat /\ k.recNext \in Nat /\ Len(k.tls.in) \in Nat /\ k.state \in Int
    BY <2>0, WorkIs
  <2>2. /\ WorkFields \subseteq DOMAIN y /\ y.p = x.p /\ y.sid = x.sid /\ y.stop = x.stop /\ y.error = x.error /\ y.link = x.link
        /\ k2 = [k EXCEPT !.state = S_START]
    BY <1>2, <2>1 DEF Start, Goto, WorkFields
  <2>3. /\ Keeps(k, k2, {"state", "negotiating", "young"})
        /\ k2.state = S_START /\ k2.next = k.next /\ k2.due = k.due
        /\ k2.keyId = k.keyId /\ k2.recNext = k.recNext /\ k2.rec = k.rec /\ k2.tls = k.tls
    BY <2>1, <2>2 DEF Keeps, KeyFields
  <2> HIDE DEF y, k2
  <2>4. KeyGood(p, k2, <<W.sid[p][i], k.keyId>>, W.written[p], W.written[Other(p)]) /\ Quietly(p, k, k2)
    BY <1>2, <2>1, <2>3, KeyMoves
  <2>5. Onward(p, k, k2) BY <1>2, <2>1, <2>3 DEF Onward, Measured, Rank
  <2>6. Steps(W, p, i, x, y) BY <2>0, <2>2, <2>3, <2>4, <2>5, QuietSteps DEF k2
  <2> QED BY <2>2, <2>6 DEF y
<1> QED BY <1>1, <1>2 DEF Start

(* The steps that are not quiet. *)
LEMMA HoldsTaken ==
  ASSUME NEW W, NEW p \in Peers, NEW i \in Slots, NEW k, NEW k2, NEW S, Holds(W, p, i, k, S),
         Live(k2), k2.keyId = k.keyId, NEW r, TakesText(k, k2, r), NEW n \in Nat, n >= 2, r.pid = n,
         r.body.conn = {<<W.sid[p][i], k.keyId>>, k.tls.peer}
  PROVE  Holds(W, p, i, k2, S)
<1> PICK V : V = At(W, p, i, k, S) OBVIOUS
<1> PICK V2 : V2 = At(W, p, i, k2, S) OBVIOUS
<1>1. OneSlot(V, V2, p, i) /\ V2.net[Other(p)] \subseteq V.net[Other(p)] BY AtStep
<1>2. V.key[p][i] = k /\ V2.key[p][i] = k2 /\ Name(V, p, i) = <<W.sid[p][i], k.keyId>>
  <2>1. Differs(V, W, p, i, k, S) /\ Differs(V2, W, p, i, k2, S) BY AtIs
  <2> QED BY <2>1 DEF Differs
<1>3. TakesText(V.key[p][i], V2.key[p][i], r) /\ Good(V) /\ r.body.conn = {Name(V, p, i), V.key[p][i].tls.peer}
  BY <1>2 DEF Holds
<1>4. Good(V2) BY <1>1, <1>3, TakeGood
<1> QED BY <1>4 DEF Holds

LEMMA HoldsGreeted ==
  ASSUME NEW W, NEW p \in Peers, NEW i \in Slots, NEW k, NEW k2, NEW S, Holds(W, p, i, k, S),
         Live(k2), k2.keyId = k.keyId, NEW u, GreetsFirst(p, k, k2, <<W.sid[p][i], k.keyId>>, u)
  PROVE  Holds(W, p, i, k2, S)
<1> PICK V : V = At(W, p, i, k, S) OBVIOUS
<1> PICK V2 : V2 = At(W, p, i, k2, S) OBVIOUS
<1>1. OneSlot(V, V2, p, i) /\ V2.net[Other(p)] \subseteq V.net[Other(p)] BY AtStep
<1>2. V.key[p][i] = k /\ V2.key[p][i] = k2 /\ Name(V, p, i) = <<W.sid[p][i], k.keyId>>
  <2>1. Differs(V, W, p, i, k, S) /\ Differs(V2, W, p, i, k2, S) BY AtIs
  <2> QED BY <2>1 DEF Differs
<1>3. GreetsFirst(p, V.key[p][i], V2.key[p][i], Name(V, p, i), u) /\ Good(V) BY <1>2 DEF Holds
<1>4. Good(V2) BY <1>1, <1>3, GreetGood
<1> QED BY <1>4 DEF Holds

LEMMA HoldsPosted ==
  ASSUME NEW W, NEW p \in Peers, NEW i \in Slots, NEW k, NEW k2, NEW S, Holds(W, p, i, k, S), Resting(W, Other(p)),
         Live(k2), k2.keyId = k.keyId, NEW u, Posts(p, k, k2, <<W.sid[p][i], k.keyId>>, u)
  PROVE  Holds(W, p, i, k2, S)
<1> PICK V : V = At(W, p, i, k, S) OBVIOUS
<1> PICK V2 : V2 = At(W, p, i, k2, S) OBVIOUS
<1>1. OneSlot(V, V2, p, i) /\ V2.net[Other(p)] \subseteq V.net[Other(p)] BY AtStep
<1>2. V.key[p][i] = k /\ V2.key[p][i] = k2 /\ Name(V, p, i) = <<W.sid[p][i], k.keyId>>
      /\ \A a \in Peers, j \in Slots : (a = p /\ j = i) \/ V.key[a][j] = W.key[a][j]
  <2>1. Differs(V, W, p, i, k, S) /\ Differs(V2, W, p, i, k2, S) BY AtIs
  <2> QED BY <2>1 DEF Differs
<1>3. Posts(p, V.key[p][i], V2.key[p][i], Name(V, p, i), u) /\ Good(V) BY <1>2 DEF Holds
<1>4. Resting(V, Other(p))
  <2>1. V.key[Other(p)][TM_UNTRUSTED] = W.key[Other(p)][TM_UNTRUSTED] BY <1>2, PeersAre DEF Slots
  <2> QED BY <2>1 DEF Resting
<1>5. Good(V2) BY <1>1, <1>3, <1>4, PostGood
<1> QED BY <1>5 DEF Holds

(* A step that changes only the key. *)
LEMMA KeySteps ==
  ASSUME NEW W, NEW p \in Peers, NEW i \in Slots, NEW x, NEW y, WorkFine(W, p, i, x), ~x.error,
         WorkFields \subseteq DOMAIN y, y.p = x.p, y.sid = x.sid, y.stop = x.stop, y.error = x.error, y.link = x.link,
         Holds(W, p, i, y.k, Sent(x.link)), Onward(p, x.k, y.k)
  PROVE  Steps(W, p, i, x, y)
BY DEF Steps, WorkFine

(* What a key has received, it can have received. *)
LEMMA HeldLetters ==
  ASSUME NEW W, NEW p \in Peers, NEW i \in Slots, NEW k, NEW S, Holds(W, p, i, k, S), NEW r \in k.rec
  PROVE  /\ r.pid \in Nat /\ (r.pid = 0 <=> r.body = Null)
         /\ r.pid = 1 => r.body.kind = "hello" /\ r.body.from # NoSid
         /\ r.pid >= 2 => r.body.kind = "record"
<1> PICK V : V = At(W, p, i, k, S) OBVIOUS
<1>1. V.key[p][i] = k /\ Good(V)
  <2>1. Differs(V, W, p, i, k, S) BY AtIs
  <2> QED BY <2>1 DEF Differs, Holds
<1>2. r \in Mail(V, p) BY <1>1, MailIs
<1>3. LetterGood(V, p, r) BY <1>1, <1>2, LettersKnown
<1>4. r.pid = 1 => r.body.from # NoSid BY <1>3, NamesAre DEF LetterGood, Known
<1> QED BY <1>3, <1>4 DEF LetterGood

LEMMA ActivateSteps ==
  ASSUME NEW W, NEW p \in Peers, NEW i \in Slots, NEW x, WorkFine(W, p, i, x), ~x.error => Flushed(p, x.k)
  PROVE  Steps(W, p, i, x, Activate(x)) /\ Activate(x).stop = x.stop /\ Activate(x).error = x.error
         /\ (~x.error => Flushed(p, Activate(x).k))
<1> DEFINE y == Activate(x)
           k == x.k
           k2 == y.k
<1>1. CASE y = x BY <1>1, StepsSelf
<1>2. CASE /\ Busy(x) /\ FullSync(x.k)
           /\ x.k.state = IF x.p = Server THEN S_SENT_KEY ELSE S_GOT_KEY
  <2>0. ~x.error BY <1>2 DEF Busy
  <2>1. /\ KeyFine(W, p, i, k) /\ KeyFields \subseteq DOMAIN k /\ WorkFields \subseteq DOMAIN x /\ TlsFields \subseteq DOMAIN k.tls
        /\ KeyGood(p, k, <<W.sid[p][i], k.keyId>>, W.written[p], W.written[Other(p)])
        /\ k.next \in Nat /\ k.recNext \in Nat /\ Len(k.tls.in) \in Nat /\ k.state \in Int /\ x.p = p
    BY <2>0, WorkIs DEF WorkFine
  <2>2. /\ WorkFields \subseteq DOMAIN y /\ y.p = x.p /\ y.sid = x.sid /\ y.stop = x.stop /\ y.error = x.error /\ y.link = x.link
        /\ k2 = [k EXCEPT !.state = S_ACTIVE, !.tls.out = k.tls.out \o Texts(k.pay), !.pay = <<>>]
    BY <1>2, <2>1 DEF Activate, Goto, WorkFields, KeyFields, TlsFields
  <2>3. /\ Keeps(k, k2, {"state", "tls", "pay"}) /\ KeepsTls(k.tls, k2.tls, {"out"})
        /\ k2.state = S_ACTIVE /\ k2.next = k.next /\ k2.due = k.due /\ k2.unacked = k.unacked
        /\ k2.keyId = k.keyId /\ k2.recNext = k.recNext /\ k2.rec = k.rec /\ k2.tls.in = k.tls.in
        /\ k2.tls.out = k.tls.out \o Texts(k.pay) /\ k2.pay = <<>>
    <3> HIDE DEF y, k2
    <3>1. k2.tls = [k.tls EXCEPT !.out = k.tls.out \o Texts(k.pay)] BY <2>1, <2>2 DEF KeyFields
    <3>2. KeepsTls(k.tls, k2.tls, {"out"}) /\ k2.tls.in = k.tls.in /\ k2.tls.out = k.tls.out \o Texts(k.pay)
      BY <2>1, <3>1 DEF KeepsTls, TlsFields
    <3>3. Keeps(k, k2, {"state", "tls", "pay"}) BY <2>1, <2>2 DEF Keeps, KeyFields
    <3>4. k2.state = S_ACTIVE /\ k2.pay = <<>> BY <2>1, <2>2 DEF KeyFields
    <3>5. /\ k2.next = k.next /\ k2.due = k.due /\ k2.unacked = k.unacked
          /\ k2.keyId = k.keyId /\ k2.recNext = k.recNext /\ k2.rec = k.rec
      BY <3>3 DEF Keeps, KeyFields
    <3> QED BY <3>2, <3>3, <3>4, <3>5
  <2> HIDE DEF y, k2
  <2>4. KeyGood(p, k2, <<W.sid[p][i], k.keyId>>, W.written[p], W.written[Other(p)]) /\ Quietly(p, k, k2)
    <3>1. PICK nm, w, v : nm = <<W.sid[p][i], k.keyId>> /\ w = W.written[p] /\ v = W.written[Other(p)] OBVIOUS
    <3>2. KeyGood(p, k, nm, w, v) /\ k.state = (IF p = Server THEN S_SENT_KEY ELSE S_GOT_KEY) /\ Flushed(p, k) /\ k.unacked = {}
      BY <1>2, <2>0, <2>1, <3>1 DEF FullSync
    <3>3. KeyGood(p, k2, nm, w, v) /\ Quietly(p, k, k2) BY <2>3, <3>2, KeyActivates
    <3> QED BY <3>1, <3>3
  <2>5. Onward(p, k, k2) BY <1>2, <2>1, <2>3 DEF Onward, Measured, Rank
  <2>6. Steps(W, p, i, x, y) BY Zenon, <2>0, <2>2, <2>3, <2>4, <2>5, QuietSteps DEF k2
  <2>7. Flushed(p, k2) BY <2>3, <2>4 DEF KeyGood, Sends, Flushed
  <2> QED BY <2>2, <2>6, <2>7 DEF y, k2
<1> QED BY <1>1, <1>2 DEF Activate

LEMMA FirstDue ==
  ASSUME NEW p, NEW k, NEW nm, NEW w, NEW v, KeyGood(p, k, nm, w, v), k.due # {}
  PROVE  LET u == CHOOSE a \in k.unacked : a.pid = Min(k.due) IN u \in k.unacked /\ u.pid \in k.due
<1>1. k.due \subseteq Packets(k) /\ Packets(k) \subseteq Nat BY DEF KeyGood, Sends, Packets
<1>2. Min(k.due) \in k.due BY <1>1, Least
<1>3. \E a \in k.unacked : a.pid = Min(k.due) BY <1>1, <1>2 DEF Packets
<1> QED BY <1>2, <1>3

LEMMA TransmitSteps ==
  ASSUME NEW W, NEW p \in Peers, NEW i \in Slots, NEW x, WorkFine(W, p, i, x)
  PROVE  /\ Steps(W, p, i, x, Transmit(x)) /\ Transmit(x).error = x.error
         /\ Transmit(x) = x \/ (Transmit(x).stop /\ ~x.error /\ Transmit(x).k.due # x.k.due)
         /\ ~x.error /\ Flushed(p, x.k) => Flushed(p, Transmit(x).k)
<1> DEFINE y == Transmit(x)
           k == x.k
           k2 == y.k
<1>1. CASE y = x BY <1>1, StepsSelf
<1>2. CASE Busy(x) /\ x.link = NoPacket /\ x.k.due # {}
  <2>0. ~x.error BY <1>2 DEF Busy
  <2>1. /\ KeyFine(W, p, i, k) /\ KeyFields \subseteq DOMAIN k /\ WorkFields \subseteq DOMAIN x
        /\ KeyGood(p, k, <<W.sid[p][i], k.keyId>>, W.written[p], W.written[Other(p)])
        /\ k.next \in Nat /\ k.recNext \in Nat /\ Len(k.tls.in) \in Nat /\ Rank(p, k.state) \in Int
        /\ x.p = p /\ x.sid = W.sid[p][i] /\ Holds(W, p, i, k, Sent(x.link))
    BY <2>0, WorkIs DEF WorkFine
  <2> DEFINE u0 == CHOOSE a \in k.unacked : a.pid = Min(k.due)
  <2>2. PICK u : u = u0 OBVIOUS
  <2>3. u \in k.unacked /\ u.pid \in k.due BY <1>2, <2>1, <2>2, FirstDue
  <2>4. PICK m : m = ControlPacket(x, u.op, u.pid, u.body) OBVIOUS
  <2>5. m.sid = W.sid[p][i] /\ m.kid = k.keyId /\ m.acks = k.acks /\ m.pid = u.pid /\ m.body = u.body /\ m # NoPacket
    <3>1. ControlPacket(x, u.op, u.pid, u.body) # NoPacket BY DEF ControlPacket, NoPacket
    <3> QED BY <2>1, <2>4, <3>1 DEF ControlPacket
  <2>6. y = [x EXCEPT !.link = m, !.k.acks = {}, !.k.due = @ \ {u.pid}, !.stop = TRUE]
    BY <1>2, <2>2, <2>4 DEF Transmit
  <2>7. /\ WorkFields \subseteq DOMAIN y /\ y.p = x.p /\ y.sid = x.sid /\ y.stop = TRUE /\ y.error = x.error /\ y.link = m
        /\ k2 = [k EXCEPT !.acks = {}, !.due = @ \ {u.pid}]
    <3> HIDE DEF y
    <3> QED BY <2>1, <2>6 DEF WorkFields
  <2>8. /\ Keeps(k, k2, {"due", "acks", "addr"}) /\ k2.acks = {} /\ k2.due = k.due \ {u.pid} /\ k2.addr = k.addr
        /\ k2.state = k.state /\ k2.next = k.next /\ k2.keyId = k.keyId /\ k2.recNext = k.recNext /\ k2.rec = k.rec
        /\ k2.tls = k.tls
    <3> HIDE DEF y
    <3>1. k2 = [k EXCEPT !.acks = {}, !.due = @ \ {u.pid}] BY <2>7
    <3> HIDE DEF k2
    <3> QED BY <2>1, <3>1 DEF Keeps, KeyFields
  <2> HIDE DEF y, k2
  <2>9. KeyGood(p, k2, <<W.sid[p][i], k.keyId>>, W.written[p], W.written[Other(p)]) /\ Quietly(p, k, k2)
    <3>1. PICK nm, w, v : nm = <<W.sid[p][i], k.keyId>> /\ w = W.written[p] /\ v = W.written[Other(p)] OBVIOUS
    <3>2. KeyGood(p, k, nm, w, v) /\ k2.due \subseteq Packets(k) BY <2>1, <2>8, <3>1 DEF KeyGood, Sends
    <3>3. KeyGood(p, k2, nm, w, v) /\ Quietly(p, k, k2)
      <4>1. Keeps(k, k2, {"due", "acks", "addr"}) /\ k2.acks \subseteq k.acks /\ k2.addr = k.addr BY <2>8
      <4> HIDE DEF k
      <4> QED BY <3>2, <4>1, KeyAcks
    <3> QED BY <3>1, <3>3
  <2>10. Onward(p, k, k2) BY <2>1, <2>8 DEF Onward, Measured
  <2>11. Holds(W, p, i, k2, Sent(y.link))
    <3>1. Sent(x.link) \cup {m} = Sent(y.link) BY <1>2, <2>5, <2>7 DEF Sent
    <3>2. KeyFine(W, p, i, k2) BY <2>8, <2>9 DEF KeyFine
    <3>3. Holds(W, p, i, k2, Sent(x.link) \cup {m}) BY <2>1, <2>3, <2>5, <2>8, <2>9, <3>2, HoldsSent
    <3> QED BY <3>1, <3>3
  <2>12. Steps(W, p, i, x, y) BY <2>0, <2>1, <2>7, <2>10, <2>11 DEF Steps, WorkFine, k2
  <2>13. k2.due # k.due BY <2>3, <2>8
  <2>14. Flushed(p, k) => Flushed(p, k2) BY <2>8 DEF Flushed, KeySent
  <2> QED BY <2>0, <2>7, <2>12, <2>13, <2>14 DEF y, k2
<1> QED BY <1>1, <1>2 DEF Transmit

LEMMA WorkingIs ==
  ASSUME NEW W, NEW p \in Peers, NEW i \in Slots, NEW x, WorkFine(W, p, i, x), ~x.error
  PROVE  AtWork(W, p, i, x, x.k)
BY WorkIs, KeyFineIs DEF WorkFine, AtWork, Me

LEMMA OnlyKey ==
  ASSUME NEW x, NEW y, NEW k2, WorkFields \subseteq DOMAIN x, y = [x EXCEPT !.k = k2, !.change = TRUE]
  PROVE  Beside(x, y) /\ y.k = k2
BY DEF WorkFields, Beside

LEMMA ReadCiphertextSteps ==
  ASSUME NEW W, NEW p \in Peers, NEW i \in Slots, NEW x, WorkFine(W, p, i, x), ~x.error => x.k.state # S_INITIAL
  PROVE  /\ Steps(W, p, i, x, ReadCiphertext(x)) /\ ReadCiphertext(x).stop = x.stop
         /\ \/ ReadCiphertext(x) = x /\ (Busy(x) => InOrder(x.k) = {})
            \/ ReadCiphertext(x).error
            \/ ReadCiphertext(x).k.recNext # x.k.recNext
<1> DEFINE y == ReadCiphertext(x)
           k == x.k
<1>1. CASE y = x /\ (Busy(x) => InOrder(x.k) = {}) BY <1>1, StepsSelf
<1>2. CASE y = Fail(x)
  <2>1. Fail(x).stop = x.stop BY DEF WorkFine, Fail, WorkFields
  <2> QED BY <1>2, <2>1, FailSteps
<1> DEFINE r0 == CHOOSE a \in InOrder(x.k) : TRUE
<1> PICK r : r = r0 OBVIOUS
<1> DEFINE ka == [x.k EXCEPT !.rec = @ \ {r}, !.recNext = @ + 1]
           fed == [ka EXCEPT !.tls = Accept(x.p, @, r.body)]
<1>3. ASSUME Busy(x), InOrder(x.k) # {},
             \/ r.body = Null /\ y = [x EXCEPT !.k = ka, !.change = TRUE]
             \/ r.body # Null /\ Accepts(x.p, x.k, Me(x), r.body) /\ y = [x EXCEPT !.k = fed, !.change = TRUE]
      PROVE  Steps(W, p, i, x, y) /\ y.stop = x.stop /\ y.k.recNext # x.k.recNext
  <2> HIDE DEF y
  <2>1. AtWork(W, p, i, x, k) /\ ~x.error BY <1>3, WorkingIs DEF Busy
  <2>2. r \in k.rec /\ r.pid = k.recNext /\ (\A s \in k.rec : s.pid \in Nat) /\ k.state # S_INITIAL
    <3>1. r \in InOrder(k) BY <1>3
    <3>2. \A s \in k.rec : s.pid \in Nat BY <2>1, HeldLetters DEF AtWork
    <3> QED BY <2>1, <3>1, <3>2 DEF InOrder
  <2>3. PICK n \in Nat : n = k.recNext /\ r.pid = n BY <2>1, <2>2 DEF AtWork
  <2>4. /\ n = 0 <=> r.body = Null
        /\ n = 1 => r.body.kind = "hello" /\ r.body.from # NoSid
        /\ n >= 2 => r.body.kind = "record"
    <3>1. PICK S : Holds(W, p, i, k, S) BY <2>1 DEF AtWork
    <3>2. /\ r.pid \in Nat /\ (r.pid = 0 <=> r.body = Null)
          /\ r.pid = 1 => r.body.kind = "hello" /\ r.body.from # NoSid
          /\ r.pid >= 2 => r.body.kind = "record"
      BY <2>2, <3>1, HeldLetters
    <3> QED BY ONLY <2>3, <3>2
  <2>5. /\ KeyFields \subseteq DOMAIN ka /\ ka.rec = k.rec \ {r} /\ ka.recNext = k.recNext + 1
        /\ \A f \in KeyFields \ {"rec", "recNext"} : ka[f] = k[f]
    BY <2>1 DEF AtWork, KeyFields
  <2>6. CASE r.body = Null /\ y = [x EXCEPT !.k = ka, !.change = TRUE]
    <3> PICK k2 : k2 = ka OBVIOUS
    <3>1. Beside(x, y) /\ y.k = k2
      <4> HIDE DEF ka, r0
      <4>1. WorkFields \subseteq DOMAIN x BY <2>1 DEF AtWork
      <4>2. y = [x EXCEPT !.k = ka, !.change = TRUE] BY <2>6
      <4> QED BY <4>1, <4>2, OnlyKey
    <3>2. /\ Keeps(k, k2, {"rec", "recNext"}) /\ Advances(k, k2, r)
          /\ k2.keyId = k.keyId /\ k2.recNext = n + 1 /\ k2.next = k.next /\ k2.due = k.due /\ k2.state = k.state /\ k2.tls = k.tls
      BY <2>2, <2>3, <2>5 DEF Keeps, KeyFields, Advances
    <3>3. KeyGood(p, k2, <<W.sid[p][i], k.keyId>>, W.written[p], W.written[Other(p)]) /\ Quietly(p, k, k2)
      <4>1. PICK nm, w, v : nm = <<W.sid[p][i], k.keyId>> /\ w = W.written[p] /\ v = W.written[Other(p)]
        OBVIOUS
      <4>2. KeyGood(p, k, nm, w, v) /\ r.pid = 0 BY <2>1, <2>3, <2>4, <2>6, <4>1 DEF AtWork
      <4> HIDE DEF k
      <4>3. KeyGood(p, k2, nm, w, v) /\ Quietly(p, k, k2) BY <2>2, <3>2, <4>2, KeyFeeds
      <4> QED BY <4>1, <4>3
    <3>4. Onward(p, k, k2) BY <2>1, <2>3, <3>2 DEF Onward, Measured, AtWork
    <3>5. Steps(W, p, i, x, y) BY <2>1, <3>1, <3>2, <3>3, <3>4, QuietSteps DEF Beside
    <3> QED BY <2>3, <3>1, <3>2, <3>5 DEF Beside
  <2>7. CASE r.body # Null /\ Accepts(x.p, x.k, Me(x), r.body) /\ y = [x EXCEPT !.k = fed, !.change = TRUE]
    <3> PICK k2 : k2 = fed OBVIOUS
    <3>1. Beside(x, y) /\ y.k = k2
      <4> HIDE DEF fed, r0
      <4>1. WorkFields \subseteq DOMAIN x BY <2>1 DEF AtWork
      <4>2. y = [x EXCEPT !.k = fed, !.change = TRUE] BY <2>7
      <4> QED BY <4>1, <4>2, OnlyKey
    <3>2. ka.tls = k.tls /\ "tls" \in DOMAIN ka BY <2>5 DEF KeyFields
    <3>3. KeyFields \subseteq DOMAIN k2 /\ k2.tls = Accept(p, k.tls, r.body) /\ \A f \in KeyFields \ {"tls"} : k2[f] = ka[f]
      <4> HIDE DEF ka
      <4> QED BY <2>1, <2>5, <3>2 DEF KeyFields, AtWork
    <3>4. /\ Keeps(k, k2, {"rec", "recNext", "tls"}) /\ Advances(k, k2, r)
          /\ k2.keyId = k.keyId /\ k2.recNext = n + 1 /\ k2.next = k.next /\ k2.due = k.due /\ k2.state = k.state
      <4> HIDE DEF ka
      <4> QED BY <2>2, <2>3, <2>5, <3>3 DEF Keeps, KeyFields, Advances
    <3> HIDE DEF ka, fed
    <3>5. CASE r.body.kind = "hello"
      <4>1. n = 1 /\ r.body.from # NoSid BY <2>3, <2>4, <2>7, <3>5
      <4>2. /\ KeepsTls(k.tls, k2.tls, {"phase", "peer"})
            /\ k.tls.phase = (IF p = Server THEN "start" ELSE "greeted")
            /\ k2.tls.phase = (IF p = Server THEN "greeted" ELSE "done") /\ k2.tls.peer = r.body.from
            /\ Len(k2.tls.in) = Len(k.tls.in)
        BY Zenon, <2>1, <2>7, <3>3, <3>5 DEF AtWork, Accepts, Accept, KeepsTls, TlsFields
      <4>3. KeyGood(p, k2, <<W.sid[p][i], k.keyId>>, W.written[p], W.written[Other(p)]) /\ Quietly(p, k, k2)
        <5>1. PICK nm, w, v : nm = <<W.sid[p][i], k.keyId>> /\ w = W.written[p] /\ v = W.written[Other(p)]
          OBVIOUS
        <5>2. KeyGood(p, k, nm, w, v) /\ r.pid = 1 BY <2>1, <2>3, <4>1, <5>1 DEF AtWork
        <5> HIDE DEF k
        <5>3. KeyGood(p, k2, nm, w, v) /\ Quietly(p, k, k2) BY <2>2, <3>4, <4>1, <4>2, <5>2, KeyGreets
        <5> QED BY <5>1, <5>3
      <4>4. Onward(p, k, k2) BY <2>1, <2>3, <3>4, <4>2 DEF Onward, Measured, AtWork
      <4>5. Steps(W, p, i, x, y) BY <2>1, <3>1, <3>4, <4>3, <4>4, QuietSteps DEF Beside
      <4> QED BY <2>3, <3>1, <3>4, <4>5 DEF Beside
    <3>6. CASE r.body.kind = "record" /\ k.tls.phase = "done" /\ r.body.conn = {<<W.sid[p][i], k.keyId>>, k.tls.peer}
      <4>1. n >= 2 BY <2>4, <2>7, <3>6
      <4>2. k2.tls = [k.tls EXCEPT !.in = Append(@, r.body.text)] BY <3>3, <3>6 DEF Accept
      <4>3. Gains(k, k2, r.body.text) BY <2>1, <4>2 DEF AtWork, Gains, KeepsTls, TlsFields
      <4>4. TakesText(k, k2, r) BY <2>2, <3>4, <3>6, <4>3 DEF TakesText
      <4>5. Live(k2) BY <2>1, <3>4 DEF AtWork, Live
      <4>6. Holds(W, p, i, k2, Sent(x.link))
        <5> HIDE DEF k
        <5>1. Holds(W, p, i, k, Sent(x.link)) /\ k2.keyId = k.keyId /\ r.body.conn = {<<W.sid[p][i], k.keyId>>, k.tls.peer}
          BY <2>1, <3>4, <3>6 DEF AtWork
        <5>2. r.pid = n BY <2>3
        <5> QED BY <4>1, <4>4, <4>5, <5>1, <5>2, HoldsTaken
      <4>7. Onward(p, k, k2)
        <5>1. KeyFine(W, p, i, k2) BY <4>6, HoldsIs
        <5>2. Measured(p, k2) BY <5>1, KeyMeasures DEF Measured
        <5> QED BY <2>1, <2>3, <3>4, <5>2 DEF Onward, Measured, AtWork
      <4>8. Steps(W, p, i, x, y) BY <2>1, <3>1, <4>6, <4>7, KeySteps DEF Beside
      <4> QED BY <2>3, <3>1, <3>4, <4>8 DEF Beside
    <3>7. \/ r.body.kind = "hello"
          \/ r.body.kind = "record" /\ k.tls.phase = "done" /\ r.body.conn = {<<W.sid[p][i], k.keyId>>, k.tls.peer}
      BY <2>1, <2>7 DEF Accepts, AtWork
    <3> QED BY <3>5, <3>6, <3>7
  <2> QED BY <1>3, <2>6, <2>7
<1>4. \/ y = x /\ (Busy(x) => InOrder(x.k) = {})
      \/ y = Fail(x)
      \/ /\ Busy(x) /\ InOrder(x.k) # {}
         /\ \/ r.body = Null /\ y = [x EXCEPT !.k = ka, !.change = TRUE]
            \/ r.body # Null /\ Accepts(x.p, x.k, Me(x), r.body) /\ y = [x EXCEPT !.k = fed, !.change = TRUE]
  BY DEF ReadCiphertext
<1> QED
  <2> HIDE DEF y, ka, fed, r0
  <2>1. CASE y = Fail(x) BY <1>2, <2>1, FailSteps DEF y
  <2> QED BY <1>1, <1>2, <1>3, <1>4, <2>1 DEF y

LEMMA ReadPlaintextSteps ==
  ASSUME NEW W, NEW p \in Peers, NEW i \in Slots, NEW x, WorkFine(W, p, i, x)
  PROVE  /\ Steps(W, p, i, x, ReadPlaintext(x)) /\ ReadPlaintext(x).stop = x.stop /\ ReadPlaintext(x).error = x.error
         /\ \/ ReadPlaintext(x) = x /\ (Busy(x) => x.k.read # <<>> \/ x.k.tls.in = <<>>)
            \/ Len(ReadPlaintext(x).k.tls.in) # Len(x.k.tls.in)
<1> DEFINE y == ReadPlaintext(x)
           k == x.k
           k2 == y.k
<1>1. CASE y = x /\ (Busy(x) => x.k.read # <<>> \/ x.k.tls.in = <<>>) BY <1>1, StepsSelf
<1>2. CASE Busy(x) /\ x.k.read = <<>> /\ x.k.tls.in # <<>>
  <2>1. AtWork(W, p, i, x, k) /\ ~x.error BY <1>2, WorkingIs DEF Busy
  <2>2. y = [x EXCEPT !.k.read = <<Head(k.tls.in)>>, !.k.tls.in = Tail(@), !.change = TRUE]
    BY <1>2 DEF ReadPlaintext
  <2>3. Beside(x, y) /\ k2 = [k EXCEPT !.read = <<Head(k.tls.in)>>, !.tls.in = Tail(@)]
    <3> HIDE DEF y
    <3> QED BY <2>1, <2>2 DEF AtWork, WorkFields, KeyFields, TlsFields, Beside
  <2>4. /\ Keeps(k, k2, {"read", "tls"}) /\ KeepsTls(k.tls, k2.tls, {"in"})
        /\ k2.read = <<Head(k.tls.in)>> /\ k2.tls.in = Tail(k.tls.in)
        /\ k2.state = k.state /\ k2.next = k.next /\ k2.keyId = k.keyId /\ k2.recNext = k.recNext /\ k2.rec = k.rec /\ k2.due = k.due
    <3>1. k2 = [k EXCEPT !.read = <<Head(k.tls.in)>>, !.tls.in = Tail(@)] BY <2>3
    <3> HIDE DEF y, k2
    <3> QED BY <2>1, <3>1 DEF AtWork, Keeps, KeyFields, KeepsTls, TlsFields
  <2> HIDE DEF y, k2
  <2>5. KeyGood(p, k2, <<W.sid[p][i], k.keyId>>, W.written[p], W.written[Other(p)]) /\ Quietly(p, k, k2)
        /\ Len(k2.tls.in) < Len(k.tls.in)
    <3>1. PICK nm, w, v : nm = <<W.sid[p][i], k.keyId>> /\ w = W.written[p] /\ v = W.written[Other(p)] OBVIOUS
    <3>2. KeyGood(p, k, nm, w, v) /\ k.read = <<>> /\ k.tls.in # <<>> BY <1>2, <2>1, <3>1 DEF AtWork
    <3> HIDE DEF k
    <3>3. KeyGood(p, k2, nm, w, v) /\ Quietly(p, k, k2) /\ Len(k2.tls.in) < Len(k.tls.in)
      BY <2>4, <3>2, KeyReads
    <3> QED BY <3>1, <3>3
  <2>6. Onward(p, k, k2) /\ Len(k2.tls.in) # Len(k.tls.in)
    <3>1. KeyFine(W, p, i, k2) BY <2>4, <2>5 DEF KeyFine
    <3>2. Measured(p, k2) /\ Measured(p, k) BY <2>1, <3>1, KeyMeasures DEF Measured, AtWork
    <3>3. PICK la \in Nat, lb \in Nat : la = Len(k.tls.in) /\ lb = Len(k2.tls.in) BY <3>2, Zenon DEF Measured
    <3>4. lb < la BY <2>5, <3>3
    <3>5. Len(k2.tls.in) <= Len(k.tls.in) /\ Len(k2.tls.in) # Len(k.tls.in)
      <4>1. lb <= la /\ lb # la BY <3>4
      <4> QED BY <3>3, <4>1, Zenon
    <3>6. k.next <= k2.next /\ k.recNext <= k2.recNext /\ Rank(p, k.state) <= Rank(p, k2.state)
      BY <2>4, <3>2 DEF Measured
    <3> QED BY <2>4, <3>2, <3>5, <3>6, Zenon DEF Onward
  <2>7. Steps(W, p, i, x, y) BY <2>1, <2>3, <2>4, <2>5, <2>6, QuietSteps DEF Beside, k2
  <2> QED BY <2>3, <2>6, <2>7 DEF y, k2, Beside
<1> QED BY <1>1, <1>2 DEF ReadPlaintext

LEMMA HeldName ==
  ASSUME NEW W, NEW p \in Peers, NEW i \in Slots, NEW k, NEW S, Holds(W, p, i, k, S)
  PROVE  <<W.sid[p][i], k.keyId>> \in Names(p)
<1> PICK V : V = At(W, p, i, k, S) OBVIOUS
<1>1. V.key[p][i] = k /\ Good(V) /\ Name(V, p, i) = <<W.sid[p][i], k.keyId>> /\ Live(k)
  <2>1. Differs(V, W, p, i, k, S) BY AtIs
  <2> QED BY <2>1 DEF Differs, Holds
<1> QED BY <1>1, OwnName

LEMMA SendKeySteps ==
  ASSUME NEW W, NEW p \in Peers, NEW i \in Slots, NEW x, WorkFine(W, p, i, x)
  PROVE  /\ Steps(W, p, i, x, SendKey(x)) /\ SendKey(x).stop = x.stop /\ SendKey(x).error = x.error
         /\ \/ SendKey(x) = x /\ (Busy(x) /\ x.k.write = <<>> => x.k.state # IF p = Server THEN S_GOT_KEY ELSE S_START)
            \/ Rank(p, SendKey(x).k.state) # Rank(p, x.k.state)
<1> DEFINE y == SendKey(x)
           k == x.k
           k2 == y.k
<1>0. x.p = p BY DEF WorkFine
<1>1. CASE y = x /\ (Busy(x) /\ x.k.write = <<>> => x.k.state # IF p = Server THEN S_GOT_KEY ELSE S_START)
  BY <1>1, StepsSelf
<1>2. CASE Busy(x) /\ x.k.write = <<>> /\ x.k.state = IF p = Server THEN S_GOT_KEY ELSE S_START
  <2>1. AtWork(W, p, i, x, k) /\ ~x.error BY <1>2, WorkingIs DEF Busy
  <2>2. y = Goto(KeyMethod2Write(x), S_SENT_KEY) BY <1>0, <1>2 DEF SendKey
  <2> PICK me : me = Me(x) OBVIOUS
  <2>3. PICK dk : KeyMethod2Write(x) = [x EXCEPT !.k.write = <<<<"key", me>>>>, !.k.key = dk]
    BY Zenon DEF KeyMethod2Write
  <2>4. Beside(x, y) /\ k2 = [k EXCEPT !.write = <<<<"key", me>>>>, !.key = dk, !.state = S_SENT_KEY]
    <3> PICK z : z = [x EXCEPT !.k.write = <<<<"key", me>>>>, !.k.key = dk] OBVIOUS
    <3>1. Beside(x, z) /\ z.k = [k EXCEPT !.write = <<<<"key", me>>>>, !.key = dk]
      BY <2>1 DEF AtWork, WorkFields, KeyFields, Beside
    <3>2. y = [z EXCEPT !.k.state = S_SENT_KEY, !.change = TRUE] BY <2>2, <2>3 DEF Goto
    <3> HIDE DEF y
    <3> QED BY <2>1, <3>1, <3>2 DEF AtWork, WorkFields, KeyFields, Beside
  <2>5. /\ Keeps(k, k2, {"state", "write", "key"}) /\ k2.write = <<<<"key", me>>>>
        /\ k2.state = S_SENT_KEY /\ k2.next = k.next /\ k2.keyId = k.keyId /\ k2.recNext = k.recNext /\ k2.rec = k.rec /\ k2.due = k.due
        /\ k2.tls = k.tls
    <3>1. k2 = [k EXCEPT !.write = <<<<"key", me>>>>, !.key = dk, !.state = S_SENT_KEY] BY <2>4
    <3> HIDE DEF y, k2
    <3> QED BY <2>1, <3>1 DEF AtWork, Keeps, KeyFields
  <2> HIDE DEF y, k2
  <2>6. KeyGood(p, k2, <<W.sid[p][i], k.keyId>>, W.written[p], W.written[Other(p)]) /\ Quietly(p, k, k2)
    <3>1. PICK nm, w, v : nm = <<W.sid[p][i], k.keyId>> /\ w = W.written[p] /\ v = W.written[Other(p)] OBVIOUS
    <3>2. KeyGood(p, k, nm, w, v) /\ k.state = (IF p = Server THEN S_GOT_KEY ELSE S_START)
      BY <1>2, <2>1, <3>1 DEF AtWork
    <3>3. PICK t \in Text : t = <<"key", me>> /\ t[1] = "key"
      <4>1. me \in Names(p) BY <2>1, HeldName DEF AtWork
      <4>2. me \in Names(Client) \cup Names(Server)
        <5>1. p = Client \/ p = Server BY DEF Peers
        <5> QED BY <4>1, <5>1, Zenon
      <4>3. <<"key", me>> \in {"key"} \X (Names(Client) \cup Names(Server)) BY <4>2
      <4>4. <<"key", me>> \in Text BY <4>3, Zenon DEF Text
      <4>5. <<"key", me>>[1] = "key" OBVIOUS
      <4> QED BY <4>4, <4>5, Zenon
    <3>4. k2.write = <<t>> BY <2>5, <3>3
    <3> HIDE DEF k
    <3>5. KeyGood(p, k2, nm, w, v) /\ Quietly(p, k, k2) BY <2>5, <3>2, <3>3, <3>4, KeySends
    <3> QED BY <3>1, <3>5
  <2>7. Onward(p, k, k2) /\ Rank(p, k2.state) # Rank(p, k.state)
    BY <1>2, <2>1, <2>5 DEF Onward, Measured, AtWork, Rank
  <2>8. Steps(W, p, i, x, y) BY <2>1, <2>4, <2>5, <2>6, <2>7, QuietSteps DEF Beside, k2
  <2> QED BY <2>4, <2>7, <2>8 DEF y, k2, Beside
<1> QED BY <1>0, <1>1, <1>2 DEF SendKey

LEMMA ReceiveKeySteps ==
  ASSUME NEW W, NEW p \in Peers, NEW i \in Slots, NEW x, WorkFine(W, p, i, x)
  PROVE  /\ Steps(W, p, i, x, ReceiveKey(x)) /\ ReceiveKey(x).stop = x.stop
         /\ \/ ReceiveKey(x) = x /\ (Busy(x) /\ x.k.read # <<>> => x.k.state # IF p = Server THEN S_START ELSE S_SENT_KEY)
            \/ ReceiveKey(x).error
            \/ Rank(p, ReceiveKey(x).k.state) # Rank(p, x.k.state)
<1> DEFINE y == ReceiveKey(x)
           k == x.k
           k2 == y.k
<1>0. x.p = p BY DEF WorkFine
<1>1. CASE y = x /\ (Busy(x) /\ x.k.read # <<>> => x.k.state # IF p = Server THEN S_START ELSE S_SENT_KEY)
  BY <1>1, StepsSelf
<1>2. CASE y = Fail(x)
  <2>1. Fail(x).stop = x.stop BY DEF WorkFine, Fail, WorkFields
  <2> QED BY <1>2, <2>1, FailSteps
<1>3. CASE /\ Busy(x) /\ x.k.read # <<>> /\ x.k.state = (IF p = Server THEN S_START ELSE S_SENT_KEY)
           /\ ~(x.k.read[1][1] # "key" \/ x.env.keyFails)
  <2>1. AtWork(W, p, i, x, k) /\ ~x.error BY <1>3, WorkingIs DEF Busy
  <2>2. PICK a, s, dk : KeyMethod2Read(x) = [x EXCEPT !.k.read = <<>>, !.k.auth = a, !.k.src = s, !.k.key = dk]
    BY <1>3, Zenon DEF KeyMethod2Read
  <2>3. Beside(x, y) /\ k2 = [k EXCEPT !.read = <<>>, !.auth = a, !.src = s, !.key = dk, !.state = S_GOT_KEY]
    <3> PICK z : z = [x EXCEPT !.k.read = <<>>, !.k.auth = a, !.k.src = s, !.k.key = dk] OBVIOUS
    <3>1. Beside(x, z) /\ z.k = [k EXCEPT !.read = <<>>, !.auth = a, !.src = s, !.key = dk]
      BY <2>1 DEF AtWork, WorkFields, KeyFields, Beside
    <3>2. y = [z EXCEPT !.k.state = S_GOT_KEY, !.change = TRUE]
      BY <1>0, <1>3, <2>1, <2>2, <3>1 DEF Goto, ReceiveKey, Beside
    <3> HIDE DEF y
    <3> QED BY <2>1, <3>1, <3>2 DEF AtWork, WorkFields, KeyFields, Beside
  <2>4. /\ Keeps(k, k2, {"state", "read", "auth", "src", "key"}) /\ k2.read = <<>>
        /\ k2.state = S_GOT_KEY /\ k2.next = k.next /\ k2.keyId = k.keyId /\ k2.recNext = k.recNext /\ k2.rec = k.rec /\ k2.due = k.due
        /\ k2.tls = k.tls
    <3>1. k2 = [k EXCEPT !.read = <<>>, !.auth = a, !.src = s, !.key = dk, !.state = S_GOT_KEY] BY <2>3
    <3> HIDE DEF y, k2
    <3> QED BY <2>1, <3>1 DEF AtWork, Keeps, KeyFields
  <2> HIDE DEF y, k2
  <2>5. KeyGood(p, k2, <<W.sid[p][i], k.keyId>>, W.written[p], W.written[Other(p)]) /\ Quietly(p, k, k2)
    <3>1. PICK nm, w, v : nm = <<W.sid[p][i], k.keyId>> /\ w = W.written[p] /\ v = W.written[Other(p)] OBVIOUS
    <3>2. KeyGood(p, k, nm, w, v) /\ k.state = (IF p = Server THEN S_START ELSE S_SENT_KEY) /\ k.read # <<>> /\ k.read[1][1] = "key"
      BY <1>3, <2>1, <3>1 DEF AtWork
    <3> HIDE DEF k
    <3>3. KeyGood(p, k2, nm, w, v) /\ Quietly(p, k, k2) BY <2>4, <3>2, KeyHears
    <3> QED BY <3>1, <3>3
  <2>6. Onward(p, k, k2) /\ Rank(p, k2.state) # Rank(p, k.state)
    BY <1>3, <2>1, <2>4 DEF Onward, Measured, AtWork, Rank
  <2>7. Steps(W, p, i, x, y) BY <2>1, <2>3, <2>4, <2>5, <2>6, QuietSteps DEF Beside, k2
  <2> QED BY <2>3, <2>6, <2>7 DEF y, k2, Beside
<1>4. \/ y = x /\ (Busy(x) /\ x.k.read # <<>> => x.k.state # IF p = Server THEN S_START ELSE S_SENT_KEY)
      \/ y = Fail(x)
      \/ /\ Busy(x) /\ x.k.read # <<>> /\ x.k.state = (IF p = Server THEN S_START ELSE S_SENT_KEY)
         /\ ~(x.k.read[1][1] # "key" \/ x.env.keyFails)
  <2>1. Fail(x).error BY FailSteps
  <2> QED BY <1>0, <2>1 DEF ReceiveKey, KeyMethod2Read
<1> QED BY <1>1, <1>2, <1>3, <1>4

LEMMA WritePlaintextSteps ==
  ASSUME NEW W, NEW p \in Peers, NEW i \in Slots, NEW x, WorkFine(W, p, i, x)
  PROVE  /\ Steps(W, p, i, x, WritePlaintext(x)) /\ WritePlaintext(x).stop = x.stop /\ WritePlaintext(x).error = x.error
         /\ Busy(x) /\ WritePlaintext(x).k.tls.phase = "done" => WritePlaintext(x).k.write = <<>>
<1> DEFINE y == WritePlaintext(x)
           k == x.k
           k2 == y.k
<1>1. CASE ~(Busy(x) /\ x.k.write # <<>> /\ x.k.tls.phase = "done")
  <2>1. y = x BY <1>1 DEF WritePlaintext
  <2> QED BY <1>1, <2>1, StepsSelf
<1>2. CASE Busy(x) /\ x.k.write # <<>> /\ x.k.tls.phase = "done"
  <2>1. AtWork(W, p, i, x, k) /\ ~x.error BY <1>2, WorkingIs DEF Busy
  <2>2. y = [x EXCEPT !.k.tls.out = Append(@, x.k.write[1]), !.k.write = <<>>, !.change = TRUE]
    BY <1>2 DEF WritePlaintext
  <2>3. Beside(x, y) /\ k2 = [k EXCEPT !.tls.out = Append(@, k.write[1]), !.write = <<>>]
    <3> HIDE DEF y
    <3> QED BY <2>1, <2>2 DEF AtWork, WorkFields, KeyFields, TlsFields, Beside
  <2>4. /\ Keeps(k, k2, {"write", "tls"}) /\ KeepsTls(k.tls, k2.tls, {"out"})
        /\ k2.write = <<>> /\ k2.tls.out = Append(k.tls.out, k.write[1]) /\ k2.tls.in = k.tls.in
        /\ k2.state = k.state /\ k2.next = k.next /\ k2.keyId = k.keyId /\ k2.recNext = k.recNext /\ k2.rec = k.rec /\ k2.due = k.due
    <3>1. k2 = [k EXCEPT !.tls.out = Append(@, k.write[1]), !.write = <<>>] BY <2>3
    <3> HIDE DEF y, k2
    <3> QED BY <2>1, <3>1 DEF AtWork, Keeps, KeyFields, KeepsTls, TlsFields
  <2> HIDE DEF y, k2
  <2>5. KeyGood(p, k2, <<W.sid[p][i], k.keyId>>, W.written[p], W.written[Other(p)]) /\ Quietly(p, k, k2)
    <3>1. PICK nm, w, v : nm = <<W.sid[p][i], k.keyId>> /\ w = W.written[p] /\ v = W.written[Other(p)] OBVIOUS
    <3>2. KeyGood(p, k, nm, w, v) /\ k.write # <<>> /\ k.tls.phase = "done" BY <1>2, <2>1, <3>1 DEF AtWork
    <3> HIDE DEF k
    <3>3. KeyGood(p, k2, nm, w, v) /\ Quietly(p, k, k2) BY <2>4, <3>2, KeyPasses
    <3> QED BY <3>1, <3>3
  <2>6. Onward(p, k, k2)
    <3>1. Onward(p, k, k) BY <2>1, OnwardSelf DEF AtWork
    <3> QED BY <2>4, <3>1 DEF Onward, Measured
  <2>7. Steps(W, p, i, x, y) BY <2>1, <2>3, <2>4, <2>5, <2>6, QuietSteps DEF Beside, k2
  <2> QED BY <2>3, <2>4, <2>7 DEF y, k2, Beside
<1> QED BY <1>1, <1>2

LEMMA CanOutputEarly ==
  ASSUME NEW p, NEW k, NEW nm, NEW w, NEW v, KeyGood(p, k, nm, w, v), k.next <= 3
  PROVE  CanOutput(k)
<1> SUFFICES ASSUME k.unacked # {} PROVE k.next - Min(Packets(k)) < SendBuffers BY DEF CanOutput
<1>1. /\ k.next \in Nat /\ \A u \in k.unacked : u.pid \in 0..(k.next - 1) BY DEF KeyGood, Shaped, Sends
<1>2. PICK S : S = Packets(k) OBVIOUS
<1>3. S \in SUBSET Nat /\ S # {} BY <1>1, <1>2 DEF Packets
<1>4. Min(S) \in S BY <1>3, Least
<1> QED BY <1>1, <1>2, <1>3, <1>4 DEF SendBuffers

LEMMA WriteCiphertextIs ==
  ASSUME NEW W, NEW p \in Peers, NEW i \in Slots, NEW x, WorkFine(W, p, i, x),
         Busy(x), x.k.state >= S_START, CanOutput(x.k), HasCiphertext(x.p, x.k.tls)
  PROVE  /\ Beside(x, WriteCiphertext(x))
         /\ Ciphered(x.k, WriteCiphertext(x).k, "control", Ciphertext(x.k.tls, Me(x)), AfterCiphertext(p, x.k.tls))
<1>1. AtWork(W, p, i, x, x.k) /\ ~x.error BY WorkingIs DEF Busy
<1> PICK k, n, body, tls, op : /\ k = x.k /\ n = k.next /\ body = Ciphertext(x.k.tls, Me(x)) /\ tls = AfterCiphertext(p, x.k.tls)
                          /\ op = "control"
  OBVIOUS
<1> PICK u : u = [pid |-> n, op |-> op, body |-> body] OBVIOUS
<1>2. PICK c : c = [k EXCEPT !.unacked = @ \cup {u}, !.due = @ \cup {n}, !.next = @ + 1] OBVIOUS
<1>3. PICK k2 : k2 = [c EXCEPT !.tls = tls] OBVIOUS
<1>4. KeyFields \subseteq DOMAIN k /\ WorkFields \subseteq DOMAIN x BY <1>1 DEF AtWork
<1>5. c.tls = k.tls BY <1>2, <1>4 DEF KeyFields
<1>6. WriteCiphertext(x) = [x EXCEPT !.k = k2, !.change = TRUE]
  <2>1. MarkOutgoing(x.k, "control", Ciphertext(x.k.tls, Me(x))) = c BY <1>2 DEF MarkOutgoing
  <2>2. [c EXCEPT !.tls = AfterCiphertext(x.p, @)] = k2 BY <1>1, <1>3, <1>5 DEF AtWork
  <2> QED BY <2>1, <2>2 DEF WriteCiphertext
<1>7. Beside(x, WriteCiphertext(x)) /\ WriteCiphertext(x).k = k2 BY <1>4, <1>6, OnlyKey
<1>8. Ciphered(k, k2, op, body, tls)
  <2>1. k2 = [k EXCEPT !.unacked = @ \cup {u}, !.due = @ \cup {n}, !.next = @ + 1, !.tls = tls] BY <1>2, <1>3
  <2> QED BY <2>1, <1>4 DEF Ciphered, Keeps, KeyFields
<1> QED BY <1>7, <1>8

LEMMA WriteCiphertextSteps ==
  ASSUME NEW W, NEW p \in Peers, NEW i \in Slots, NEW x, WorkFine(W, p, i, x), Resting(W, Other(p))
  PROVE  Steps(W, p, i, x, WriteCiphertext(x)) /\ WriteCiphertext(x).stop = x.stop /\ WriteCiphertext(x).error = x.error
<1> DEFINE y == WriteCiphertext(x)
           k == x.k
           k2 == y.k
           nm == <<W.sid[p][i], k.keyId>>
           u == [pid |-> k.next, op |-> "control", body |-> Ciphertext(k.tls, nm)]
<1>1. CASE ~(Busy(x) /\ x.k.state >= S_START /\ CanOutput(x.k) /\ HasCiphertext(x.p, x.k.tls))
  <2>1. y = x BY <1>1 DEF WriteCiphertext
  <2> QED BY <2>1, StepsSelf
<1>2. CASE Busy(x) /\ x.k.state >= S_START /\ CanOutput(x.k) /\ HasCiphertext(x.p, x.k.tls)
  <2>1. AtWork(W, p, i, x, k) /\ ~x.error BY <1>2, WorkingIs DEF Busy
  <2>2. /\ Beside(x, y)
        /\ Keeps(k, k2, {"next", "unacked", "due", "tls"}) /\ k2.tls = AfterCiphertext(p, k.tls) /\ k2.next = k.next + 1
        /\ k2.unacked = k.unacked \cup {u} /\ k2.due = k.due \cup {k.next}
    <3>1. Beside(x, y) /\ Ciphered(k, k2, "control", Ciphertext(k.tls, Me(x)), AfterCiphertext(p, k.tls))
      BY <1>2, WriteCiphertextIs
    <3>2. Me(x) = nm BY <2>1 DEF AtWork
    <3> HIDE DEF y
    <3> QED BY <3>1, <3>2 DEF Ciphered
  <2>3. k2.state = k.state /\ k2.keyId = k.keyId /\ k2.recNext = k.recNext /\ k2.rec = k.rec
    <3> HIDE DEF y, k2
    <3> QED BY <2>2 DEF Keeps, KeyFields
  <2>4. PICK uu : uu = u OBVIOUS
  <2>5. Ciphertext(k.tls, nm) = uu.body /\ uu.pid = k.next BY <2>4
  <2> HIDE DEF y, k2, u
  <2>6. KeyGood(p, k, nm, W.written[p], W.written[Other(p)]) /\ HasCiphertext(p, k.tls) /\ k.state >= S_START
    BY <1>2, <2>1 DEF AtWork
  <2>7. TlsFields \subseteq DOMAIN k.tls BY <2>1 DEF AtWork
  <2>8. Holds(W, p, i, k, Sent(x.link)) BY <2>1 DEF AtWork
  <2>9. Holds(W, p, i, k2, Sent(x.link)) /\ k2.tls.in = k.tls.in
    <3>1. Live(k2) BY <2>1, <2>3, KeyFineIs DEF AtWork, Live
    <3> PICK n, t, t2, t1, m : n = k.next /\ t = k.tls /\ t2 = k2.tls /\ t1 = AfterCiphertext(p, k.tls) /\ m = nm
      OBVIOUS
    <3>2. CASE k.tls.phase = "done"
      <4>1. uu.body = Cipher({nm, k.tls.peer}, Head(k.tls.out)) /\ k.tls.out # <<>>
        BY <2>5, <2>6, <3>2 DEF Ciphertext, HasCiphertext
      <4>2. KeepsTls(k.tls, k2.tls, {"out"}) /\ k2.tls.out = Tail(k.tls.out) /\ k2.tls.in = k.tls.in
        <5>1. t2 = [t EXCEPT !.out = Tail(@)] BY <2>2, <3>2 DEF AfterCiphertext
        <5>2. TlsFields \subseteq DOMAIN t BY <2>7
        <5>3. KeepsTls(t, t2, {"out"}) /\ t2.out = Tail(t.out) /\ t2.in = t.in
          BY <5>1, <5>2 DEF KeepsTls, TlsFields
        <5> QED BY <5>3
      <4>3. uu.body.kind = "record" /\ uu.body.conn = {nm, k.tls.peer} /\ uu.body.text = Head(k.tls.out) /\ uu.body # Null
        <5> PICK c, h : c = {nm, k.tls.peer} /\ h = Head(k.tls.out) OBVIOUS
        <5>1. uu.body = [kind |-> "record", conn |-> c, text |-> h] BY <4>1 DEF Cipher
        <5> QED BY <5>1 DEF Null
      <4>4. Posts(p, k, k2, nm, uu) BY <2>2, <2>4, <2>5, <3>2, <4>1, <4>2, <4>3 DEF Posts, Wrote
      <4> QED BY <2>3, <2>8, <3>1, <4>2, <4>4, HoldsPosted
    <3>3. CASE k.tls.phase # "done"
      <4>1. uu.body = Hello(nm) /\ k.tls.phase = (IF p = Server THEN "greeted" ELSE "start")
        BY <2>5, <2>6, <3>3 DEF Ciphertext, HasCiphertext
      <4>2. /\ KeepsTls(k.tls, k2.tls, {"phase"}) /\ k2.tls.phase = (IF p = Server THEN "done" ELSE "greeted")
            /\ k2.tls.in = k.tls.in
        <5>1. t2 = [t EXCEPT !.phase = IF p = Server THEN "done" ELSE "greeted"]
          BY <2>2, <3>3 DEF AfterCiphertext
        <5>2. TlsFields \subseteq DOMAIN t BY <2>7
        <5>3. KeepsTls(t, t2, {"phase"}) /\ t2.phase = (IF p = Server THEN "done" ELSE "greeted") /\ t2.in = t.in
          BY <5>1, <5>2 DEF KeepsTls, TlsFields
        <5> QED BY <5>3
      <4>3. uu.body.kind = "hello" /\ uu.body.from = nm /\ uu.body # Null
        <5>1. uu.body = [kind |-> "hello", from |-> m] BY <4>1 DEF Hello
        <5> QED BY <5>1 DEF Null
      <4>4. GreetsFirst(p, k, k2, nm, uu) BY <2>2, <2>4, <2>5, <2>6, <4>1, <4>2, <4>3 DEF GreetsFirst, Wrote
      <4> QED BY <2>3, <2>8, <3>1, <4>2, <4>4, HoldsGreeted
    <3> QED BY <3>2, <3>3
  <2>10. Onward(p, k, k2)
    <3>1. Onward(p, k, k) BY <2>1, OnwardSelf DEF AtWork
    <3> QED BY <2>2, <2>3, <2>9, <3>1 DEF Onward, Measured
  <2>11. Steps(W, p, i, x, y) BY <2>1, <2>2, <2>9, <2>10, KeySteps DEF Beside, k2
  <2> QED BY <2>2, <2>11 DEF y, k2, Beside
<1> QED BY <1>1, <1>2

(* When the loop's last steps have been made, a key method message has left as soon as it can. *)
LEMMA WriteFlushes ==
  ASSUME NEW W, NEW p \in Peers, NEW i \in Slots, NEW x, WorkFine(W, p, i, x), Resting(W, Other(p)), Busy(x)
  PROVE  Flushed(p, WriteCiphertext(WritePlaintext(x)).k)
<1> PICK y : y = WritePlaintext(x) OBVIOUS
<1> PICK z : z = WriteCiphertext(y) OBVIOUS
<1>1. WorkFine(W, p, i, y) /\ ~y.error /\ Busy(y) /\ (y.k.tls.phase = "done" => y.k.write = <<>>)
  BY WritePlaintextSteps DEF Busy, Steps
<1>2. WorkFine(W, p, i, z) /\ ~z.error BY <1>1, WriteCiphertextSteps DEF Steps
<1>3. AtWork(W, p, i, y, y.k) /\ AtWork(W, p, i, z, z.k) BY <1>1, <1>2, WorkingIs
<1> PICK k, k2, nm, nm2, w, v : /\ k = y.k /\ k2 = z.k /\ nm = <<W.sid[p][i], k.keyId>> /\ nm2 = <<W.sid[p][i], k2.keyId>>
                           /\ w = W.written[p] /\ v = W.written[Other(p)]
  OBVIOUS
<1>4. KeyGood(p, k, nm, w, v) /\ KeyGood(p, k2, nm2, w, v) /\ (k.tls.phase = "done" => k.write = <<>>)
  BY <1>1, <1>3 DEF AtWork
<1>5. SUFFICES ASSUME k2.tls.phase = "done", KeySent(p, k2) PROVE k2.next >= 3 BY DEF Flushed
<1>6. k2.next >= 2 /\ k2.next \in Nat /\ k.next \in Nat BY <1>4, <1>5 DEF KeyGood, Sends, Shaped, HelloSent
<1>7. CASE z = y
  <2> SUFFICES ASSUME k.next = 2 PROVE FALSE BY <1>6, <1>7
  <2>1. KeyText(k.tls.out)
    <3>1. k.write = <<>> BY <1>4, <1>5, <1>7
    <3>2. ~KeyText(k.write) BY <3>1 DEF KeyText
    <3> QED BY <1>4, <1>5, <1>7, <3>2 DEF KeyGood, Sends
  <2>2. k.tls.out # <<>> BY <2>1 DEF KeyText
  <2>3. HasCiphertext(p, k.tls) BY <1>5, <1>7, <2>2 DEF HasCiphertext
  <2>4. CanOutput(k) BY <1>4, CanOutputEarly
  <2>5. k.state >= S_START
    <3>1. k.state \in Int /\ k2 = k BY <1>4, <1>7 DEF KeyGood, Shaped
    <3> QED BY <1>5, <3>1 DEF KeySent
  <2>6. Ciphered(y.k, z.k, "control", Ciphertext(y.k.tls, Me(y)), AfterCiphertext(p, y.k.tls))
    BY <1>1, <1>3, <2>3, <2>4, <2>5, WriteCiphertextIs DEF AtWork
  <2>7. z.k.next = y.k.next + 1 BY <2>6 DEF Ciphered
  <2> QED BY <1>6, <1>7, <2>7
<1>8. CASE z # y
  <2>1. k.state >= S_START /\ CanOutput(y.k) /\ HasCiphertext(p, k.tls)
    BY Zenon, <1>3, <1>8 DEF WriteCiphertext, AtWork
  <2>2. Ciphered(y.k, z.k, "control", Ciphertext(y.k.tls, Me(y)), AfterCiphertext(p, y.k.tls))
    BY <1>1, <1>3, <2>1, WriteCiphertextIs DEF AtWork
  <2>3. k2.next = k.next + 1 /\ k2.tls = AfterCiphertext(p, k.tls) /\ k2.state = k.state /\ KeyFields \subseteq DOMAIN k
    BY <1>3, <2>2 DEF Ciphered, Keeps, KeyFields, AtWork
  <2>4. k.tls.phase = "done"
    <3> SUFFICES ASSUME k.tls.phase # "done" PROVE FALSE OBVIOUS
    <3> PICK t, t2 : t = k.tls /\ t2 = k2.tls OBVIOUS
    <3>1. t2 = [t EXCEPT !.phase = IF p = Server THEN "done" ELSE "greeted"] /\ TlsFields \subseteq DOMAIN t
      BY <1>3, <2>3 DEF AfterCiphertext, AtWork
    <3>2. t2.phase = IF p = Server THEN "done" ELSE "greeted" BY <3>1 DEF TlsFields
    <3>3. p = Server BY <1>5, <3>2
    <3>4. DecryptKeyEnabled(p, k) BY <1>5, <2>3, <3>3 DEF KeySent, DecryptKeyEnabled
    <3> QED BY <1>4, <3>4 DEF KeyGood, Receives
  <2>5. k.next >= 2 BY <1>4, <2>4 DEF KeyGood, Sends, HelloSent
  <2> QED BY <1>6, <2>3, <2>5
<1> QED BY <1>7, <1>8

LEMMA AcknowledgeSteps ==
  ASSUME NEW W, NEW p \in Peers, NEW i \in Slots, NEW x, WorkFine(W, p, i, x)
  PROVE  /\ Steps(W, p, i, x, Acknowledge(x)) /\ Acknowledge(x).error = x.error
         /\ ~x.error /\ Flushed(p, x.k) => Flushed(p, Acknowledge(x).k)
<1> DEFINE y == Acknowledge(x)
           k == x.k
           k2 == y.k
<1>1. CASE y = x BY <1>1, StepsSelf
<1>2. CASE ~x.error /\ x.link = NoPacket /\ x.k.acks # {}
  <2>1. AtWork(W, p, i, x, k) BY <1>2, WorkingIs
  <2>4. PICK m : m = ControlPacket(x, "ack", 0, Null) OBVIOUS
  <2>5. m.sid = W.sid[p][i] /\ m.kid = k.keyId /\ m.acks = k.acks /\ m.pid = 0 /\ m.body = Null /\ m # NoPacket
    <3>1. ControlPacket(x, "ack", 0, Null) # NoPacket BY DEF ControlPacket, NoPacket
    <3> QED BY <2>1, <2>4, <3>1 DEF ControlPacket, AtWork
  <2>6. y = [x EXCEPT !.link = m, !.k.acks = {}] BY <1>2, <2>4 DEF Acknowledge
  <2>7. /\ WorkFields \subseteq DOMAIN y /\ y.p = x.p /\ y.sid = x.sid /\ y.stop = x.stop /\ y.error = x.error /\ y.link = m
        /\ k2 = [k EXCEPT !.acks = {}]
    <3> HIDE DEF y
    <3> QED BY <2>1, <2>6 DEF WorkFields, AtWork
  <2>8. /\ Keeps(k, k2, {"due", "acks", "addr"}) /\ k2.acks = {} /\ k2.due = k.due /\ k2.addr = k.addr
        /\ k2.state = k.state /\ k2.next = k.next /\ k2.keyId = k.keyId /\ k2.recNext = k.recNext /\ k2.rec = k.rec
        /\ k2.tls = k.tls
    <3> HIDE DEF y
    <3>1. k2 = [k EXCEPT !.acks = {}] BY <2>7
    <3> HIDE DEF k2
    <3> QED BY <2>1, <3>1 DEF Keeps, KeyFields, AtWork
  <2> HIDE DEF y, k2
  <2>9. KeyGood(p, k2, <<W.sid[p][i], k.keyId>>, W.written[p], W.written[Other(p)]) /\ Quietly(p, k, k2)
    <3>1. PICK nm, w, v : nm = <<W.sid[p][i], k.keyId>> /\ w = W.written[p] /\ v = W.written[Other(p)] OBVIOUS
    <3>2. KeyGood(p, k, nm, w, v) /\ k2.due \subseteq Packets(k)
      BY <2>1, <2>8, <3>1 DEF KeyGood, Sends, AtWork
    <3>3. KeyGood(p, k2, nm, w, v) /\ Quietly(p, k, k2)
      <4>1. Keeps(k, k2, {"due", "acks", "addr"}) /\ k2.acks \subseteq k.acks /\ k2.addr = k.addr BY <2>8
      <4> HIDE DEF k
      <4> QED BY <3>2, <4>1, KeyAcks
    <3> QED BY <3>1, <3>3
  <2>10. Onward(p, k, k2)
    <3>1. Onward(p, k, k) BY <2>1, OnwardSelf DEF AtWork
    <3> QED BY <2>8, <3>1 DEF Onward, Measured
  <2>11. Holds(W, p, i, k2, Sent(y.link))
    <3>1. Sent(x.link) \cup {m} = Sent(y.link) BY <1>2, <2>5, <2>7 DEF Sent
    <3>2. KeyFine(W, p, i, k2) BY <2>8, <2>9 DEF KeyFine
    <3>3. Holds(W, p, i, k2, Sent(x.link) \cup {m}) BY <2>1, <2>5, <2>8, <2>9, <3>2, HoldsSent DEF AtWork
    <3> QED BY <3>1, <3>3
  <2>12. Steps(W, p, i, x, y)
    <3>1. x.stop \in BOOLEAN /\ x.error \in BOOLEAN BY DEF WorkFine
    <3> QED BY <1>2, <2>1, <2>7, <2>10, <2>11, <3>1 DEF Steps, WorkFine, k2, AtWork
  <2>14. Flushed(p, k) => Flushed(p, k2) BY <2>8 DEF Flushed, KeySent
  <2> QED BY <1>2, <2>7, <2>12, <2>14 DEF y, k2
<1> QED BY <1>1, <1>2 DEF Acknowledge

(* A round, and all rounds: when nothing changes any more, the key has nothing left to do, and
   its key method message has not stayed behind. *)

LEMMA UnchangedSteps ==
  ASSUME NEW W, NEW p \in Peers, NEW i \in Slots, NEW x, WorkFine(W, p, i, x)
  PROVE  /\ Steps(W, p, i, x, [x EXCEPT !.change = FALSE])
         /\ [x EXCEPT !.change = FALSE].error = x.error /\ [x EXCEPT !.change = FALSE].stop = x.stop
         /\ [x EXCEPT !.change = FALSE].k = x.k
<1> PICK y : y = [x EXCEPT !.change = FALSE] OBVIOUS
<1>1. WorkFields \subseteq DOMAIN x BY DEF WorkFine
<1>2. y.p = x.p /\ y.sid = x.sid /\ y.k = x.k /\ y.link = x.link /\ y.stop = x.stop /\ y.error = x.error /\ WorkFields \subseteq DOMAIN y
  BY <1>1 DEF WorkFields
<1>3. WorkFine(W, p, i, y) BY <1>2 DEF WorkFine
<1>4. ~x.error => Onward(p, x.k, y.k) BY <1>2, WorkIs, OnwardSelf
<1> QED BY <1>2, <1>3, <1>4 DEF Steps

LEMMA BegunInitial ==
  ASSUME NEW W, NEW p \in Peers, NEW i \in Slots, NEW x, WorkFine(W, p, i, x), ~x.error, Flushed(p, x.k)
  PROVE  Begun(p, InitialHandshake(x))
<1>1. AtWork(W, p, i, x, x.k) BY WorkingIs
<1> PICK k, nm, w, v : k = x.k /\ nm = <<W.sid[p][i], k.keyId>> /\ w = W.written[p] /\ v = W.written[Other(p)]
  OBVIOUS
<1>2. KeyGood(p, k, nm, w, v) /\ KeyFields \subseteq DOMAIN k /\ WorkFields \subseteq DOMAIN x
  BY <1>1 DEF AtWork
<1>3. CASE k.state # S_INITIAL BY <1>3 DEF InitialHandshake, Begun
<1>4. CASE k.state = S_INITIAL
  <2>1. k.next = 0 BY <1>2, <1>4 DEF KeyGood, Sends
  <2>2. CanOutput(k) BY <1>2, <2>1, CanOutputEarly
  <2> PICK k2 : k2 = [MarkOutgoing(x.k, x.k.opcode, Null) EXCEPT !.state = S_PRE_START, !.negotiating = TRUE, !.young = TRUE]
    OBVIOUS
  <2> PICK g : g = Goto(x, S_PRE_START) OBVIOUS
  <2>3. InitialHandshake(x) = [g EXCEPT !.k = k2] BY <1>4, <2>2 DEF InitialHandshake
  <2>4. WorkFields \subseteq DOMAIN g BY <1>2 DEF Goto, WorkFields
  <2>5. InitialHandshake(x).k = k2 BY <2>3, <2>4 DEF WorkFields
  <2>6. k2.state = S_PRE_START BY <1>2 DEF MarkOutgoing, KeyFields
  <2> QED BY <2>5, <2>6 DEF Begun, Flushed, KeySent
<1> QED BY <1>3, <1>4

LEMMA BegunTimeOut ==
  ASSUME NEW W, NEW p \in Peers, NEW i \in Slots, NEW x, WorkFine(W, p, i, x), ~x.error, Begun(p, x)
  PROVE  Begun(p, TimeOut(x))
<1>1. AtWork(W, p, i, x, x.k) BY WorkingIs
<1> PICK k, nm, w, v : k = x.k /\ nm = <<W.sid[p][i], k.keyId>> /\ w = W.written[p] /\ v = W.written[Other(p)]
  OBVIOUS
<1>2. KeyGood(p, k, nm, w, v) /\ KeyFields \subseteq DOMAIN k /\ WorkFields \subseteq DOMAIN x
  BY <1>1 DEF AtWork
<1>3. CASE TimeOut(x) = x BY <1>3
<1>4. CASE TimeOut(x) = Fail(x) BY <1>4, FailSteps DEF Begun
<1>5. CASE /\ k.state >= S_ACTIVE
           /\ TimeOut(x) = [x EXCEPT !.k.state = S_NORMAL_OP, !.k.negotiating = FALSE, !.k.young = FALSE]
  <2> PICK y : y = TimeOut(x) OBVIOUS
  <2>1. y = [x EXCEPT !.k.state = S_NORMAL_OP, !.k.negotiating = FALSE, !.k.young = FALSE] BY <1>5
  <2>2. y.k.state = S_NORMAL_OP /\ y.k.next = k.next
    <3> PICK k2 : k2 = [k EXCEPT !.state = S_NORMAL_OP, !.negotiating = FALSE, !.young = FALSE] OBVIOUS
    <3>1. k2.state = S_NORMAL_OP /\ k2.next = k.next BY <1>2 DEF KeyFields
    <3>2. y.k = k2 BY <1>2, <2>1 DEF WorkFields
    <3> QED BY <3>1, <3>2
  <2>3. k.next >= 3 BY <1>2, <1>5 DEF KeyGood, Sends
  <2> QED BY <2>2, <2>3 DEF Begun, Flushed
<1>6. k.state \in Int BY <1>1 DEF AtWork
<1> QED BY <1>3, <1>4, <1>5, <1>6 DEF TimeOut

LEMMA BegunStart ==
  ASSUME NEW W, NEW p \in Peers, NEW i \in Slots, NEW x, WorkFine(W, p, i, x), Begun(p, x)
  PROVE  Begun(p, Start(x))
<1>1. CASE Start(x) = x BY <1>1
<1>2. CASE Start(x) = Goto(x, S_START) /\ ~x.error
  <2>1. AtWork(W, p, i, x, x.k) BY <1>2, WorkingIs
  <2>2. KeyFields \subseteq DOMAIN x.k /\ WorkFields \subseteq DOMAIN x BY <2>1 DEF AtWork
  <2>3. Goto(x, S_START).k.state = S_START BY <2>2 DEF Goto, KeyFields, WorkFields
  <2> QED BY <1>2, <2>3 DEF Begun, Flushed, KeySent
<1> QED BY <1>1, <1>2 DEF Start, Busy

LEMMA BegunActivate ==
  ASSUME NEW W, NEW p \in Peers, NEW i \in Slots, NEW x, WorkFine(W, p, i, x), Begun(p, x)
  PROVE  Begun(p, Activate(x))
<1>1. ~x.error => Flushed(p, Activate(x).k) BY ActivateSteps DEF Begun
<1>2. Activate(x).error = x.error /\ Steps(W, p, i, x, Activate(x)) BY ActivateSteps DEF Begun
<1>3. ~x.error => Onward(p, x.k, Activate(x).k) BY <1>2 DEF Steps
<1>4. ASSUME ~x.error PROVE Activate(x).k.state # S_INITIAL
  <2>1. x.k.state # S_INITIAL /\ x.k.state \in S_INITIAL..S_NORMAL_OP /\ Rank(p, x.k.state) <= Rank(p, Activate(x).k.state)
    BY <1>3, <1>4, WorkingIs DEF Begun, AtWork, Onward
  <2> QED BY <2>1 DEF Rank
<1> QED BY <1>1, <1>2, <1>4 DEF Begun

LEMMA BegunTransmit ==
  ASSUME NEW W, NEW p \in Peers, NEW i \in Slots, NEW x, WorkFine(W, p, i, x), Begun(p, x)
  PROVE  Begun(p, Transmit(x))
<1>1. ~x.error => Flushed(p, Transmit(x).k) BY TransmitSteps DEF Begun
<1>2. Transmit(x).error = x.error /\ Steps(W, p, i, x, Transmit(x)) BY TransmitSteps
<1>3. ~x.error => Onward(p, x.k, Transmit(x).k) BY <1>2 DEF Steps
<1>4. ASSUME ~x.error PROVE Transmit(x).k.state # S_INITIAL
  <2>1. x.k.state # S_INITIAL /\ x.k.state \in S_INITIAL..S_NORMAL_OP /\ Rank(p, x.k.state) <= Rank(p, Transmit(x).k.state)
    BY <1>3, <1>4, WorkingIs DEF Begun, AtWork, Onward
  <2> QED BY <2>1 DEF Rank
<1> QED BY <1>1, <1>2, <1>4 DEF Begun

LEMMA IdleSame ==
  ASSUME NEW p, NEW k, NEW k2, Same(p, k, k2), Idle(p, k), k.state \in S_INITIAL..S_NORMAL_OP, k2.state \in S_INITIAL..S_NORMAL_OP
  PROVE  Idle(p, k2)
<1>1. k2.state = k.state BY DEF Same, Rank
<1> QED BY <1>1 DEF Same, Idle, InOrder, DecryptKeyEnabled

LEMMA HeadSteps ==
  ASSUME NEW W, NEW p \in Peers, NEW i \in Slots, NEW x, WorkFine(W, p, i, x), Busy(x), Flushed(p, x.k)
  PROVE  /\ Steps(W, p, i, x, RoundHead(x)) /\ Begun(p, RoundHead(x))
         /\ ~RoundHead(x).error /\ Same(p, x.k, RoundHead(x).k) => Busy(RoundHead(x))
<1> PICK x0, x1, x2, x3, x4, x5 :
         /\ x0 = [x EXCEPT !.change = FALSE] /\ x1 = InitialHandshake(x0) /\ x2 = TimeOut(x1) /\ x3 = Start(x2)
         /\ x4 = Activate(x3) /\ x5 = Transmit(x4)
  OBVIOUS
<1>0. Steps(W, p, i, x, x0) /\ WorkFine(W, p, i, x0) /\ ~x0.error /\ ~x0.stop /\ Flushed(p, x0.k)
  BY UnchangedSteps DEF Busy, Steps
<1>1. Steps(W, p, i, x0, x1) /\ WorkFine(W, p, i, x1) /\ ~x1.error /\ ~x1.stop /\ Begun(p, x1)
  BY <1>0, InitialHandshakeSteps, BegunInitial DEF Steps
<1>2. Steps(W, p, i, x1, x2) /\ WorkFine(W, p, i, x2) /\ ~x2.stop /\ Begun(p, x2)
  BY <1>1, TimeOutSteps, BegunTimeOut DEF Steps
<1>3. Steps(W, p, i, x2, x3) /\ WorkFine(W, p, i, x3) /\ ~x3.stop /\ Begun(p, x3)
  BY <1>2, StartSteps, BegunStart DEF Steps
<1>4. Steps(W, p, i, x3, x4) /\ WorkFine(W, p, i, x4) /\ ~x4.stop /\ Begun(p, x4)
  BY <1>3, ActivateSteps, BegunActivate DEF Steps, Begun
<1>5. Steps(W, p, i, x4, x5) /\ WorkFine(W, p, i, x5) /\ Begun(p, x5) /\ x5.error = x4.error
      /\ (x5 = x4 \/ (x5.stop /\ ~x4.error /\ x5.k.due # x4.k.due))
  BY <1>4, TransmitSteps, BegunTransmit DEF Steps
<1>6. Steps(W, p, i, x, x4) BY <1>0, <1>1, <1>2, <1>3, <1>4, StepsOn
<1>7. Steps(W, p, i, x, x5) BY <1>5, <1>6, StepsOn
<1>8. ASSUME ~x5.error, Same(p, x.k, x5.k) PROVE Busy(x5)
  <2>1. Onward(p, x.k, x4.k) /\ Onward(p, x4.k, x5.k) BY <1>5, <1>6, <1>8 DEF Steps
  <2>2. Same(p, x4.k, x5.k) BY <1>8, <2>1, OnwardOn
  <2>3. x5 = x4 BY <1>5, <2>2 DEF Same
  <2> QED BY <1>4, <1>8, <2>3 DEF Busy
<1>9. RoundHead(x) = x5 BY DEF RoundHead
<1> QED BY <1>5, <1>7, <1>8, <1>9

LEMMA TailStopped ==
  ASSUME NEW x, ~Busy(x)
  PROVE  RoundTail(x) = x
<1>1. ReadCiphertext(x) = x /\ ReadPlaintext(x) = x /\ SendKey(x) = x /\ ReceiveKey(x) = x /\ WritePlaintext(x) = x
      /\ WriteCiphertext(x) = x
  <2>1. ReadCiphertext(x) = x BY Zenon DEF ReadCiphertext
  <2>2. ReadPlaintext(x) = x BY Zenon DEF ReadPlaintext
  <2>3. SendKey(x) = x BY Zenon DEF SendKey
  <2>4. ReceiveKey(x) = x BY Zenon DEF ReceiveKey
  <2>5. WritePlaintext(x) = x BY Zenon DEF WritePlaintext
  <2>6. WriteCiphertext(x) = x BY Zenon DEF WriteCiphertext
  <2> QED BY <2>1, <2>2, <2>3, <2>4, <2>5, <2>6
<1> QED BY <1>1 DEF RoundTail

LEMMA IdleWhen ==
  ASSUME NEW p \in Peers, NEW k, NEW nm, NEW w, NEW v, KeyGood(p, k, nm, w, v), InOrder(k) = {},
         k.read # <<>> \/ k.tls.in = <<>>,
         k.write = <<>> => k.state # IF p = Server THEN S_GOT_KEY ELSE S_START,
         k.read # <<>> => k.state # IF p = Server THEN S_START ELSE S_SENT_KEY
  PROVE  Idle(p, k)
<1>1. SUFFICES ASSUME k.recNext >= 3, ~DecryptKeyEnabled(p, k) PROVE FALSE BY DEF Idle
<1>2. KeyThenPays(Hand(k), v) /\ k.tls.phase = "done" /\ k.state \in S_INITIAL..S_NORMAL_OP
      /\ k.read \in Seq(Text) /\ k.tls.in \in Seq(Text) /\ Len(k.read) <= 1
  BY <1>1 DEF KeyGood, Receives, Shaped
<1>3. k.read # <<>>
  <2>1. Hand(k) # <<>> BY <1>2 DEF KeyThenPays
  <2>2. k.read = <<>> => Hand(k) = k.tls.in BY <1>2, HandIs
  <2> QED BY <2>1, <2>2
<1>4. k.state >= S_START BY <1>2 DEF KeyGood, Sends, HelloSent
<1>5. CASE p = Server BY <1>1, <1>2, <1>3, <1>4, <1>5 DEF DecryptKeyEnabled
<1>6. CASE p # Server
  <2>1. k.state = S_START BY <1>1, <1>2, <1>3, <1>4, <1>6 DEF DecryptKeyEnabled
  <2>2. k.write = <<>> BY <2>1 DEF KeyGood, Sends, KeySent
  <2> QED BY <1>6, <2>1, <2>2
<1> QED BY <1>5, <1>6

LEMMA TailSteps ==
  ASSUME NEW W, NEW p \in Peers, NEW i \in Slots, NEW x, WorkFine(W, p, i, x), Begun(p, x), Resting(W, Other(p))
  PROVE  /\ Steps(W, p, i, x, RoundTail(x))
         /\ ~RoundTail(x).error => Flushed(p, RoundTail(x).k)
         /\ Busy(x) /\ ~RoundTail(x).error /\ Same(p, x.k, RoundTail(x).k) => Idle(p, RoundTail(x).k)
<1>1. CASE ~Busy(x) BY <1>1, TailStopped, StepsSelf DEF Begun
<1>2. CASE Busy(x)
  <2> PICK x1, x2, x3, x4, x5, x6 :
         /\ x1 = ReadCiphertext(x) /\ x2 = ReadPlaintext(x1) /\ x3 = SendKey(x2) /\ x4 = ReceiveKey(x3)
         /\ x5 = WritePlaintext(x4) /\ x6 = WriteCiphertext(x5)
    OBVIOUS
  <2>1. Steps(W, p, i, x, x1) /\ WorkFine(W, p, i, x1) /\ ~x1.stop
        /\ (x1.error \/ (x1 = x /\ InOrder(x.k) = {}) \/ x1.k.recNext # x.k.recNext)
    BY <1>2, ReadCiphertextSteps DEF Begun, Steps, Busy
  <2>2. Steps(W, p, i, x1, x2) /\ WorkFine(W, p, i, x2) /\ ~x2.stop
        /\ ((x2 = x1 /\ (Busy(x1) => x1.k.read # <<>> \/ x1.k.tls.in = <<>>)) \/ Len(x2.k.tls.in) # Len(x1.k.tls.in))
    <3>1. WorkFine(W, p, i, x1) /\ ~x1.stop BY <2>1
    <3>2. /\ Steps(W, p, i, x1, x2) /\ x2.stop = x1.stop
          /\ \/ x2 = x1 /\ (Busy(x1) => x1.k.read # <<>> \/ x1.k.tls.in = <<>>)
             \/ Len(x2.k.tls.in) # Len(x1.k.tls.in)
      BY <3>1, ReadPlaintextSteps
    <3> QED BY <3>1, <3>2 DEF Steps
  <2>3. Steps(W, p, i, x2, x3) /\ WorkFine(W, p, i, x3) /\ ~x3.stop
        /\ ((x3 = x2 /\ (Busy(x2) /\ x2.k.write = <<>> => x2.k.state # IF p = Server THEN S_GOT_KEY ELSE S_START))
            \/ Rank(p, x3.k.state) # Rank(p, x2.k.state))
    BY <2>2, SendKeySteps DEF Steps
  <2>4. Steps(W, p, i, x3, x4) /\ WorkFine(W, p, i, x4) /\ ~x4.stop
        /\ ((x4 = x3 /\ (Busy(x3) /\ x3.k.read # <<>> => x3.k.state # IF p = Server THEN S_START ELSE S_SENT_KEY))
            \/ x4.error \/ Rank(p, x4.k.state) # Rank(p, x3.k.state))
    BY <2>3, ReceiveKeySteps DEF Steps
  <2>5. Steps(W, p, i, x4, x5) /\ WorkFine(W, p, i, x5) /\ x5.error = x4.error
    BY <2>4, WritePlaintextSteps DEF Steps
  <2>6. Steps(W, p, i, x5, x6) /\ WorkFine(W, p, i, x6) /\ x6.error = x5.error
    BY <2>5, WriteCiphertextSteps DEF Steps
  <2>7. Steps(W, p, i, x, x2) /\ Steps(W, p, i, x, x3) /\ Steps(W, p, i, x, x4)
    <3>1. Steps(W, p, i, x, x2) BY <2>1, <2>2, StepsOn
    <3>2. Steps(W, p, i, x, x3) BY <2>3, <3>1, StepsOn
    <3>3. Steps(W, p, i, x, x4) BY <2>4, <3>2, StepsOn
    <3> QED BY <3>1, <3>2, <3>3
  <2>8. Steps(W, p, i, x4, x6) BY <2>5, <2>6, StepsOn
  <2>9. Steps(W, p, i, x, x6) BY <2>7, <2>8, StepsOn
  <2>10. ASSUME ~x6.error PROVE Flushed(p, x6.k)
    <3>1. Busy(x4) BY <2>4, <2>5, <2>6, <2>10 DEF Busy
    <3> QED BY <2>4, <3>1, WriteFlushes
  <2>11. ASSUME ~x6.error, Same(p, x.k, x6.k) PROVE Idle(p, x6.k)
    <3>1. ~x4.error /\ Onward(p, x.k, x4.k) /\ Onward(p, x4.k, x6.k)
      BY <2>5, <2>6, <2>7, <2>8, <2>11 DEF Steps
    <3>2. Same(p, x.k, x4.k) /\ Same(p, x4.k, x6.k) BY <2>11, <3>1, OnwardOn
    <3>3. ~x3.error /\ Onward(p, x.k, x3.k) /\ Onward(p, x3.k, x4.k) BY <2>4, <2>7, <3>1 DEF Steps
    <3>4. Same(p, x.k, x3.k) /\ Same(p, x3.k, x4.k) BY <3>2, <3>3, OnwardOn
    <3>5. ~x2.error /\ Onward(p, x.k, x2.k) /\ Onward(p, x2.k, x3.k) BY <2>3, <2>7, <3>3 DEF Steps
    <3>6. Same(p, x.k, x2.k) /\ Same(p, x2.k, x3.k) BY <3>4, <3>5, OnwardOn
    <3>7. ~x1.error /\ Onward(p, x.k, x1.k) /\ Onward(p, x1.k, x2.k) BY <2>1, <2>2, <3>5 DEF Steps
    <3>8. Same(p, x.k, x1.k) /\ Same(p, x1.k, x2.k) BY <3>6, <3>7, OnwardOn
    <3>9. x1 = x /\ InOrder(x.k) = {} BY <2>1, <3>7, <3>8 DEF Same
    <3>10. x2 = x /\ (x.k.read # <<>> \/ x.k.tls.in = <<>>) BY <1>2, <2>2, <3>8, <3>9 DEF Same
    <3>11. x3 = x /\ (x.k.write = <<>> => x.k.state # IF p = Server THEN S_GOT_KEY ELSE S_START)
      BY <1>2, <2>3, <3>6, <3>10 DEF Same
    <3>12. x.k.read # <<>> => x.k.state # IF p = Server THEN S_START ELSE S_SENT_KEY
      BY <1>2, <2>4, <3>1, <3>4, <3>11 DEF Same
    <3>13. AtWork(W, p, i, x, x.k) /\ AtWork(W, p, i, x6, x6.k) BY <1>2, <2>6, <2>11, WorkingIs DEF Busy
    <3>14. Idle(p, x.k) BY <3>9, <3>10, <3>11, <3>12, <3>13, IdleWhen DEF AtWork
    <3> QED BY <2>11, <3>13, <3>14, IdleSame DEF AtWork
  <2>12. RoundTail(x) = x6 BY DEF RoundTail
  <2> QED BY <2>9, <2>10, <2>11, <2>12
<1> QED BY <1>1, <1>2

LEMMA RoundWorks ==
  ASSUME NEW W, NEW p \in Peers, NEW i \in Slots, NEW x, WorkFine(W, p, i, x), Busy(x), Flushed(p, x.k), Resting(W, Other(p))
  PROVE  Works(W, p, i, x, Round(x))
<1> PICK h, z : h = RoundHead(x) /\ z = RoundTail(h) OBVIOUS
<1>1. Round(x) = z BY DEF Round, RoundHead, RoundTail
<1>2. Steps(W, p, i, x, h) /\ Begun(p, h) /\ WorkFine(W, p, i, h) /\ (~h.error /\ Same(p, x.k, h.k) => Busy(h))
  BY HeadSteps DEF Steps
<1>3. /\ Steps(W, p, i, h, z) /\ (~z.error => Flushed(p, z.k))
      /\ Busy(h) /\ ~z.error /\ Same(p, h.k, z.k) => Idle(p, z.k)
  BY <1>2, TailSteps
<1>4. Steps(W, p, i, x, z) BY <1>2, <1>3, StepsOn
<1>5. ASSUME ~z.error, Same(p, x.k, z.k) PROVE Idle(p, z.k)
  <2>1. ~h.error /\ Onward(p, x.k, h.k) /\ Onward(p, h.k, z.k) BY <1>2, <1>3, <1>5 DEF Steps
  <2>2. Same(p, x.k, h.k) /\ Same(p, h.k, z.k) BY <1>5, <2>1, OnwardOn
  <2> QED BY <1>2, <1>3, <1>5, <2>1, <2>2
<1> QED BY <1>1, <1>3, <1>4, <1>5 DEF Works

LEMMA RoundAgainWorks ==
  ASSUME NEW W, NEW p \in Peers, NEW i \in Slots, NEW x, NEW y, Works(W, p, i, x, y), Resting(W, Other(p))
  PROVE  Works(W, p, i, x, RoundAgain(y))
<1>1. CASE ~(y.change /\ Busy(y)) BY <1>1, Zenon DEF RoundAgain
<1>2. CASE y.change /\ Busy(y)
  <2> PICK z : z = Round(y) OBVIOUS
  <2>1. RoundAgain(y) = z BY <1>2, Zenon DEF RoundAgain
  <2>2. Works(W, p, i, y, z) BY <1>2, RoundWorks DEF Works, Steps, Busy
  <2>3. Steps(W, p, i, x, z) BY <2>2, StepsOn DEF Works
  <2>4. ASSUME ~z.error, Same(p, x.k, z.k) PROVE Idle(p, z.k)
    <3>1. Onward(p, x.k, y.k) /\ Onward(p, y.k, z.k) BY <2>2, <2>4 DEF Works, Steps
    <3>2. Same(p, y.k, z.k) BY <2>4, <3>1, OnwardOn
    <3> QED BY <2>2, <2>4, <3>2 DEF Works
  <2> QED BY <2>1, <2>2, <2>3, <2>4 DEF Works
<1> QED BY <1>1, <1>2

LEMMA RoundsWork ==
  ASSUME NEW W, NEW p \in Peers, NEW i \in Slots, NEW x, WorkFine(W, p, i, x), Busy(x), Flushed(p, x.k), Resting(W, Other(p))
  PROVE  Works(W, p, i, x, Rounds(x))
<1> DEFINE v0 == Round(x)
           v1 == RoundAgain(v0)
           v2 == RoundAgain(v1)
           v3 == RoundAgain(v2)
           v4 == RoundAgain(v3)
           v5 == RoundAgain(v4)
           Is(f) == f = [n \in 0..MaxRounds |-> IF n = 0 THEN Round(x) ELSE RoundAgain(f[n - 1])]
           after == CHOOSE f : Is(f)
<1>1. \E f : Is(f)
  <2> DEFINE g == [n \in 0..5 |-> IF n = 0 THEN v0 ELSE IF n = 1 THEN v1 ELSE IF n = 2 THEN v2
                                  ELSE IF n = 3 THEN v3 ELSE IF n = 4 THEN v4 ELSE v5]
  <2>1. Is(g) BY DEF MaxRounds
  <2> HIDE DEF g
  <2> QED BY <2>1
<1>2. Is(after)
  <2> HIDE DEF Is
  <2> QED BY <1>1
<1>3. Rounds(x) = after[5] BY DEF Rounds, MaxRounds
<1>4. ASSUME NEW y, Works(W, p, i, x, y) PROVE Works(W, p, i, x, RoundAgain(y)) BY <1>4, RoundAgainWorks
<1>5. Works(W, p, i, x, after[5])
  <2> HIDE DEF after
  <2>1. Works(W, p, i, x, after[0]) /\ \A n \in 1..5 : after[n] = RoundAgain(after[n - 1])
    BY <1>2, RoundWorks DEF MaxRounds
  <2>2. Works(W, p, i, x, after[1]) /\ Works(W, p, i, x, after[2]) BY <1>4, <2>1
  <2>3. Works(W, p, i, x, after[3]) /\ Works(W, p, i, x, after[4]) BY <1>4, <2>1, <2>2
  <2> QED BY <1>4, <2>1, <2>3
<1> QED BY <1>3, <1>5

\* tls_process() as a whole.
LEMMA ProcessWorks ==
  ASSUME NEW W, NEW p \in Peers, NEW i \in Slots, NEW x, WorkFine(W, p, i, x), Busy(x), Flushed(p, x.k), Resting(W, Other(p))
  PROVE  Works(W, p, i, x, Acknowledge(Rounds(x)))
<1> PICK y, z : y = Rounds(x) /\ z = Acknowledge(y) OBVIOUS
<1>1. Works(W, p, i, x, y) BY RoundsWork
<1>2. Steps(W, p, i, y, z) /\ z.error = y.error /\ (~y.error /\ Flushed(p, y.k) => Flushed(p, z.k))
  BY <1>1, AcknowledgeSteps DEF Works, Steps
<1>3. Steps(W, p, i, x, z) BY <1>1, <1>2, StepsOn DEF Works
<1>4. ASSUME ~z.error, Same(p, x.k, z.k) PROVE Idle(p, z.k)
  <2>1. Onward(p, x.k, y.k) /\ Onward(p, y.k, z.k) BY <1>1, <1>2, <1>4 DEF Works, Steps
  <2>2. Same(p, x.k, y.k) /\ Same(p, y.k, z.k) BY <1>4, <2>1, OnwardOn
  <2>3. AtWork(W, p, i, y, y.k) /\ AtWork(W, p, i, z, z.k) BY <1>1, <1>2, <1>4, WorkingIs DEF Works, Steps
  <2> QED BY <1>1, <1>2, <1>4, <2>2, <2>3, IdleSame DEF Works, AtWork
<1> QED BY <1>1, <1>2, <1>3, <1>4 DEF Works

-----------------------------------------------------------------------------
(* Sessions open, start again, take another's place, or get a new key. *)

LEMMA NewKeyGood ==
  ASSUME NEW p \in Peers, NEW k, NEW nm, NEW w, NEW v, NewKey(k)
  PROVE  /\ KeyGood(p, k, nm, w, v) /\ Hand(k) = <<>> /\ Numbers(Hand(k)) = {} /\ Rising(Hand(k))
         /\ Backlog(k) = <<>> /\ Numbers(Backlog(k)) = {} /\ Rising(Backlog(k)) /\ Live(k) /\ Flushed(p, k)
<1>1. <<>> \in Seq(Text) /\ <<>> \in Seq(Nat) /\ <<>> \o <<>> = <<>> /\ Len(<<>>) = 0 /\ DOMAIN <<>> = {}
  BY ConcatEmptySeq
<1>2. k.tls.phase = "start" /\ k.tls.peer = NoSid /\ k.tls.in = <<>> /\ k.tls.out = <<>> /\ TlsFields \subseteq DOMAIN k.tls
  BY DEF NewKey, NewTls, TlsFields
<1>3. Hand(k) = <<>> BY <1>1, <1>2, Zenon DEF Hand, NewKey
<1>4. Texts(<<>>) = <<>> BY <1>1, TextsAre
<1>5. Backlog(k) = <<>> BY <1>4 DEF Backlog, NewKey
<1>6. Numbers(<<>>) = {} /\ Rising(<<>>) BY <1>1 DEF Numbers, Rising
<1>7. Shaped(k) BY <1>1, <1>2 DEF Shaped, NewKey
<1>8. ~HelloSent(p, k) /\ ~HelloRead(p, k) /\ ~KeySent(p, k) /\ ~DecryptKeyEnabled(p, k)
  BY <1>2 DEF HelloSent, HelloRead, KeySent, DecryptKeyEnabled, NewKey
<1>9. Sends(p, k, nm, w) BY <1>1, <1>2, <1>8 DEF Sends, NewKey, Packets
<1>10. Receives(p, k, v) BY <1>1, <1>2, <1>3, <1>8 DEF Receives, NewKey, Got
<1>11. Live(k) /\ Flushed(p, k) BY <1>8 DEF Live, Flushed, NewKey
<1> QED BY <1>3, <1>5, <1>6, <1>7, <1>9, <1>10, <1>11 DEF KeyGood

LEMMA NewSlotGood ==
  ASSUME NEW W, NEW W2, Good(W), NEW p \in Peers, NEW i \in Slots, ButSlot(W, W2, p, i),
         NewKey(W2.key[p][i]), SlotBounds(W2, p, i), ~Known(W, p, Name(W2, p, i)), Name(W2, p, i) \in Names(p),
         \A nm : Known(W, p, nm) => Known(W2, p, nm),
         \A j \in Slots : j # i /\ Live(W.key[p][j]) => W2.sid[p][i] # W.sid[p][j]
  PROVE  Good(W2)
<1> DEFINE q == Other(p)
           k2 == W2.key[p][i]
           nm2 == Name(W2, p, i)
<1>1. /\ q \in Peers /\ Other(q) = p /\ p # q /\ PeerGood(W, p) /\ PeerGood(W, q) /\ {TM_ACTIVE, TM_UNTRUSTED} \subseteq Slots
      /\ \A a \in Peers : a = p \/ a = q
  BY PeersAre DEF Good, Slots
<1>2. Wider(W, W2)
  <2>1. \A nm : Known(W, q, nm) => Known(W2, q, nm) BY <1>1 DEF Known, ButSlot
  <2>2. \A a \in Peers : W.written[a] <= W2.written[a] BY <1>1 DEF ButSlot, PeerGood
  <2> QED BY <1>1, <2>1, <2>2 DEF Wider
<1>3. /\ KeyGood(p, k2, nm2, W2.written[p], W2.written[q]) /\ Hand(k2) = <<>> /\ Numbers(Hand(k2)) = {} /\ Rising(Hand(k2))
      /\ Backlog(k2) = <<>> /\ Numbers(Backlog(k2)) = {} /\ Rising(Backlog(k2)) /\ Live(k2)
  BY NewKeyGood
<1>4. \A l : (l \in Mail(W2, p) => l \in Mail(W, p)) /\ (l \in Mail(W2, q) => l \in Mail(W, q))
  <2>1. k2.unacked = {} /\ k2.rec = {} BY DEF NewKey
  <2>2. \A j \in Slots : /\ \A l : l \in W2.key[p][j].unacked => l \in W.key[p][j].unacked
                         /\ \A l : l \in W2.key[p][j].rec => l \in W.key[p][j].rec
                         /\ W2.key[q][j].unacked = W.key[q][j].unacked /\ W2.key[q][j].rec = W.key[q][j].rec
    BY <1>1, <2>1 DEF ButSlot
  <2>3. \A l : (l \in W2.net[p] => l \in W.net[p]) /\ (l \in W2.net[q] => l \in W.net[q]) BY <1>1 DEF ButSlot
  <2> HIDE DEF q
  <2>4. ASSUME NEW l, l \in Mail(W2, p) PROVE l \in Mail(W, p) BY <2>2, <2>3, <2>4, MailIs DEF q
  <2>5. ASSUME NEW l, l \in Mail(W2, q) PROVE l \in Mail(W, q) BY <1>1, <2>2, <2>3, <2>5, MailIs
  <2> QED BY <2>4, <2>5
<1>5. Evolves(W, W2, q)
  <2>1. \A l \in Mail(W2, p) : Carried(Mail(W, p), l) BY <1>4 DEF Carried
  <2>2. /\ \A j \in Slots : W2.key[q][j] = W.key[q][j] /\ W2.sid[q][j] = W.sid[q][j] /\ W2.nk[q][j] = W.nk[q][j]
        /\ W2.n[q] = W.n[q] /\ W2.received[q] = W.received[q] /\ W2.written[p] \in Nat /\ W2.written[q] \in Nat
        /\ W2.net[p] \subseteq W.net[p]
    BY <1>1 DEF ButSlot, PeerGood
  <2> QED BY <1>1, <1>2, <2>1, <2>2, PeerStays
<1>6. Evolves(W, W2, p)
  <2>1. /\ W2.n[p] \in Nat /\ W2.written[p] \in Nat /\ W2.written[q] \in Nat /\ W2.received[p] \in Seq(Text)
        /\ Pays(W2.received[p], W2.written[q]) /\ Rising(W2.received[p]) /\ W2.received[p] = W.received[p]
    BY <1>1 DEF ButSlot, PeerGood
  <2>2. ASSUME NEW j \in Slots, j # i
        PROVE  Succeeds(W, W2, p, j) /\ (Live(W.key[p][j]) => Heir(W, W2, p, j, j)) /\ W2.key[p][j] = W.key[p][j] /\ W2.sid[p][j] = W.sid[p][j]
    BY <1>2, <2>1, <2>2, SlotMoves DEF ButSlot
  <2>3. Succeeds(W, W2, p, i)
    <3>1. Newborn(W, W2, p, i) BY DEF Newborn, NewKey
    <3> QED BY <1>3, <3>1 DEF Succeeds
  <2>4. \A l \in Mail(W2, q) : Carried(Mail(W, q), l) BY <1>4 DEF Carried
  <2>5. \A m \in W2.net[q] : m \in W.net[q] BY <1>1 DEF ButSlot
  <2>6. \A n \in Seen(W2, p) : n \in Seen(W, p)
    <3>1. W2.key[p][TM_ACTIVE] = W.key[p][TM_ACTIVE] \/ Numbers(Hand(W2.key[p][TM_ACTIVE])) = {}
      BY <1>1, <1>3 DEF ButSlot
    <3> QED BY <2>1, <3>1 DEF Seen
  <2>7. ASSUME NEW l \in Mail(W2, p), l.pid >= 3 PROVE nm2 \notin l.body.conn
    <3>1. l \in Mail(W, p) BY <1>4
    <3>2. l.pid >= 2
      <4>1. l.pid \in Nat BY <3>1, LettersKnown
      <4> QED BY <2>7, <4>1
    <3>3. SUFFICES ASSUME nm2 \in l.body.conn PROVE FALSE OBVIOUS
    <3>4. (nm2 \in Names(p) /\ Known(W, p, nm2)) \/ nm2 \in Names(q) BY <3>1, <3>2, <3>3, LettersKnown
    <3>5. nm2 \notin Names(q) BY <1>1 DEF Names
    <3> QED BY <3>4, <3>5
  <2>8. ASSUME i = TM_ACTIVE PROVE ActiveGood(W2, p) /\ BacklogGood(W2, p)
    <3>1. ActiveGood(W2, p) BY <1>3, <2>7, <2>8 DEF ActiveGood
    <3>2. BacklogGood(W2, p) BY <1>3, <2>8 DEF BacklogGood
    <3> QED BY <3>1, <3>2
  <2>9. ASSUME i = TM_UNTRUSTED PROVE UntrustedGood(W2, p) BY <1>3, <2>7, <2>9 DEF UntrustedGood
  <2>10. Live(W2.key[p][TM_ACTIVE]) => /\ ActiveGood(W2, p) \/ HoldsOn(W, W2, p)
                                       /\ BacklogGood(W2, p) \/ SendsOn(W, W2, p)
    <3>1. CASE i = TM_ACTIVE BY <2>8, <3>1
    <3>2. CASE i # TM_ACTIVE BY <1>1, <2>1, <2>2, <3>2 DEF HoldsOn, SendsOn
    <3> QED BY <3>1, <3>2
  <2>11. Live(W2.key[p][TM_UNTRUSTED]) => UntrustedGood(W2, p) \/ WaitsOn(W, W2, p)
    <3>1. CASE i = TM_UNTRUSTED BY <2>9, <3>1
    <3>2. CASE i # TM_UNTRUSTED BY <1>1, <2>2, <3>2 DEF WaitsOn
    <3> QED BY <3>1, <3>2
  <2>12. Live(W2.key[p][TM_ACTIVE]) /\ Live(W2.key[p][TM_UNTRUSTED]) => W2.sid[p][TM_ACTIVE] # W2.sid[p][TM_UNTRUSTED]
    BY <1>1, <2>2 DEF Slots
  <2>13. \A j \in Slots : Succeeds(W, W2, p, j) BY <2>2, <2>3
  <2> QED BY <2>1, <2>4, <2>5, <2>6, <2>10, <2>11, <2>12, <2>13 DEF Evolves
<1> QED BY <1>1, <1>2, <1>5, <1>6, GoodEvolves

LEMMA EmptySlotGood ==
  ASSUME NEW W, NEW W2, Good(W), NEW p \in Peers, NEW i \in Slots, ButSlot(W, W2, p, i),
         W2.key[p][i] = Undef, W2.sid[p][i] = NoSid
  PROVE  Good(W2)
<1> DEFINE q == Other(p)
<1>1. /\ q \in Peers /\ Other(q) = p /\ p # q /\ PeerGood(W, p) /\ PeerGood(W, q) /\ {TM_ACTIVE, TM_UNTRUSTED} \subseteq Slots
      /\ \A a \in Peers : a = p \/ a = q
  BY PeersAre DEF Good, Slots
<1>2. Wider(W, W2)
  <2>1. \A nm : Known(W, q, nm) => Known(W2, q, nm) BY <1>1 DEF Known, ButSlot
  <2>2. \A a \in Peers : W.written[a] <= W2.written[a] BY <1>1 DEF ButSlot, PeerGood
  <2>3. ASSUME NEW nm, Known(W, p, nm) PROVE Known(W2, p, nm)
    <3>1. nm[1] # NoSid /\ nm \in Names(p) /\ nm[1][2] \in Nat /\ nm[1][2] <= W.n[p]
      BY <2>3 DEF Known, Names, NoSid
    <3>2. nm[1][2] <= W2.n[p] BY <1>1, <3>1 DEF ButSlot, PeerGood
    <3>3. \A j \in Slots : W2.sid[p][j] = nm[1] => nm[2] < W2.nk[p][j] BY <2>3, <3>1 DEF ButSlot, Known
    <3> QED BY <3>1, <3>2, <3>3 DEF Known
  <2> QED BY <1>1, <2>1, <2>2, <2>3 DEF Wider
<1>3. \A l : (l \in Mail(W2, p) => l \in Mail(W, p)) /\ (l \in Mail(W2, q) => l \in Mail(W, q))
  <2>2. \A j \in Slots : /\ \A l : l \in W2.key[p][j].unacked => l \in W.key[p][j].unacked
                         /\ \A l : l \in W2.key[p][j].rec => l \in W.key[p][j].rec
                         /\ W2.key[q][j].unacked = W.key[q][j].unacked /\ W2.key[q][j].rec = W.key[q][j].rec
    BY <1>1, UndefIs DEF ButSlot
  <2>3. \A l : (l \in W2.net[p] => l \in W.net[p]) /\ (l \in W2.net[q] => l \in W.net[q]) BY <1>1 DEF ButSlot
  <2> HIDE DEF q
  <2>4. ASSUME NEW l, l \in Mail(W2, p) PROVE l \in Mail(W, p) BY <2>2, <2>3, <2>4, MailIs DEF q
  <2>5. ASSUME NEW l, l \in Mail(W2, q) PROVE l \in Mail(W, q) BY <1>1, <2>2, <2>3, <2>5, MailIs
  <2> QED BY <2>4, <2>5
<1>4. Evolves(W, W2, q)
  <2>1. \A l \in Mail(W2, p) : Carried(Mail(W, p), l) BY <1>3 DEF Carried
  <2>2. /\ \A j \in Slots : W2.key[q][j] = W.key[q][j] /\ W2.sid[q][j] = W.sid[q][j] /\ W2.nk[q][j] = W.nk[q][j]
        /\ W2.n[q] = W.n[q] /\ W2.received[q] = W.received[q] /\ W2.written[p] \in Nat /\ W2.written[q] \in Nat
        /\ W2.net[p] \subseteq W.net[p]
    BY <1>1 DEF ButSlot, PeerGood
  <2> QED BY <1>1, <1>2, <2>1, <2>2, PeerStays
<1>5. Evolves(W, W2, p)
  <2>1. /\ W2.n[p] \in Nat /\ W2.written[p] \in Nat /\ W2.written[q] \in Nat /\ W2.received[p] \in Seq(Text)
        /\ Pays(W2.received[p], W2.written[q]) /\ Rising(W2.received[p]) /\ W2.received[p] = W.received[p]
    BY <1>1 DEF ButSlot, PeerGood
  <2>2. ASSUME NEW j \in Slots, j # i
        PROVE  Succeeds(W, W2, p, j) /\ (Live(W.key[p][j]) => Heir(W, W2, p, j, j)) /\ W2.key[p][j] = W.key[p][j] /\ W2.sid[p][j] = W.sid[p][j]
    BY <1>2, <2>1, <2>2, SlotMoves DEF ButSlot
  <2>3. Succeeds(W, W2, p, i) BY DEF Succeeds
  <2>4. \A l \in Mail(W2, q) : Carried(Mail(W, q), l) BY <1>3 DEF Carried
  <2>5. \A m \in W2.net[q] : m \in W.net[q] BY <1>1 DEF ButSlot
  <2>6. \A n \in Seen(W2, p) : n \in Seen(W, p)
    <3>1. Numbers(Hand(Undef)) = {} BY UndefIs DEF Numbers
    <3>2. W2.key[p][TM_ACTIVE] = W.key[p][TM_ACTIVE] \/ Numbers(Hand(W2.key[p][TM_ACTIVE])) = {}
      BY <1>1, <3>1 DEF ButSlot
    <3> QED BY <2>1, <3>2 DEF Seen
  <2>7. Live(W2.key[p][TM_ACTIVE]) => HoldsOn(W, W2, p) /\ SendsOn(W, W2, p)
    BY <1>1, <2>1, <2>2, UndefIs DEF HoldsOn, SendsOn
  <2>8. Live(W2.key[p][TM_UNTRUSTED]) => WaitsOn(W, W2, p) BY <1>1, <2>2, UndefIs DEF WaitsOn
  <2>9. ~(Live(W2.key[p][TM_ACTIVE]) /\ Live(W2.key[p][TM_UNTRUSTED])) BY UndefIs DEF Slots
  <2>10. \A j \in Slots : Succeeds(W, W2, p, j) BY <2>2, <2>3
  <2> QED BY <2>1, <2>4, <2>5, <2>6, <2>7, <2>8, <2>9, <2>10 DEF Evolves
<1> QED BY <1>1, <1>2, <1>4, <1>5, GoodEvolves

LEMMA MoveGood ==
  ASSUME NEW W, NEW W2, Good(W), NEW p \in Peers, MovesUp(W, W2, p)
  PROVE  Good(W2)
<1> DEFINE q == Other(p)
<1>1. /\ q \in Peers /\ Other(q) = p /\ p # q /\ PeerGood(W, p) /\ PeerGood(W, q) /\ {TM_ACTIVE, TM_UNTRUSTED} \subseteq Slots
      /\ \A a \in Peers : a = p \/ a = q
  BY PeersAre DEF Good, Slots
<1>0. W.n[p] \in Nat /\ \A j \in Slots : j = TM_ACTIVE \/ j = TM_UNTRUSTED BY <1>1 DEF PeerGood, Slots
<1>2. Wider(W, W2)
  <2>1. \A nm : Known(W, q, nm) => Known(W2, q, nm) BY <1>1 DEF Known, MovesUp
  <2>2. \A a \in Peers : W.written[a] <= W2.written[a] BY <1>1 DEF MovesUp, PeerGood
  <2>3. ASSUME NEW nm, Known(W, p, nm) PROVE Known(W2, p, nm)
    <3>1. nm[1] # NoSid /\ nm \in Names(p) /\ nm[1][2] \in Nat /\ nm[1][2] <= W.n[p]
      BY <2>3 DEF Known, Names, NoSid
    <3>3. \A j \in Slots : W2.sid[p][j] = nm[1] => nm[2] < W2.nk[p][j]
      BY <1>0, <1>1, <2>3, <3>1 DEF MovesUp, Known
    <3> QED BY <3>1, <3>3 DEF Known, MovesUp
  <2> QED BY <1>1, <2>1, <2>2, <2>3 DEF Wider
<1>3. \A l : (l \in Mail(W2, p) => l \in Mail(W, p)) /\ (l \in Mail(W2, q) => l \in Mail(W, q))
  <2>2. /\ \A j \in Slots : /\ \A l : l \in W2.key[p][j].unacked => \E i \in Slots : l \in W.key[p][i].unacked
                            /\ \A l : l \in W2.key[p][j].rec => \E i \in Slots : l \in W.key[p][i].rec
        /\ \A j \in Slots : W2.key[q][j].unacked = W.key[q][j].unacked /\ W2.key[q][j].rec = W.key[q][j].rec
    BY <1>0, <1>1, UndefIs DEF MovesUp
  <2>3. \A l : (l \in W2.net[p] => l \in W.net[p]) /\ (l \in W2.net[q] => l \in W.net[q]) BY <1>1 DEF MovesUp
  <2> HIDE DEF q
  <2>4. ASSUME NEW l, l \in Mail(W2, p) PROVE l \in Mail(W, p)
    <3>1. l \in W2.net[p] \/ (\E j \in Slots : l \in W2.key[q][j].unacked \/ l \in W2.key[p][j].rec)
      BY <2>4, MailIs DEF q
    <3>2. l \in W.net[p] \/ (\E j \in Slots : l \in W.key[q][j].unacked \/ l \in W.key[p][j].rec)
      BY <2>2, <2>3, <3>1
    <3> QED BY <3>2, MailIs DEF q
  <2>5. ASSUME NEW l, l \in Mail(W2, q) PROVE l \in Mail(W, q)
    <3>1. l \in W2.net[q] \/ (\E j \in Slots : l \in W2.key[p][j].unacked \/ l \in W2.key[q][j].rec)
      BY <1>1, <2>5, MailIs
    <3>2. l \in W.net[q] \/ (\E j \in Slots : l \in W.key[p][j].unacked \/ l \in W.key[q][j].rec)
      BY <2>2, <2>3, <3>1
    <3> QED BY <1>1, <3>2, MailIs
  <2> QED BY <2>4, <2>5
<1>4. Evolves(W, W2, q)
  <2>1. \A l \in Mail(W2, p) : Carried(Mail(W, p), l) BY <1>3 DEF Carried
  <2>2. /\ \A j \in Slots : W2.key[q][j] = W.key[q][j] /\ W2.sid[q][j] = W.sid[q][j] /\ W2.nk[q][j] = W.nk[q][j]
        /\ W2.n[q] = W.n[q] /\ W2.received[q] = W.received[q] /\ W2.written[p] \in Nat /\ W2.written[q] \in Nat
        /\ W2.net[p] \subseteq W.net[p]
    BY <1>1 DEF MovesUp, PeerGood
  <2> QED BY <1>1, <1>2, <2>1, <2>2, PeerStays
<1>5. Evolves(W, W2, p)
  <2> DEFINE k2 == W2.key[p][TM_ACTIVE]
             nm2 == Name(W2, p, TM_ACTIVE)
  <2>1. /\ W2.n[p] \in Nat /\ W2.written[p] \in Nat /\ W2.written[q] \in Nat /\ W2.received[p] \in Seq(Text)
        /\ Pays(W2.received[p], W2.written[q]) /\ Rising(W2.received[p]) /\ W2.received[p] = W.received[p]
    BY <1>1 DEF MovesUp, PeerGood
  <2>2. Succeeds(W, W2, p, TM_ACTIVE)
    <3>1. /\ W2.key[p][TM_ACTIVE] = W.key[p][TM_UNTRUSTED] /\ W2.sid[p][TM_ACTIVE] = W.sid[p][TM_UNTRUSTED]
          /\ W2.nk[p][TM_ACTIVE] = W.nk[p][TM_UNTRUSTED] /\ W.n[p] <= W2.n[p]
      BY <1>0 DEF MovesUp
    <3> QED BY <1>1, <1>2, <2>1, <3>1, SlotMoves
  <2>3. Succeeds(W, W2, p, TM_UNTRUSTED) BY DEF Succeeds, MovesUp
  <2>4. \A l \in Mail(W2, q) : Carried(Mail(W, q), l) BY <1>3 DEF Carried
  <2>5. \A m \in W2.net[q] : m \in W.net[q] BY <1>1 DEF MovesUp
  <2>6. Live(k2) => UntrustedGood(W, p) BY <1>1 DEF PeerGood, MovesUp
  <2>7. Numbers(Hand(k2)) = {} /\ (Live(k2) => Backlog(k2) = <<>>)
    <3>1. CASE Live(k2) BY <2>6, <3>1 DEF UntrustedGood, MovesUp
    <3>2. CASE ~Live(k2)
      <4>1. k2 = Undef
        <5>1. (k2 = Undef /\ W.sid[p][TM_UNTRUSTED] = NoSid) \/ SlotGood(W, p, TM_UNTRUSTED)
          BY <1>1 DEF PeerGood, MovesUp
        <5>2. SlotGood(W, p, TM_UNTRUSTED) => Live(k2)
          <6>1. SlotGood(W, p, TM_UNTRUSTED) => k2.state \in S_INITIAL..S_NORMAL_OP
            BY DEF SlotGood, KeyGood, Shaped, MovesUp
          <6> QED BY <6>1 DEF Live
        <5> QED BY <3>2, <5>1, <5>2
      <4> QED BY <4>1, UndefIs, <3>2 DEF Numbers
    <3> QED BY <3>1, <3>2
  <2>8. \A n \in Seen(W2, p) : n \in Seen(W, p) BY <2>1, <2>7 DEF Seen
  <2>9. ASSUME Live(k2) PROVE ActiveGood(W2, p) /\ BacklogGood(W2, p)
    <3>1. ASSUME NEW l \in Mail(W2, p), l.pid >= 3 PROVE nm2 \notin l.body.conn
      <4>1. nm2 = Name(W, p, TM_UNTRUSTED) BY DEF MovesUp, Name
      <4>2. l \in Mail(W, p) BY <1>3
      <4> QED BY <2>6, <2>9, <3>1, <4>1, <4>2 DEF UntrustedGood
    <3>2. Rising(Hand(k2)) /\ Rising(<<>>) /\ Numbers(<<>>) = {} BY <2>7 DEF Rising, Numbers
    <3>3. ActiveGood(W2, p) BY <2>7, <3>1, <3>2 DEF ActiveGood
    <3>4. BacklogGood(W2, p) BY <2>7, <2>9, <3>2 DEF BacklogGood
    <3> QED BY <3>3, <3>4
  <2>10. ~Live(W2.key[p][TM_UNTRUSTED]) BY UndefIs DEF MovesUp
  <2>11. \A j \in Slots : Succeeds(W, W2, p, j) BY <1>0, <2>2, <2>3
  <2> QED BY <2>1, <2>4, <2>5, <2>8, <2>9, <2>10, <2>11 DEF Evolves
<1> QED BY <1>1, <1>2, <1>4, <1>5, GoodEvolves

LEMMA NewSessionIs ==
  ASSUME NEW p, NEW n
  PROVE  /\ NewSession(p, n).sid = <<p, n>> /\ NewSession(p, n).nextKey = 1
         /\ {"sid", "nextKey", "burst", "keys"} \subseteq DOMAIN NewSession(p, n)
         /\ {KS_PRIMARY, KS_LAME_DUCK} \subseteq DOMAIN NewSession(p, n).keys
         /\ NewSession(p, n).keys[KS_PRIMARY] = KeyState(S_INITIAL, 0, HardReset(p))
         /\ NewSession(p, n).keys[KS_LAME_DUCK] = Undef
<1> PICK k : k = KeyState(S_INITIAL, 0, HardReset(p)) OBVIOUS
<1>1. NewSession(p, n) = [sid |-> <<p, n>>, nextKey |-> 1, burst |-> FALSE, keys |-> <<k, Undef>>]
  BY DEF NewSession
<1> QED BY <1>1

LEMMA NoSessionIs ==
  /\ NoSession.sid = NoSid /\ {"sid", "nextKey", "burst", "keys"} \subseteq DOMAIN NoSession
  /\ {KS_PRIMARY, KS_LAME_DUCK} \subseteq DOMAIN NoSession.keys
  /\ NoSession.keys[KS_PRIMARY] = Undef /\ NoSession.keys[KS_LAME_DUCK] = Undef
BY DEF NoSession

(* A slot gets a new session. *)
LEMMA NewSessionGood ==
  ASSUME NEW W, NEW W2, Good(W), NEW p \in Peers, NEW i \in Slots, ButSlot(W, W2, p, i), NEW n, n = W.n[p] + 1, W2.n[p] = n,
         W2.key[p][i] = NewSession(p, n).keys[KS_PRIMARY], W2.sid[p][i] = NewSession(p, n).sid,
         W2.nk[p][i] = NewSession(p, n).nextKey
  PROVE  Good(W2)
<1>0. W.n[p] \in Nat /\ n \in Nat /\ n # 0 /\ n > W.n[p] BY DEF Good, PeerGood
<1> PICK k2 : k2 = W2.key[p][i] OBVIOUS
<1>1. k2 = KeyState(S_INITIAL, 0, HardReset(p)) /\ W2.sid[p][i] = <<p, n>> /\ W2.nk[p][i] = 1 BY NewSessionIs
<1>2. NewKey(k2) /\ k2.keyId = 0
  <2>1. 0 \in 0..KeyIdMask BY DEF KeyIdMask
  <2>2. /\ KeyFields \subseteq DOMAIN k2 /\ k2.state = S_INITIAL /\ k2.keyId = 0
        /\ k2.next = 0 /\ k2.unacked = {} /\ k2.due = {} /\ k2.recNext = 0 /\ k2.rec = {} /\ k2.acks = {} /\ k2.tls = NewTls
        /\ k2.read = <<>> /\ k2.write = <<>> /\ k2.pay = <<>>
    BY <1>1 DEF KeyState, KeyFields
  <2> QED BY <2>1, <2>2 DEF NewKey
<1>3. SlotBounds(W2, p, i)
  <2>1. <<p, n>> \in {p} \X (1..n) BY <1>0
  <2> QED BY <1>1, <1>2, <2>1 DEF SlotBounds, KeyIdMask
<1>4. Name(W2, p, i) = <<<<p, n>>, 0>> BY <1>1, <1>2 DEF Name
<1>5. ~Known(W, p, Name(W2, p, i)) /\ Name(W2, p, i) \in Names(p)
  <2>1. <<<<p, n>>, 0>>[1][2] = n OBVIOUS
  <2>2. <<p, n>> \in {p} \X Nat /\ 0 \in 0..KeyIdMask BY <1>0 DEF KeyIdMask
  <2> QED BY <1>0, <1>4, <2>1, <2>2 DEF Known, Names
<1>6. ASSUME NEW nm, Known(W, p, nm) PROVE Known(W2, p, nm)
  <2>1. nm \in Names(p) /\ nm[1][2] \in Nat /\ nm[1][2] <= W.n[p] BY <1>6 DEF Known, Names
  <2>2. nm[1] # <<p, n>>
    <3> SUFFICES ASSUME nm[1] = <<p, n>> PROVE FALSE OBVIOUS
    <3>1. nm[1][2] = n OBVIOUS
    <3> QED BY <1>0, <2>1, <3>1
  <2>3. \A j \in Slots : W2.sid[p][j] = nm[1] => nm[2] < W2.nk[p][j] BY <1>1, <1>6, <2>2 DEF Known, ButSlot
  <2> QED BY <1>0, <2>1, <2>3 DEF Known
<1>7. ASSUME NEW j \in Slots, j # i, Live(W.key[p][j]) PROVE W2.sid[p][i] # W.sid[p][j]
  <2>1. W.sid[p][j] \in {p} \X (1..W.n[p]) BY <1>7, LiveIsGood DEF SlotGood
  <2>2. W.sid[p][j][2] \in 1..W.n[p] BY <2>1
  <2>3. <<p, n>>[2] = n OBVIOUS
  <2> QED BY <1>0, <1>1, <2>2, <2>3
<1> QED BY <1>2, <1>3, <1>5, <1>6, <1>7, NewSlotGood

LEMMA SoftResetIs ==
  ASSUME NEW s, {"sid", "nextKey", "burst", "keys"} \subseteq DOMAIN s, s.nextKey \in 1..(KeyIdMask - 1)
  PROVE  RenewedAs(s, SoftReset(s))
<1> PICK old, new, nk : old = s.keys[KS_PRIMARY] /\ new = KeyState(S_INITIAL, nk, "softReset") /\ nk = s.nextKey
  OBVIOUS
<1> PICK r, a : r = old.remote /\ a = old.addr OBVIOUS
<1> PICK k : k = [new EXCEPT !.remote = r, !.addr = a] OBVIOUS
<1>1. SoftReset(s) = [s EXCEPT !.nextKey = nk + 1, !.keys = <<k, old>>]
  <2>1. (IF s.nextKey = KeyIdMask THEN 1 ELSE s.nextKey + 1) = nk + 1 BY DEF KeyIdMask
  <2>2. [KeyState(S_INITIAL, s.nextKey, "softReset") EXCEPT !.remote = s.keys[KS_PRIMARY].remote, !.addr = s.keys[KS_PRIMARY].addr] = k
    OBVIOUS
  <2> QED BY <2>1, <2>2, Zenon DEF SoftReset
<1>2. NewKey(k) /\ k.keyId = nk /\ k.remote = r /\ k.addr = a
  <2>1. /\ KeyFields \subseteq DOMAIN new /\ new.state = S_INITIAL /\ new.keyId = nk
        /\ new.next = 0 /\ new.unacked = {} /\ new.due = {} /\ new.recNext = 0 /\ new.rec = {} /\ new.acks = {} /\ new.tls = NewTls
        /\ new.read = <<>> /\ new.write = <<>> /\ new.pay = <<>>
    BY DEF KeyState, KeyFields
  <2>2. nk \in 0..KeyIdMask BY DEF KeyIdMask
  <2> QED BY <2>1, <2>2 DEF NewKey, KeyFields
<1>3. /\ SoftReset(s).sid = s.sid /\ SoftReset(s).nextKey = nk + 1 /\ SoftReset(s).keys = <<k, old>>
      /\ {"sid", "nextKey", "burst", "keys"} \subseteq DOMAIN SoftReset(s)
  BY <1>1
<1>4. <<k, old>>[KS_PRIMARY] = k /\ {KS_PRIMARY, KS_LAME_DUCK} \subseteq DOMAIN <<k, old>> OBVIOUS
<1> QED BY <1>2, <1>3, <1>4 DEF RenewedAs

LEMMA RenewGood ==
  ASSUME NEW W, NEW W2, Good(W), NEW p \in Peers, NEW i \in Slots, ButSlot(W, W2, p, i), W2.n[p] = W.n[p], Live(W.key[p][i]),
         NewKey(W2.key[p][i]), W2.sid[p][i] = W.sid[p][i], W2.key[p][i].keyId = W.nk[p][i],
         W2.nk[p][i] = W.nk[p][i] + 1, W.nk[p][i] < KeyIdMask
  PROVE  Good(W2)
<1>1. W.n[p] \in Nat /\ W.sid[p][i] \in {p} \X (1..W.n[p]) /\ W.nk[p][i] \in 1..KeyIdMask
  BY LiveIsGood DEF Good, PeerGood, SlotGood
<1> PICK k, s : k = W.nk[p][i] /\ s = W.sid[p][i] OBVIOUS
<1>2. SlotBounds(W2, p, i) BY <1>1 DEF SlotBounds, KeyIdMask
<1>3. Name(W2, p, i) = <<s, k>> BY DEF Name
<1>4. ~Known(W, p, Name(W2, p, i)) /\ Name(W2, p, i) \in Names(p)
  <2>1. <<s, k>>[1] = s /\ <<s, k>>[2] = k OBVIOUS
  <2>2. s \in {p} \X Nat /\ k \in 0..KeyIdMask /\ ~(k < k) BY <1>1
  <2>3. <<s, k>> \in Names(p) BY <2>2 DEF Names
  <2>4. ~Known(W, p, <<s, k>>) BY <2>1, <2>2 DEF Known
  <2> QED BY <1>3, <2>3, <2>4
<1>5. ASSUME NEW nm, Known(W, p, nm) PROVE Known(W2, p, nm)
  <2>1. nm[2] \in Nat BY <1>5 DEF Known, Names, KeyIdMask
  <2>2. \A j \in Slots : W2.sid[p][j] = nm[1] => nm[2] < W2.nk[p][j] BY <1>1, <1>5, <2>1 DEF Known, ButSlot
  <2> QED BY <1>5, <2>2 DEF Known
<1>6. ASSUME NEW j \in Slots, j # i, Live(W.key[p][j]) PROVE W2.sid[p][i] # W.sid[p][j]
  BY <1>6 DEF Good, PeerGood, Slots
<1> QED BY <1>2, <1>4, <1>5, <1>6, NewSlotGood

(* The world in the middle of a peer's turn. *)

LEMMA PutIs ==
  ASSUME NEW W, NEW p \in Peers, NEW m, NEW S
  PROVE  Puts(Put(W, p, m, S), W, p, m, S)
<1>1. Other(p) \in Peers /\ Other(p) # p BY PeersAre
<1> QED BY <1>1 DEF Puts, Put

LEMMA AlikeGood ==
  ASSUME NEW W, NEW p \in Peers, NEW m, NEW m2, NEW S, NEW S2, Good(Put(W, p, m, S)), Alike(m, m2), S2 \subseteq S
  PROVE  Good(Put(W, p, m2, S2))
<1> PICK V, V2 : V = Put(W, p, m, S) /\ V2 = Put(W, p, m2, S2) OBVIOUS
<1>1. Puts(V, W, p, m, S) /\ Puts(V2, W, p, m2, S2) /\ \A a \in Peers : a = p \/ a = Other(p)
  BY PutIs, PeersAre
<1>2. \A a \in Peers, j \in Slots : V2.key[a][j] = V.key[a][j] /\ V2.sid[a][j] = V.sid[a][j] /\ V2.nk[a][j] = V.nk[a][j]
  BY <1>1 DEF Puts, Alike
<1>3. \A a \in Peers : /\ V2.n[a] = V.n[a] /\ V2.received[a] = V.received[a] /\ V2.written[a] = V.written[a]
                       /\ V2.net[a] \subseteq V.net[a]
  BY <1>1 DEF Puts, Alike
<1> QED BY <1>2, <1>3, SameGood

LEMMA AtPutIs ==
  ASSUME NEW W, NEW p \in Peers, NEW i \in Slots, NEW k, NEW m, NEW S, NEW S2
  PROVE  AtPuts(At(Put(W, p, m, S), p, i, k, S2), W, p, i, k, m, S \cup S2)
<1> PICK V1, V2 : V1 = Put(W, p, m, S) /\ V2 = At(V1, p, i, k, S2) OBVIOUS
<1>1. Puts(V1, W, p, m, S) /\ Differs(V2, V1, p, i, k, S2) /\ Other(p) \in Peers /\ Other(p) # p
  BY PutIs, AtIs, PeersAre
<1>2. V2.key[p][i] = k /\ (\A j \in Slots : j # i => V2.key[p][j] = Prime(m, j))
  <2>1. V2.key[p][i] = k BY <1>1 DEF Differs
  <2>2. ASSUME NEW j \in Slots, j # i PROVE V2.key[p][j] = Prime(m, j)
    <3>1. V2.key[p][j] = V1.key[p][j] BY <1>1, <2>2 DEF Differs
    <3>2. V1.key[p][j] = Prime(m, j) BY <1>1 DEF Puts
    <3> QED BY <3>1, <3>2
  <2> QED BY <2>1, <2>2
<1>3. ASSUME NEW j \in Slots PROVE V2.key[Other(p)][j] = W.key[Other(p)][j]
  <2>1. V2.key[Other(p)][j] = V1.key[Other(p)][j] BY <1>1 DEF Differs
  <2>2. V1.key[Other(p)][j] = W.key[Other(p)][j] BY <1>1 DEF Puts
  <2> QED BY <2>1, <2>2
<1>4. V2.sid = V1.sid /\ V2.nk = V1.nk /\ V2.n = V1.n /\ V2.written = V1.written /\ V2.received = V1.received
  BY <1>1 DEF Differs
<1>5. V2.net[p] = W.net[p] /\ V2.net[Other(p)] = W.net[Other(p)] \cup (S \cup S2)
  <2>1. V2.net[p] = V1.net[p] /\ V2.net[Other(p)] = V1.net[Other(p)] \cup S2 BY <1>1 DEF Differs
  <2>2. V1.net[p] = W.net[p] /\ V1.net[Other(p)] = W.net[Other(p)] \cup S BY <1>1 DEF Puts
  <2> QED BY <2>1, <2>2
<1>6. /\ \A j \in Slots : V1.sid[p][j] = m.sess[j].sid /\ V1.nk[p][j] = m.sess[j].nextKey
      /\ \A j \in Slots : V1.sid[Other(p)][j] = W.sid[Other(p)][j] /\ V1.nk[Other(p)][j] = W.nk[Other(p)][j]
      /\ V1.n[p] = m.n /\ V1.n[Other(p)] = W.n[Other(p)] /\ V1.written = W.written /\ V1.received = W.received
  BY <1>1 DEF Puts
<1> QED BY <1>2, <1>3, <1>4, <1>5, <1>6 DEF AtPuts

LEMMA SamePut ==
  ASSUME NEW V, NEW V2, NEW W, NEW p \in Peers, NEW i \in Slots, NEW k, NEW m, NEW m2, NEW S,
         Puts(V, W, p, m2, S), AtPuts(V2, W, p, i, k, m, S),
         Prime(m2, i) = k, m2.sess[i].sid = m.sess[i].sid, m2.sess[i].nextKey = m.sess[i].nextKey, m2.n = m.n,
         ButSession(m, m2, i)
  PROVE  Good(V) <=> Good(V2)
<1>1. \A a \in Peers : a = p \/ a = Other(p) BY PeersAre
<1>2. \A a \in Peers, j \in Slots : V2.key[a][j] = V.key[a][j] /\ V2.sid[a][j] = V.sid[a][j] /\ V2.nk[a][j] = V.nk[a][j]
  <2>1. \A j \in Slots : V2.key[p][j] = V.key[p][j] /\ V2.sid[p][j] = V.sid[p][j] /\ V2.nk[p][j] = V.nk[p][j]
    <3>1. ASSUME NEW j \in Slots, j = i
          PROVE  V2.key[p][j] = V.key[p][j] /\ V2.sid[p][j] = V.sid[p][j] /\ V2.nk[p][j] = V.nk[p][j]
      BY <3>1 DEF Puts, AtPuts
    <3>2. ASSUME NEW j \in Slots, j # i
          PROVE  V2.key[p][j] = V.key[p][j] /\ V2.sid[p][j] = V.sid[p][j] /\ V2.nk[p][j] = V.nk[p][j]
      <4>1. Prime(m2, j) = Prime(m, j) /\ m2.sess[j].sid = m.sess[j].sid /\ m2.sess[j].nextKey = m.sess[j].nextKey
        BY <3>2 DEF ButSession
      <4> QED BY <3>2, <4>1 DEF Puts, AtPuts
    <3> QED BY <3>1, <3>2
  <2>2. \A j \in Slots : /\ V2.key[Other(p)][j] = V.key[Other(p)][j] /\ V2.sid[Other(p)][j] = V.sid[Other(p)][j]
                         /\ V2.nk[Other(p)][j] = V.nk[Other(p)][j]
    BY DEF Puts, AtPuts
  <2> QED BY <1>1, <2>1, <2>2
<1>3. \A a \in Peers : /\ V2.n[a] = V.n[a] /\ V2.received[a] = V.received[a] /\ V2.written[a] = V.written[a]
                       /\ V2.net[a] = V.net[a]
  <2>1. /\ V2.n[p] = V.n[p] /\ V2.n[Other(p)] = V.n[Other(p)] /\ V2.received = V.received /\ V2.written = V.written
        /\ V2.net[p] = V.net[p] /\ V2.net[Other(p)] = V.net[Other(p)]
    BY DEF Puts, AtPuts
  <2> QED BY <1>1, <2>1
<1>4. ASSUME Good(V) PROVE Good(V2)
  <2>1. \A a \in Peers : /\ V2.n[a] = V.n[a] /\ V2.received[a] = V.received[a] /\ V2.written[a] = V.written[a]
                         /\ V2.net[a] \subseteq V.net[a]
    BY <1>3
  <2> QED BY <1>2, <1>4, <2>1, SameGood
<1>5. ASSUME Good(V2) PROVE Good(V)
  <2>1. \A a \in Peers, j \in Slots : V.key[a][j] = V2.key[a][j] /\ V.sid[a][j] = V2.sid[a][j] /\ V.nk[a][j] = V2.nk[a][j]
    BY <1>2
  <2>2. \A a \in Peers : /\ V.n[a] = V2.n[a] /\ V.received[a] = V2.received[a] /\ V.written[a] = V2.written[a]
                         /\ V.net[a] \subseteq V2.net[a]
    BY <1>3
  <2> QED BY <1>5, <2>1, <2>2, SameGood
<1> QED BY <1>4, <1>5

LEMMA HoldsPut ==
  ASSUME NEW W, NEW p \in Peers, NEW i \in Slots, NEW m, NEW S, NEW S2, Good(Put(W, p, m, S \cup S2)), Live(Prime(m, i))
  PROVE  Holds(Put(W, p, m, S), p, i, Prime(m, i), S2)
<1> PICK V, V1, V2, k : /\ V = Put(W, p, m, S \cup S2) /\ V1 = Put(W, p, m, S) /\ k = Prime(m, i) /\ V2 = At(V1, p, i, k, S2)
  OBVIOUS
<1>1. Puts(V, W, p, m, S \cup S2) /\ Puts(V1, W, p, m, S) /\ AtPuts(V2, W, p, i, k, m, S \cup S2)
  BY PutIs, AtPutIs
<1>2. ButSession(m, m, i) BY DEF ButSession
<1>3. Good(V2) BY <1>1, <1>2, SamePut
<1>4. k.keyId = V1.key[p][i].keyId BY <1>1 DEF Puts
<1> QED BY <1>3, <1>4 DEF Holds

LEMMA PutHolds ==
  ASSUME NEW W, NEW p \in Peers, NEW i \in Slots, NEW m, NEW m2, NEW S, NEW S2, NEW k, Holds(Put(W, p, m, S), p, i, k, S2),
         Prime(m2, i) = k, m2.sess[i].sid = m.sess[i].sid, m2.sess[i].nextKey = m.sess[i].nextKey, m2.n = m.n,
         ButSession(m, m2, i)
  PROVE  Good(Put(W, p, m2, S \cup S2))
<1> PICK V, V1, V2 : /\ V = Put(W, p, m2, S \cup S2) /\ V1 = Put(W, p, m, S) /\ V2 = At(V1, p, i, k, S2)
  OBVIOUS
<1>1. Puts(V, W, p, m2, S \cup S2) /\ AtPuts(V2, W, p, i, k, m, S \cup S2) BY PutIs, AtPutIs
<1>2. Good(V2) BY DEF Holds
<1> QED BY <1>1, <1>2, SamePut

\* A session that starts again.
LEMMA PutFresh ==
  ASSUME NEW W, NEW p \in Peers, NEW i \in Slots, NEW m, NEW m2, NEW S, NEW S2, NEW k, Good(At(Put(W, p, m, S), p, i, k, S2)),
         NEW n, n = m.n + 1, m2.n = n, m2.sess[i] = NewSession(p, n), ButSession(m, m2, i)
  PROVE  Good(Put(W, p, m2, S \cup S2))
<1> PICK V, V2 : V = Put(W, p, m2, S \cup S2) /\ V2 = At(Put(W, p, m, S), p, i, k, S2) OBVIOUS
<1>1. /\ Puts(V, W, p, m2, S \cup S2) /\ AtPuts(V2, W, p, i, k, m, S \cup S2)
      /\ (\A a \in Peers : a = p \/ a = Other(p)) /\ Other(p) \in Peers /\ Other(p) # p
  BY PutIs, AtPutIs, PeersAre
<1>2. Good(V2) OBVIOUS
<1>3. V2.n[p] = m.n /\ m.n \in Nat /\ V.n[p] = n /\ n \in Nat /\ m.n <= n
  <2>1. V2.n[p] = m.n BY <1>1 DEF AtPuts
  <2>2. m.n \in Nat BY <1>2, <2>1 DEF Good, PeerGood
  <2> QED BY <1>1, <2>1, <2>2 DEF Puts
<1>4. ButSlot(V2, V, p, i)
  <2>1. \A j \in Slots : j = i \/ (V.key[p][j] = V2.key[p][j] /\ V.sid[p][j] = V2.sid[p][j] /\ V.nk[p][j] = V2.nk[p][j])
    <3> SUFFICES ASSUME NEW j \in Slots, j # i
                 PROVE  V.key[p][j] = V2.key[p][j] /\ V.sid[p][j] = V2.sid[p][j] /\ V.nk[p][j] = V2.nk[p][j]
      OBVIOUS
    <3>1. V.key[p][j] = Prime(m2, j) /\ V2.key[p][j] = Prime(m, j) BY <1>1 DEF Puts, AtPuts
    <3>2. V.sid[p][j] = m2.sess[j].sid /\ V2.sid[p][j] = m.sess[j].sid BY <1>1 DEF Puts, AtPuts
    <3>3. V.nk[p][j] = m2.sess[j].nextKey /\ V2.nk[p][j] = m.sess[j].nextKey BY <1>1 DEF Puts, AtPuts
    <3>4. Prime(m2, j) = Prime(m, j) /\ m2.sess[j].sid = m.sess[j].sid /\ m2.sess[j].nextKey = m.sess[j].nextKey
      BY DEF ButSession
    <3> QED BY <3>1, <3>2, <3>3, <3>4
  <2>2. \A j \in Slots : /\ V.key[Other(p)][j] = V2.key[Other(p)][j] /\ V.sid[Other(p)][j] = V2.sid[Other(p)][j]
                         /\ V.nk[Other(p)][j] = V2.nk[Other(p)][j]
    <3>1. PICK q : q = Other(p) OBVIOUS
    <3>2. ASSUME NEW j \in Slots PROVE V.key[q][j] = V2.key[q][j] /\ V.sid[q][j] = V2.sid[q][j] /\ V.nk[q][j] = V2.nk[q][j]
      <4>1. V.key[q][j] = W.key[q][j] /\ V.sid[q][j] = W.sid[q][j] /\ V.nk[q][j] = W.nk[q][j]
        BY <1>1, <3>1 DEF Puts
      <4>2. V2.key[q][j] = W.key[q][j] /\ V2.sid[q][j] = W.sid[q][j] /\ V2.nk[q][j] = W.nk[q][j]
        BY <1>1, <3>1 DEF AtPuts
      <4> QED BY ONLY <4>1, <4>2
    <3> QED BY ONLY <3>1, <3>2
  <2>3. V.n[Other(p)] = V2.n[Other(p)] /\ V.written = V2.written /\ V.received = V2.received
        /\ V.net[p] = V2.net[p] /\ V.net[Other(p)] = V2.net[Other(p)]
    BY <1>1 DEF Puts, AtPuts
  <2>4. \A a \in Peers : /\ V.written[a] = V2.written[a] /\ V.received[a] = V2.received[a]
                         /\ V.net[a] \subseteq V2.net[a]
    BY <1>1, <2>3
  <2>5. \A a \in Peers, j \in Slots : (a = p /\ j = i) \/ (V.key[a][j] = V2.key[a][j] /\ V.sid[a][j] = V2.sid[a][j] /\ V.nk[a][j] = V2.nk[a][j])
    <3>1. ASSUME NEW a \in Peers, NEW j \in Slots
          PROVE  (a = p /\ j = i) \/ (V.key[a][j] = V2.key[a][j] /\ V.sid[a][j] = V2.sid[a][j] /\ V.nk[a][j] = V2.nk[a][j])
      <4>1. CASE a = p BY <2>1, <4>1
      <4>2. CASE a = Other(p) BY <2>2, <4>2
      <4> QED BY <1>1, <4>1, <4>2
    <3> QED BY <3>1
  <2> QED BY <1>3, <2>3, <2>4, <2>5 DEF ButSlot
<1>5. V.key[p][i] = NewSession(p, n).keys[KS_PRIMARY] /\ V.sid[p][i] = NewSession(p, n).sid /\ V.nk[p][i] = NewSession(p, n).nextKey
  <2>1. V.key[p][i] = Prime(m2, i) /\ V.sid[p][i] = m2.sess[i].sid /\ V.nk[p][i] = m2.sess[i].nextKey
    BY <1>1 DEF Puts
  <2> QED BY <2>1 DEF Prime
<1> QED BY <1>2, <1>3, <1>4, <1>5, NewSessionGood

\* Two turns that only differ in what they make of a session.
LEMMA PutsAlike ==
  ASSUME NEW V, NEW V2, NEW W, NEW p \in Peers, NEW m, NEW m2, NEW S,
         Puts(V, W, p, m, S), Puts(V2, W, p, m2, S), m2.n = m.n
  PROVE  PutAlike(V, V2, p)
<1> PICK q : q = Other(p) OBVIOUS
<1>1. \A a \in Peers : a = p \/ a = q BY PeersAre
<1>2. V2.written = V.written /\ V2.received = V.received BY DEF Puts
<1>3. V2.n[p] = V.n[p] /\ V2.n[q] = V.n[q] BY DEF Puts
<1>4. V2.net[p] = V.net[p] /\ V2.net[q] = V.net[q] BY DEF Puts
<1>5. \A j \in Slots : V.key[q][j] = W.key[q][j] /\ V.sid[q][j] = W.sid[q][j] /\ V.nk[q][j] = W.nk[q][j]
  BY DEF Puts
<1>6. \A j \in Slots : V2.key[q][j] = W.key[q][j] /\ V2.sid[q][j] = W.sid[q][j] /\ V2.nk[q][j] = W.nk[q][j]
  BY DEF Puts
<1>7. \A a \in Peers : V2.net[a] = V.net[a] /\ V2.n[a] = V.n[a] BY <1>1, <1>3, <1>4
<1> QED BY <1>2, <1>5, <1>6, <1>7 DEF PutAlike

LEMMA PutsButSlot ==
  ASSUME NEW V, NEW V2, NEW W, NEW p \in Peers, NEW i \in Slots, NEW m, NEW m2, NEW S, Good(V),
         Puts(V, W, p, m, S), Puts(V2, W, p, m2, S), m2.n = m.n, ButSession(m, m2, i)
  PROVE  ButSlot(V, V2, p, i)
<1>1. ASSUME NEW j \in Slots, j # i
      PROVE  V2.key[p][j] = V.key[p][j] /\ V2.sid[p][j] = V.sid[p][j] /\ V2.nk[p][j] = V.nk[p][j]
  <2>1. Prime(m2, j) = Prime(m, j) /\ m2.sess[j].sid = m.sess[j].sid /\ m2.sess[j].nextKey = m.sess[j].nextKey
    BY <1>1 DEF ButSession
  <2>2. V.key[p][j] = Prime(m, j) /\ V.sid[p][j] = m.sess[j].sid /\ V.nk[p][j] = m.sess[j].nextKey BY DEF Puts
  <2>3. V2.key[p][j] = Prime(m2, j) /\ V2.sid[p][j] = m2.sess[j].sid /\ V2.nk[p][j] = m2.sess[j].nextKey
    BY DEF Puts
  <2> QED BY <2>1, <2>2, <2>3
<1>2. PutAlike(V, V2, p) BY PutsAlike
<1>3. \A a \in Peers : a = p \/ a = Other(p) BY PeersAre
<1>4. ASSUME NEW a \in Peers, NEW j \in Slots, ~(a = p /\ j = i)
      PROVE  V2.key[a][j] = V.key[a][j] /\ V2.sid[a][j] = V.sid[a][j] /\ V2.nk[a][j] = V.nk[a][j]
  <2>1. CASE a = p BY <1>1, <1>4, <2>1
  <2>2. CASE a = Other(p) BY <1>2, <2>2 DEF PutAlike
  <2> QED BY <1>3, <2>1, <2>2
<1>5. V2.n[p] = V.n[p] /\ V.n[p] \in Nat BY <1>2 DEF PutAlike, Good, PeerGood
<1>6. /\ \A a \in Peers : V2.written[a] = V.written[a] /\ V2.received[a] = V.received[a] /\ V2.net[a] = V.net[a]
      /\ V2.n[Other(p)] = V.n[Other(p)]
  BY <1>2, PeersAre DEF PutAlike
<1> QED BY <1>4, <1>5, <1>6 DEF ButSlot

LEMMA PutRenewed ==
  ASSUME NEW W, NEW p \in Peers, NEW i \in Slots, NEW m, NEW m2, NEW S, Good(Put(W, p, m, S)), Live(Prime(m, i)),
         m2.n = m.n, RenewedAs(m.sess[i], m2.sess[i]), m.sess[i].nextKey < KeyIdMask, ButSession(m, m2, i)
  PROVE  Good(Put(W, p, m2, S))
<1> PICK V, V2 : /\ V = Put(W, p, m, S) /\ V2 = Put(W, p, m2, S) OBVIOUS
<1>1. /\ Puts(V, W, p, m, S) /\ Puts(V2, W, p, m2, S)
      /\ (\A a \in Peers : a = p \/ a = Other(p)) /\ Other(p) \in Peers /\ Other(p) # p
  BY PutIs, PeersAre
<1>2. V2.n[p] = V.n[p] /\ V2.n[p] \in Nat /\ V.n[p] <= V2.n[p] BY <1>1 DEF Puts, Good, PeerGood
<1>3. ButSlot(V, V2, p, i) BY <1>1, PutsButSlot
<1>4. /\ Live(V.key[p][i]) /\ NewKey(V2.key[p][i]) /\ V2.sid[p][i] = V.sid[p][i] /\ V2.key[p][i].keyId = V.nk[p][i]
      /\ V2.nk[p][i] = V.nk[p][i] + 1 /\ V.nk[p][i] < KeyIdMask
  BY <1>1 DEF Puts, RenewedAs, Prime
<1> QED BY <1>2, <1>3, <1>4, RenewGood

LEMMA PutEmpty ==
  ASSUME NEW W, NEW p \in Peers, NEW i \in Slots, NEW m, NEW m2, NEW S, Good(Put(W, p, m, S)),
         m2.n = m.n, Prime(m2, i) = Undef, m2.sess[i].sid = NoSid, ButSession(m, m2, i)
  PROVE  Good(Put(W, p, m2, S))
<1> PICK V, V2 : /\ V = Put(W, p, m, S) /\ V2 = Put(W, p, m2, S) OBVIOUS
<1>1. /\ Puts(V, W, p, m, S) /\ Puts(V2, W, p, m2, S)
      /\ (\A a \in Peers : a = p \/ a = Other(p)) /\ Other(p) \in Peers /\ Other(p) # p
  BY PutIs, PeersAre
<1>2. ButSlot(V, V2, p, i) BY <1>1, PutsButSlot
<1>3. V2.key[p][i] = Undef /\ V2.sid[p][i] = NoSid BY <1>1 DEF Puts
<1> QED BY <1>2, <1>3, EmptySlotGood

LEMMA PutMoved ==
  ASSUME NEW W, NEW p \in Peers, NEW m, NEW m2, NEW S, Good(Put(W, p, m, S)),
         m2.n = m.n, Prime(m2, TM_UNTRUSTED) = Undef, m2.sess[TM_UNTRUSTED].sid = NoSid,
         m2.sess[TM_ACTIVE] = m.sess[TM_UNTRUSTED]
  PROVE  Good(Put(W, p, m2, S))
<1> PICK V, V2 : /\ V = Put(W, p, m, S) /\ V2 = Put(W, p, m2, S) OBVIOUS
<1>1. /\ Puts(V, W, p, m, S) /\ Puts(V2, W, p, m2, S) /\ {TM_ACTIVE, TM_UNTRUSTED} \subseteq Slots
      /\ (\A a \in Peers : a = p \/ a = Other(p)) /\ Other(p) \in Peers /\ Other(p) # p
  BY PutIs, PeersAre DEF Slots
<1>2. MovesUp(V, V2, p)
  <2>1. PutAlike(V, V2, p) BY <1>1, PutsAlike
  <2>2. V2.key[p][TM_ACTIVE] = V.key[p][TM_UNTRUSTED] /\ V2.sid[p][TM_ACTIVE] = V.sid[p][TM_UNTRUSTED]
        /\ V2.nk[p][TM_ACTIVE] = V.nk[p][TM_UNTRUSTED] /\ V2.key[p][TM_UNTRUSTED] = Undef /\ V2.sid[p][TM_UNTRUSTED] = NoSid
    BY <1>1 DEF Puts, Prime
  <2> QED BY <2>1, <2>2 DEF MovesUp, PutAlike
<1> QED BY <1>2, MoveGood

LEMMA PutResting ==
  ASSUME NEW W, NEW p \in Peers, NEW m, NEW S
  PROVE  Resting(Put(W, p, m, S), Other(p)) <=> Resting(W, Other(p))
<1>1. Puts(Put(W, p, m, S), W, p, m, S) /\ TM_UNTRUSTED \in Slots BY PutIs DEF Slots
<1> QED BY <1>1 DEF Resting, Puts

LEMMA SetIs ==
  ASSUME NEW m, MultiFields \subseteq DOMAIN m, Sessions \subseteq DOMAIN m.sess, NEW i \in Sessions, NEW s
  PROVE  SetTo(m, [m EXCEPT !.sess[i] = s], i, s)
BY DEF SetTo, MultiFields

LEMMA SetFine ==
  ASSUME NEW m, NEW m2, MultiFine(m), NEW i \in Slots, NEW s, SetTo(m, m2, i, s), SessionFine(s), Live(s.keys[KS_PRIMARY])
  PROVE  MultiFine(m2) /\ ButSession(m, m2, i)
<1>1. TM_LAME_DUCK # i /\ {i, TM_ACTIVE, TM_UNTRUSTED, TM_LAME_DUCK} \subseteq Sessions /\ Slots \subseteq Sessions
  BY DEF Slots, Sessions
<1>2. \A j \in Sessions : SessionFine(m2.sess[j]) BY DEF SetTo, MultiFine
<1>3. Prime(m2, TM_LAME_DUCK) = Prime(m, TM_LAME_DUCK) BY <1>1 DEF SetTo, Prime
<1>4. m2.up => Live(Prime(m2, TM_ACTIVE)) /\ (~SingleSession => Live(Prime(m2, TM_UNTRUSTED)))
  BY <1>1 DEF SetTo, MultiFine, Prime
<1>5. ButSession(m, m2, i) BY <1>1 DEF ButSession, SetTo, Prime
<1> QED BY <1>2, <1>3, <1>4, <1>5 DEF MultiFine, SetTo

LEMMA KeyIs ==
  ASSUME NEW s, SessionFine(s), NEW k, NEW s2, s2 = WithKey(s, k)
  PROVE  /\ SessionFine(s2) /\ s2.keys[KS_PRIMARY] = k /\ s2.sid = s.sid /\ s2.nextKey = s.nextKey
         /\ s2.keys[KS_LAME_DUCK] = s.keys[KS_LAME_DUCK]
BY DEF WithKey, SessionFine, SessionFields

LEMMA LamelyIs ==
  ASSUME NEW s, SessionFine(s), NEW env, NEW i, NEW expired
  PROVE  Lamely(s, Aged(s, env, i)) /\ Lamely(s, Buried(s, expired))
<1>1. \A k : Lamely(s, [s EXCEPT !.keys[KS_LAME_DUCK] = k]) BY DEF Lamely, SessionFine, SessionFields
<1>2. Lamely(s, [s EXCEPT !.keys[KS_LAME_DUCK].young = FALSE]) BY DEF Lamely, SessionFine, SessionFields
<1>3. Lamely(s, s) BY DEF Lamely
<1> QED BY <1>1, <1>2, <1>3 DEF Aged, Buried

LEMMA ReadyIs ==
  ASSUME NEW s, SessionFine(s), s.nextKey \in Nat, NEW k, NEW env, NEW i, NEW expired, s.nextKey >= 1,
         env.at = i /\ env.what = "renew" => s.nextKey < KeyIdMask
  PROVE  ReadyAs(s, k, Aged(WithKey(s, k), env, i), Buried(Renewed(Aged(WithKey(s, k), env, i), env, i), expired))
<1> PICK s2, t, u, ready :
      /\ s2 = WithKey(s, k) /\ t = Aged(s2, env, i) /\ u = Renewed(t, env, i) /\ ready = Buried(u, expired)
  OBVIOUS
<1>1. SessionFine(s2) /\ s2.nextKey = s.nextKey BY KeyIs
<1>2. Lamely(s2, t) /\ SessionFine(t) /\ t.nextKey = s.nextKey BY <1>1, LamelyIs DEF Lamely
<1>3. CASE u = t
  <2>1. Lamely(t, ready) BY <1>2, <1>3, LamelyIs
  <2> QED BY <1>2, <2>1 DEF ReadyAs, Lamely
<1>4. CASE env.at = i /\ env.what = "renew" /\ u = SoftReset(t)
  <2>1. t.nextKey \in 1..(KeyIdMask - 1) BY <1>2, <1>4 DEF KeyIdMask
  <2>2. RenewedAs(t, u) BY <1>2, <1>4, <2>1, SoftResetIs DEF SessionFine, SessionFields
  <2>3. SessionFine(u) BY <2>2 DEF RenewedAs, SessionFine, SessionFields
  <2>4. Lamely(u, ready) BY <2>3, LamelyIs
  <2>5. RenewedAs(t, ready) BY <2>2, <2>4 DEF RenewedAs, Lamely, SessionFine, SessionFields
  <2> QED BY <1>2, <1>4, <2>4, <2>5 DEF ReadyAs, Lamely
<1> QED BY <1>3, <1>4 DEF Renewed

LEMMA AckedIs ==
  ASSUME NEW p, NEW k, NEW k2, Acked(k, k2)
  PROVE  /\ k2.keyId = k.keyId /\ (Live(k) <=> Live(k2)) /\ (Flushed(p, k) <=> Flushed(p, k2))
         /\ k2.state = k.state /\ k2.remote = k.remote
BY DEF Acked, Keeps, KeyFields, Live, Flushed, KeySent

LEMMA PutAcked ==
  ASSUME NEW W, NEW p \in Peers, NEW i \in Slots, NEW m, NEW m2, NEW S, Good(Put(W, p, m, S)), Live(Prime(m, i)),
         Acked(Prime(m, i), Prime(m2, i)), m2.sess[i].sid = m.sess[i].sid, m2.sess[i].nextKey = m.sess[i].nextKey,
         m2.n = m.n, ButSession(m, m2, i)
  PROVE  Good(Put(W, p, m2, S))
<1> PICK V, k, k2 : V = Put(W, p, m, S) /\ k = Prime(m, i) /\ k2 = Prime(m2, i) OBVIOUS
<1>1. Holds(V, p, i, k, {})
  <2>1. S \cup {} = S OBVIOUS
  <2> QED BY <2>1, HoldsPut
<1>2. KeyFine(V, p, i, k) BY <1>1, HoldsIs
<1>3. KeyGood(p, k2, <<V.sid[p][i], k.keyId>>, V.written[p], V.written[Other(p)]) /\ Quietly(p, k, k2)
  <2> PICK nm, w, v : nm = <<V.sid[p][i], k.keyId>> /\ w = V.written[p] /\ v = V.written[Other(p)] OBVIOUS
  <2>1. KeyGood(p, k, nm, w, v) BY <1>2 DEF KeyFine
  <2>2. Acked(k, k2) OBVIOUS
  <2>3. KeyGood(p, k2, nm, w, v) /\ Quietly(p, k, k2) BY ONLY p \in Peers, <2>1, <2>2, KeyAcks DEF Acked
  <2> QED BY <2>3
<1>4. k2.keyId = k.keyId BY AckedIs
<1>5. Holds(V, p, i, k2, {}) BY <1>1, <1>3, <1>4, HoldsQuiet DEF KeyFine
<1>6. Good(Put(W, p, m2, S \cup {})) BY <1>5, PutHolds
<1> QED BY <1>6

LEMMA ReadyGood ==
  ASSUME NEW W, NEW p \in Peers, NEW i \in Slots, NEW m, NEW mr, NEW S, TurnGood(W, p, m, S), Live(Prime(m, i)),
         NEW k, Acked(Prime(m, i), k), NEW t, NEW ready, ReadyAs(m.sess[i], k, t, ready), SetTo(m, mr, i, ready)
  PROVE  TurnGood(W, p, mr, S) /\ Live(Prime(mr, i)) /\ ButSession(m, mr, i) /\ SessionFine(ready)
<1>1. SessionFine(m.sess[i]) /\ MultiFine(m) /\ i \in Sessions BY DEF TurnGood, MultiFine, Slots, Sessions
<1>2. PICK s2 : s2 = WithKey(m.sess[i], k) OBVIOUS
<1>3. s2.keys[KS_PRIMARY] = k /\ s2.sid = m.sess[i].sid /\ s2.nextKey = m.sess[i].nextKey BY <1>1, <1>2, KeyIs
<1>4. SessionFine(t) /\ t.keys[KS_PRIMARY] = k /\ t.sid = m.sess[i].sid /\ t.nextKey = m.sess[i].nextKey
  BY <1>2, <1>3 DEF ReadyAs, Lamely
<1>5. PICK m1 : m1 = [m EXCEPT !.sess[i] = t] OBVIOUS
<1>6. SetTo(m, m1, i, t) BY <1>1, <1>5, SetIs DEF MultiFine
<1>7. Live(k) /\ Flushed(p, k) BY AckedIs DEF TurnGood
<1>8. MultiFine(m1) /\ ButSession(m, m1, i) BY <1>1, <1>4, <1>6, <1>7, SetFine
<1>9. Prime(m1, i) = k /\ m1.sess[i] = t /\ m1.n = m.n BY <1>4, <1>6 DEF SetTo, Prime
<1>10. Good(Put(W, p, m1, S)) BY <1>4, <1>8, <1>9, PutAcked DEF TurnGood
<1>11. SetTo(m1, mr, i, ready) BY <1>6 DEF SetTo
<1>12. Prime(mr, i) = ready.keys[KS_PRIMARY] /\ mr.sess[i] = ready /\ mr.n = m1.n BY <1>11 DEF SetTo, Prime
<1>13. ASSUME Live(ready.keys[KS_PRIMARY]), Flushed(p, ready.keys[KS_PRIMARY]), ButSession(m1, mr, i) => Good(Put(W, p, mr, S))
       PROVE  TurnGood(W, p, mr, S) /\ Live(Prime(mr, i)) /\ ButSession(m, mr, i)
  <2>1. SessionFine(ready) BY DEF ReadyAs
  <2>2. MultiFine(mr) /\ ButSession(m1, mr, i) /\ ButSession(m, mr, i)
    BY <1>1, <1>8, <1>11, <1>13, <2>1, SetFine
  <2>3. ASSUME NEW j \in Slots, Live(Prime(mr, j)) PROVE Flushed(p, Prime(mr, j))
    <3>1. CASE j = i BY <1>12, <1>13, <3>1
    <3>2. CASE j # i BY <2>2, <2>3, <3>2 DEF ButSession, TurnGood
    <3> QED BY <3>1, <3>2
  <2> QED BY <1>12, <1>13, <2>2, <2>3 DEF TurnGood
<1>14. CASE Lamely(t, ready)
  <2>1. ready.keys[KS_PRIMARY] = k /\ ready.sid = m.sess[i].sid /\ ready.nextKey = m.sess[i].nextKey
    BY <1>4, <1>14 DEF Lamely
  <2>2. SessionFine(ready) BY DEF ReadyAs
  <2>3. ButSession(m, mr, i) BY <1>1, <1>7, <2>1, <2>2, SetFine
  <2>4. Good(Put(W, p, mr, S)) BY <1>9, <1>12, <2>1, <2>3, PutAcked DEF TurnGood
  <2> QED BY <1>7, <1>13, <2>1, <2>2, <2>4
<1>15. CASE RenewedAs(t, ready) /\ m.sess[i].nextKey < KeyIdMask
  <2>1. NewKey(ready.keys[KS_PRIMARY]) BY <1>15 DEF RenewedAs
  <2>2. Live(ready.keys[KS_PRIMARY]) /\ Flushed(p, ready.keys[KS_PRIMARY]) BY <2>1, NewKeyGood
  <2>3. SessionFine(ready) BY DEF ReadyAs
  <2>4. ButSession(m1, mr, i) => Good(Put(W, p, mr, S)) BY <1>4, <1>7, <1>9, <1>10, <1>12, <1>15, PutRenewed
  <2> QED BY <1>13, <2>2, <2>3, <2>4
<1> QED BY <1>14, <1>15 DEF ReadyAs

(* A session's turn of tls_multi_process(). *)

LEMMA WorkingFine ==
  ASSUME NEW W, NEW p \in Peers, NEW i \in Slots, NEW mr, NEW S, NEW S1, NEW y, NEW ready, NEW env,
         TurnGood(W, p, mr, S1), Live(Prime(mr, i)), mr.sess[i] = ready,
         S1 = S \cup Sent(y.link)
  PROVE  WorkStarts(W, p, i, mr, S, Working(p, y, i, ready, env))
<1> PICK V, x : V = Put(W, p, mr, S) /\ x = Working(p, y, i, ready, env) OBVIOUS
<1>1. /\ WorkFields \subseteq DOMAIN x /\ x.p = p /\ x.sid = ready.sid /\ x.stop = FALSE /\ x.error = FALSE
      /\ x.k = ready.keys[KS_PRIMARY] /\ x.link = y.link
  BY DEF Working, WorkFields
<1>2. x.k = Prime(mr, i) BY <1>1 DEF Prime
<1>3. Holds(V, p, i, x.k, Sent(x.link))
  <2> PICK k, T : k = Prime(mr, i) /\ T = Sent(y.link) OBVIOUS
  <2>1. Good(Put(W, p, mr, S \cup T)) /\ Live(Prime(mr, i)) BY DEF TurnGood
  <2>2. Holds(Put(W, p, mr, S), p, i, Prime(mr, i), T) BY <2>1, HoldsPut
  <2> QED BY <1>1, <1>2, <2>2
<1>4. V.sid[p][i] = ready.sid
  <2>1. Puts(V, W, p, mr, S) BY PutIs
  <2> QED BY <2>1 DEF Puts
<1> QED BY <1>1, <1>2, <1>3, <1>4 DEF WorkStarts, WorkFine, Busy, TurnGood

LEMMA ResetIs ==
  ASSUME NEW p, NEW m, MultiFields \subseteq DOMAIN m, Sessions \subseteq DOMAIN m.sess, NEW i \in Slots, NEW n, n = m.n + 1
  PROVE  StartsAgain(p, m, ResetSession(p, m, i), i, n)
<1> PICK ns, b : ns = NewSession(p, n) /\ b = ResetSession(p, m, i) OBVIOUS
<1>1. b = [m EXCEPT !.n = n, !.sess[i] = ns] BY DEF ResetSession
<1>2. i \in Sessions /\ i # TM_LAME_DUCK /\ TM_LAME_DUCK \in Sessions /\ Slots \subseteq Sessions
  BY DEF Slots, Sessions
<1>3. StartsAgain(p, m, b, i, n) BY <1>1, <1>2 DEF StartsAgain, MultiFields
<1> QED BY <1>3

LEMMA AfterErrorIs ==
  ASSUME NEW p, NEW m, MultiFields \subseteq DOMAIN m, Sessions \subseteq DOMAIN m.sess, NEW i \in Slots, NEW n, n = m.n + 1
  PROVE  StartsAgain(p, m, AfterError(p, m, i), i, n)
<1>1. i \in Sessions /\ i # TM_LAME_DUCK /\ TM_LAME_DUCK \in Sessions /\ Slots \subseteq Sessions /\ TM_LAME_DUCK \notin Slots
  BY DEF Slots, Sessions
<1> PICK m2 : m2 = AfterError(p, m, i) OBVIOUS
<1>2. CASE m2 = ResetSession(p, m, i) BY <1>2, ResetIs
<1>3. CASE m2 = MoveSession(p, m, TM_LAME_DUCK, TM_ACTIVE) /\ i = TM_ACTIVE
  <2> PICK a, s : s = m.sess[i] /\ a = [m EXCEPT !.sess[TM_LAME_DUCK] = s] OBVIOUS
  <2>1. SetTo(m, a, TM_LAME_DUCK, s) BY <1>1, SetIs
  <2>2. m2 = ResetSession(p, a, i) BY <1>3 DEF MoveSession
  <2>3. MultiFields \subseteq DOMAIN a /\ Sessions \subseteq DOMAIN a.sess /\ n = a.n + 1 BY <2>1 DEF SetTo
  <2>4. StartsAgain(p, a, m2, i, n) BY <2>2, <2>3, ResetIs
  <2>5. \A j \in Slots : a.sess[j] = m.sess[j] BY <1>1, <2>1 DEF SetTo
  <2>6. m2.sess[TM_LAME_DUCK] = s \/ m2.sess[TM_LAME_DUCK] = a.sess[i]
    BY <1>1, <2>1, <2>4 DEF StartsAgain, SetTo
  <2>7. m2.up = m.up BY <2>1, <2>4 DEF StartsAgain, SetTo
  <2>8. StartsAgain(p, m, m2, i, n) BY <2>4, <2>5, <2>6, <2>7 DEF StartsAgain
  <2> QED BY <2>8
<1> QED BY <1>2, <1>3 DEF AfterError

LEMMA WorkedGood ==
  ASSUME NEW W, NEW p \in Peers, NEW i \in Slots, NEW mr, NEW S, NEW S1, NEW y, NEW ready, NEW x, NEW z,
         TurnGood(W, p, mr, S1), MultiFine(y.m), SetTo(y.m, mr, i, ready), SessionFine(ready), Live(Prime(mr, i)),
         Works(Put(W, p, mr, S), p, i, x, z), NEW w, w = Worked(p, y, i, ready, z)
  PROVE  WorkedTo(W, p, S, i, ready, z, y, w)
<1> PICK V, s, m : V = Put(W, p, mr, S) /\ s = WithKey(ready, z.k) /\ m = [y.m EXCEPT !.sess[i] = s] OBVIOUS
<1>1. i \in Sessions /\ Slots \subseteq Sessions /\ TM_LAME_DUCK \in Sessions /\ TM_LAME_DUCK # i
  BY DEF Slots, Sessions
<1>2. SetTo(y.m, m, i, s) BY <1>1, SetIs DEF MultiFine
<1>3. SessionFine(s) /\ s.keys[KS_PRIMARY] = z.k /\ s.sid = ready.sid /\ s.nextKey = ready.nextKey BY KeyIs
<1>4. SetTo(mr, m, i, s) BY <1>2 DEF SetTo
<1>5. Prime(m, i) = z.k /\ m.sess[i].sid = mr.sess[i].sid /\ m.sess[i].nextKey = mr.sess[i].nextKey /\ m.n = mr.n
  BY <1>3, <1>4 DEF SetTo, Prime
<1>6. w.link = z.link /\ {"m", "link"} \subseteq DOMAIN w /\ w.m = (IF z.error THEN AfterError(p, m, i) ELSE m)
  BY DEF Worked, WithKey
<1>7. ButSession(mr, m, i) BY <1>1, <1>4 DEF ButSession, SetTo, Prime
<1>8. WorkFine(V, p, i, z) /\ (~z.error => Flushed(p, z.k)) /\ z.error \in BOOLEAN
  BY DEF Works, Steps, WorkFine
<1>9. \A j \in Slots : j # i => m.sess[j] = y.m.sess[j] /\ Prime(m, j) = Prime(mr, j)
  BY <1>1, <1>2, <1>7 DEF SetTo, ButSession
<1>10. CASE ~z.error
  <2>1. Holds(V, p, i, z.k, Sent(z.link)) BY <1>8, <1>10 DEF WorkFine
  <2>2. Good(Put(W, p, m, S \cup Sent(z.link))) BY <1>5, <1>7, <2>1, PutHolds
  <2>3. Live(z.k) BY <2>1 DEF Holds
  <2>4. MultiFine(m) BY <1>2, <1>3, <2>3, SetFine
  <2>5. ASSUME NEW j \in Slots, Live(Prime(m, j)) PROVE Flushed(p, Prime(m, j))
    <3>1. CASE j = i BY <1>5, <1>8, <1>10, <3>1
    <3>2. CASE j # i BY <1>9, <2>5, <3>2 DEF TurnGood
    <3> QED BY <3>1, <3>2
  <2>6. TurnGood(W, p, w.m, S \cup Sent(w.link)) BY <1>6, <1>10, <2>2, <2>4, <2>5 DEF TurnGood
  <2> QED BY <1>2, <1>6, <1>9, <1>10, <2>6 DEF WorkedTo, SetTo
<1>11. CASE z.error
  <2>1. PICK k : Good(At(V, p, i, k, Sent(z.link))) BY <1>8, <1>11 DEF WorkFine, Holds
  <2>2. z.k.state = S_ERROR /\ "state" \in DOMAIN z.k BY <1>8, <1>11 DEF WorkFine
  <2> PICK m2, n : m2 = AfterError(p, m, i) /\ n = m.n + 1 OBVIOUS
  <2>3. StartsAgain(p, m, m2, i, n)
    <3>1. MultiFields \subseteq DOMAIN m /\ Sessions \subseteq DOMAIN m.sess BY <1>2 DEF SetTo
    <3> QED BY <3>1, AfterErrorIs
  <2>4. ButSession(mr, m2, i) BY <1>7, <2>3 DEF ButSession, Prime, StartsAgain
  <2>5. Good(Put(W, p, m2, S \cup Sent(z.link)))
    <3> PICK T : T = Sent(z.link) OBVIOUS
    <3>1. Good(At(Put(W, p, mr, S), p, i, k, T)) /\ n = mr.n + 1 BY <1>5, <2>1
    <3>2. Good(Put(W, p, m2, S \cup T)) BY <2>3, <2>4, <3>1, PutFresh DEF StartsAgain
    <3> QED BY <3>2
  <2>6. SessionFine(NewSession(p, n)) /\ Live(NewSession(p, n).keys[KS_PRIMARY]) /\ Flushed(p, NewSession(p, n).keys[KS_PRIMARY])
    <3> PICK s0, k0 : s0 = NewSession(p, n) /\ k0 = KeyState(S_INITIAL, 0, HardReset(p)) OBVIOUS
    <3>1. SessionFine(s0) /\ s0.keys[KS_PRIMARY] = k0 BY NewSessionIs DEF SessionFine, SessionFields
    <3>2. Live(k0) /\ k0.tls = NewTls BY DEF KeyState, Live
    <3>3. NewTls.phase = "start" BY DEF NewTls
    <3> QED BY <3>1, <3>2, <3>3 DEF Flushed
  <2>7. \A j \in Sessions : j \in Slots \/ j = TM_LAME_DUCK BY DEF Sessions, Slots
  <2>8. MultiFine(m2)
    <3>1. \A j \in Sessions : SessionFine(m.sess[j]) BY <1>2, <1>3 DEF SetTo, MultiFine
    <3>2. \A j \in Sessions : SessionFine(m2.sess[j]) BY <1>1, <2>3, <2>6, <2>7, <3>1 DEF StartsAgain
    <3>3. Prime(m, TM_LAME_DUCK) = Prime(y.m, TM_LAME_DUCK) BY <1>1, <1>2 DEF SetTo, Prime
    <3>4. Prime(m2, TM_LAME_DUCK) = Prime(m, TM_LAME_DUCK) \/ Prime(m2, TM_LAME_DUCK) = z.k
      BY <1>5, <2>3 DEF Prime, StartsAgain
    <3>5. "state" \in DOMAIN Prime(m2, TM_LAME_DUCK) /\ Prime(m2, TM_LAME_DUCK).state \in {S_ERROR, S_UNDEF}
      BY <2>2, <3>3, <3>4 DEF MultiFine
    <3>6. ASSUME NEW j \in Slots, Live(Prime(mr, j)) PROVE Live(Prime(m2, j))
      <4>1. CASE j = i BY <2>3, <2>6, <4>1 DEF Prime, StartsAgain
      <4>2. CASE j # i BY <2>4, <3>6, <4>2 DEF ButSession
      <4> QED BY <4>1, <4>2
    <3>7. m2.up = mr.up /\ {TM_ACTIVE, TM_UNTRUSTED} \subseteq Slots
      BY <1>4, <2>3 DEF SetTo, Slots, StartsAgain
    <3>8. m2.up => Live(Prime(m2, TM_ACTIVE)) /\ (~SingleSession => Live(Prime(m2, TM_UNTRUSTED)))
      BY <3>6, <3>7 DEF TurnGood, MultiFine
    <3> QED BY <2>3, <3>2, <3>5, <3>8 DEF MultiFine, StartsAgain
  <2>9. ASSUME NEW j \in Slots, Live(Prime(m2, j)) PROVE Flushed(p, Prime(m2, j))
    <3>1. CASE j = i BY <2>3, <2>6, <3>1 DEF Prime, StartsAgain
    <3>2. CASE j # i BY <2>4, <2>9, <3>2 DEF ButSession, TurnGood
    <3> QED BY <3>1, <3>2
  <2>10. TurnGood(W, p, w.m, S \cup Sent(w.link)) BY <1>6, <1>11, <2>5, <2>8, <2>9 DEF TurnGood
  <2>11. y.m.n = m.n /\ m.up = y.m.up BY <1>2 DEF SetTo
  <2>12. w.m = m2 BY <1>6, <1>11
  <2> QED BY <1>6, <1>9, <1>11, <2>3, <2>10, <2>11, <2>12 DEF WorkedTo, StartsAgain
<1> QED BY <1>8, <1>10, <1>11

LEMMA SessionIs ==
  ASSUME NEW W, NEW p \in Peers, NEW i \in Slots, NEW m, NEW S, Good(Put(W, p, m, S))
  PROVE  /\ m.n \in Nat
         /\ (Prime(m, i) = Undef /\ m.sess[i].sid = NoSid) \/ SessionGood(W, p, m, i)
<1> PICK V : V = Put(W, p, m, S) OBVIOUS
<1>1. Puts(V, W, p, m, S) BY PutIs
<1>2. V.key[p][i] = Prime(m, i) /\ V.sid[p][i] = m.sess[i].sid /\ V.nk[p][i] = m.sess[i].nextKey /\ V.n[p] = m.n
      /\ V.written = W.written
  BY <1>1 DEF Puts
<1>3. PeerGood(V, p) BY DEF Good
<1>4. V.n[p] \in Nat /\ ((V.key[p][i] = Undef /\ V.sid[p][i] = NoSid) \/ SlotGood(V, p, i))
  BY <1>3 DEF PeerGood
<1>5. CASE SlotGood(V, p, i)
  <2> PICK k, nm, w, v : k = V.key[p][i] /\ nm = Name(V, p, i) /\ w = V.written[p] /\ v = V.written[Other(p)]
    OBVIOUS
  <2>1. KeyGood(p, k, nm, w, v) /\ V.sid[p][i] \in {p} \X (1..V.n[p]) /\ k.keyId < V.nk[p][i] /\ V.nk[p][i] \in 1..KeyIdMask
    BY <1>5 DEF SlotGood
  <2>2. nm = <<m.sess[i].sid, k.keyId>> /\ w = W.written[p] /\ v = W.written[Other(p)] /\ k = Prime(m, i)
    BY <1>2 DEF Name
  <2>3. Live(k)
    <3>1. Shaped(k) BY <2>1 DEF KeyGood
    <3>2. k.state \in S_INITIAL..S_NORMAL_OP BY <3>1 DEF Shaped
    <3> QED BY <3>2 DEF Live
  <2> QED BY <1>2, <1>4, <2>1, <2>2, <2>3 DEF SessionGood
<1> QED BY <1>2, <1>4, <1>5

LEMMA ProcessSame ==
  ASSUME NEW W, NEW p \in Peers, NEW S, NEW i \in Slots, NEW y, TurnGood(W, p, y.m, S \cup Sent(y.link)), y.m.up,
         {"m", "link"} \subseteq DOMAIN y, Live(Prime(y.m, i)) => Idle(p, Prime(y.m, i))
  PROVE  Processed(W, p, S, i, y, y)
BY DEF Processed

LEMMA ProcessTls ==
  ASSUME NEW W, NEW p \in Peers, NEW i \in Slots, NEW S, NEW y, NEW env, TurnGood(W, p, y.m, S \cup Sent(y.link)), y.m.up,
         Resting(W, Other(p)), Live(Prime(y.m, i)), NEW k, Acked(Prime(y.m, i), k), Keeps(Prime(y.m, i), k, {"addr"}),
         NEW t, NEW ready, ReadyAs(y.m.sess[i], k, t, ready)
  PROVE  Processed(W, p, S, i, y, TlsProcess(p, y, i, ready, env))
<1> PICK S1, mr : S1 = S \cup Sent(y.link) /\ mr = [y.m EXCEPT !.sess[i] = ready] OBVIOUS
<1>1. i \in Sessions /\ MultiFine(y.m) BY DEF Slots, Sessions, TurnGood
<1>2. SetTo(y.m, mr, i, ready) BY <1>1, SetIs DEF MultiFine
<1>3. TurnGood(W, p, mr, S1) /\ Live(Prime(mr, i)) /\ SessionFine(ready) BY <1>2, ReadyGood
<1>4. mr.sess[i] = ready BY <1>2 DEF SetTo
<1> PICK V, x : V = Put(W, p, mr, S) /\ x = Working(p, y, i, ready, env) OBVIOUS
<1>5. WorkFine(V, p, i, x) /\ Busy(x) /\ Flushed(p, x.k) /\ x.k = Prime(mr, i)
  <2>1. S1 = S \cup Sent(y.link) /\ V = Put(W, p, mr, S) /\ x = Working(p, y, i, ready, env) OBVIOUS
  <2>2. WorkStarts(W, p, i, mr, S, Working(p, y, i, ready, env))
    BY ONLY p \in Peers, i \in Slots, <1>3, <1>4, <2>1, WorkingFine
  <2> QED BY <2>1, <2>2 DEF WorkStarts
<1>6. Resting(V, Other(p)) BY PutResting
<1> PICK z, w : z = Acknowledge(Rounds(x)) /\ w = TlsProcess(p, y, i, ready, env) OBVIOUS
<1>7. Works(V, p, i, x, z) BY <1>5, <1>6, ProcessWorks
<1>8. w = Worked(p, y, i, ready, z) BY DEF TlsProcess
<1>9. WorkedTo(W, p, S, i, ready, z, y, w) BY <1>1, <1>2, <1>3, <1>7, <1>8, WorkedGood
<1>10. y.m.n \in Nat BY SessionIs DEF TurnGood
<1>11. ASSUME w.m.n = y.m.n, w.m.sess[i] = y.m.sess[i] PROVE Idle(p, Prime(w.m, i))
  <2>1. ~z.error /\ w.m.sess[i] = WithKey(ready, z.k) BY <1>9, <1>10, <1>11 DEF WorkedTo
  <2> PICK s, s2 : s = y.m.sess[i] /\ s2 = WithKey(ready, z.k) OBVIOUS
  <2>2. s2 = s /\ SessionFine(s) BY <1>1, <1>11, <2>1 DEF MultiFine
  <2>3. s2.keys[KS_PRIMARY] = z.k /\ s2.nextKey = ready.nextKey BY <1>3, KeyIs
  <2>4. Prime(w.m, i) = z.k /\ Prime(y.m, i) = z.k BY <1>11, <2>2, <2>3 DEF Prime
  <2>5. t.keys[KS_PRIMARY] = k /\ t.nextKey = s.nextKey
    <3> PICK s3 : s3 = WithKey(s, k) OBVIOUS
    <3>1. s3.keys[KS_PRIMARY] = k /\ s3.nextKey = s.nextKey BY <2>2, KeyIs
    <3> QED BY <3>1 DEF ReadyAs, Lamely
  <2>6. s.nextKey \in Nat
    <3>1. SessionGood(W, p, y.m, i) BY SessionIs, UndefIs DEF TurnGood
    <3> QED BY <3>1 DEF SessionGood
  <2>7. Lamely(t, ready) BY <2>2, <2>3, <2>5, <2>6 DEF ReadyAs, RenewedAs
  <2>8. x.k = k BY <1>4, <1>5, <2>5, <2>7 DEF Lamely, Prime
  <2>9. Same(p, x.k, z.k) BY <2>4, <2>8 DEF Same, Keeps, KeyFields
  <2>10. Idle(p, z.k) BY <1>7, <2>1, <2>9 DEF Works
  <2> QED BY <2>4, <2>10
<1> QED BY <1>9, <1>11 DEF WorkedTo, Processed

LEMMA ProcessSessionGood ==
  ASSUME NEW W, NEW p \in Peers, NEW i \in Slots, NEW S, NEW y, NEW env, TurnGood(W, p, y.m, S \cup Sent(y.link)), y.m.up,
         Resting(W, Other(p)), {"m", "link"} \subseteq DOMAIN y,
         env.at = i /\ env.what = "renew" => y.m.sess[i].nextKey < KeyIdMask
  PROVE  Processed(W, p, S, i, y, ProcessSession(p, y, i, env))
<1> PICK s, found, k0, k : /\ s = y.m.sess[i] /\ k0 = Prime(y.m, i)
                           /\ found = (i = TM_ACTIVE /\ k0.state = S_INITIAL) /\ k = [k0 EXCEPT !.addr = @ \/ found]
  OBVIOUS
<1>1. SessionFine(s) BY DEF TurnGood, MultiFine, Slots, Sessions
<1> PICK t, ready : /\ t = Aged(WithKey(s, k), env, i) /\ ready = Buried(Renewed(t, env, i), i \in env.dead)
  OBVIOUS
<1> PICK w : w = ProcessSession(p, y, i, env) OBVIOUS
<1>2. w = IF k.state < S_INITIAL \/ ~k.addr THEN y ELSE TlsProcess(p, y, i, ready, env)
  BY Zenon DEF ProcessSession, WithKey, Prime
<1>3. CASE k0 = Undef
  <2>1. k.state = S_UNDEF BY <1>3 DEF Undef, KeyState
  <2>2. w = y BY <1>2, <2>1
  <2> QED BY <1>3, <2>2, ProcessSame, UndefIs
<1>4. CASE SessionGood(W, p, y.m, i)
  <2> PICK nm, a, b : nm = <<s.sid, k0.keyId>> /\ a = W.written[p] /\ b = W.written[Other(p)] OBVIOUS
  <2>1. Live(k0) /\ KeyGood(p, k0, nm, a, b) /\ s.nextKey \in 1..KeyIdMask BY <1>4 DEF SessionGood
  <2>2. KeyFields \subseteq DOMAIN k0 BY <2>1 DEF KeyGood, Shaped
  <2>3. Keeps(k0, k, {"addr"}) /\ (k.addr <=> (k0.addr \/ found)) BY <2>2 DEF Keeps, KeyFields
  <2>4. Acked(k0, k)
    <3>1. k.due = k0.due /\ k.acks = k0.acks BY <2>3 DEF Keeps, KeyFields
    <3>2. k0.due \subseteq Packets(k0) BY <2>1 DEF KeyGood, Sends
    <3>3. Keeps(k0, k, {"due", "acks", "addr"}) BY <2>3 DEF Keeps
    <3> QED BY <2>3, <3>1, <3>2, <3>3 DEF Acked
  <2>5. k.state = k0.state BY <2>3 DEF Keeps, KeyFields
  <2>6. CASE ~k.addr
    <3>1. w = y BY <1>2, <2>6
    <3>2. k0.recNext = 0 /\ k0.rec = {} BY <2>1, <2>3, <2>6 DEF KeyGood, Receives
    <3>3. Idle(p, k0) BY <3>2 DEF Idle, InOrder
    <3> QED BY <3>1, <3>3, ProcessSame
  <2>7. CASE k.addr
    <3>1. w = TlsProcess(p, y, i, ready, env)
      <4>1. k0.state \in S_INITIAL..S_NORMAL_OP BY <2>1 DEF KeyGood, Shaped
      <4> QED BY <1>2, <2>5, <2>7, <4>1
    <3>2. ReadyAs(s, k, t, ready) BY <1>1, <2>1, ReadyIs
    <3>3. Processed(W, p, S, i, y, TlsProcess(p, y, i, ready, env)) BY <2>1, <2>3, <2>4, <3>2, ProcessTls
    <3> QED BY <3>1, <3>3
  <2> QED BY <2>6, <2>7
<1> QED BY <1>3, <1>4, SessionIs DEF TurnGood

(* All sessions' turns, and the turns again until nothing changes. *)

LEMMA SlotsAre ==
  /\ {TM_ACTIVE, TM_UNTRUSTED} \subseteq Slots /\ Slots \subseteq Sessions /\ TM_LAME_DUCK \in Sessions
  /\ \A i \in Slots : i # TM_LAME_DUCK /\ (i = TM_ACTIVE \/ i = TM_UNTRUSTED)
  /\ \A i \in Sessions : i \in Slots \/ i = TM_LAME_DUCK
BY DEF Slots, Sessions

\* Nothing becomes of the lame duck session: its primary key has failed.
LEMMA ProcessLame ==
  ASSUME NEW p, NEW y, MultiFine(y.m), NEW env
  PROVE  ProcessSession(p, y, TM_LAME_DUCK, env) = y
<1> PICK s, found, k0, k : /\ s = y.m.sess[TM_LAME_DUCK] /\ k0 = Prime(y.m, TM_LAME_DUCK)
                           /\ found = FALSE /\ k = [k0 EXCEPT !.addr = @ \/ found]
  OBVIOUS
<1>1. k.state = k0.state /\ k0.state \in {S_ERROR, S_UNDEF} BY DEF MultiFine
<1>2. k.state < S_INITIAL BY <1>1
<1>3. k0 = s.keys[KS_PRIMARY] BY DEF Prime
<1>4. TM_LAME_DUCK # TM_ACTIVE OBVIOUS
<1> QED BY <1>2, <1>3, <1>4 DEF ProcessSession

\* A session that opens in a slot, whatever was there.
LEMMA PutOpened ==
  ASSUME NEW W, NEW p \in Peers, NEW i \in Slots, NEW m, NEW m2, NEW S, Good(Put(W, p, m, S)),
         NEW n, n = m.n + 1, m2.n = n, m2.sess[i] = NewSession(p, n), ButSession(m, m2, i)
  PROVE  Good(Put(W, p, m2, S))
<1> PICK V, V2, k : V = Put(W, p, m, S) /\ k = Prime(m, i) /\ V2 = At(V, p, i, k, {}) OBVIOUS
<1>1. Puts(V, W, p, m, S) /\ AtPuts(V2, W, p, i, k, m, S)
  <2>1. S \cup {} = S OBVIOUS
  <2> QED BY <2>1, PutIs, AtPutIs
<1>2. ButSession(m, m, i) BY DEF ButSession
<1>3. Good(V2) BY <1>1, <1>2, SamePut
<1>4. Good(Put(W, p, m2, S \cup {})) BY <1>3, PutFresh
<1> QED BY <1>4

LEMMA DownIs ==
  ASSUME NEW p, NEW n, NEW m, m = Down(n)
  PROVE  /\ MultiFine(m) /\ m.n = n /\ ~m.up /\ \A i \in Sessions : m.sess[i] = NoSession /\ Prime(m, i) = Undef
<1>1. MultiFields \subseteq DOMAIN m /\ Sessions \subseteq DOMAIN m.sess /\ m.n = n /\ ~m.up
  BY DEF Down, MultiFields, Sessions
<1>2. \A i \in Sessions : m.sess[i] = NoSession BY DEF Down, Sessions
<1>3. SessionFine(NoSession) /\ NoSession.keys[KS_PRIMARY] = Undef
  BY NoSessionIs DEF SessionFine, SessionFields
<1>4. Undef.state = S_UNDEF /\ "state" \in DOMAIN Undef BY DEF Undef, KeyState
<1>5. \A i \in Sessions : Prime(m, i) = Undef BY <1>2, <1>3 DEF Prime
<1> QED BY <1>1, <1>2, <1>3, <1>4, <1>5, SlotsAre DEF MultiFine

LEMMA DownGood ==
  ASSUME NEW W, NEW p \in Peers, NEW m, NEW S, TurnGood(W, p, m, S), NEW n, n = m.n
  PROVE  TurnGood(W, p, Down(n), S)
<1> PICK m1, m2, none : m2 = Down(n) /\ none = NoSession /\ m1 = [m EXCEPT !.sess[TM_ACTIVE] = none] OBVIOUS
<1>1. SetTo(m, m1, TM_ACTIVE, none) BY SetIs, SlotsAre DEF TurnGood, MultiFine
<1>2. none.keys[KS_PRIMARY] = Undef /\ none.sid = NoSid BY NoSessionIs
<1>3. ButSession(m, m1, TM_ACTIVE) /\ Prime(m1, TM_ACTIVE) = Undef /\ m1.sess[TM_ACTIVE] = none /\ m1.n = m.n
  BY <1>1, <1>2, SlotsAre DEF SetTo, ButSession, Prime
<1>4. Good(Put(W, p, m1, S)) BY <1>2, <1>3, PutEmpty, SlotsAre DEF TurnGood
<1>5. /\ MultiFine(m2) /\ m2.n = n /\ \A i \in Sessions : m2.sess[i] = none /\ Prime(m2, i) = Undef BY DownIs
<1>6. ButSession(m1, m2, TM_UNTRUSTED) BY <1>2, <1>3, <1>5, SlotsAre DEF ButSession
<1>7. Good(Put(W, p, m2, S))
  <2>1. m2.n = m1.n /\ Prime(m2, TM_UNTRUSTED) = Undef /\ m2.sess[TM_UNTRUSTED].sid = NoSid /\ TM_UNTRUSTED \in Slots
    BY <1>2, <1>3, <1>5, SlotsAre
  <2> QED BY <1>4, <1>6, <2>1, PutEmpty
<1>8. \A i \in Slots : ~Live(Prime(m2, i)) BY <1>5, UndefIs, SlotsAre
<1> QED BY <1>5, <1>7, <1>8 DEF TurnGood

LEMMA FreshFine ==
  ASSUME NEW p, NEW n
  PROVE  LET s == NewSession(p, n) IN SessionFine(s) /\ Live(s.keys[KS_PRIMARY]) /\ Flushed(p, s.keys[KS_PRIMARY])
<1> PICK s0, k0 : s0 = NewSession(p, n) /\ k0 = KeyState(S_INITIAL, 0, HardReset(p)) OBVIOUS
<1>1. SessionFine(s0) /\ s0.keys[KS_PRIMARY] = k0 BY NewSessionIs DEF SessionFine, SessionFields
<1>2. Live(k0) /\ k0.tls = NewTls BY DEF KeyState, Live
<1>3. NewTls.phase = "start" BY DEF NewTls
<1> QED BY <1>1, <1>2, <1>3 DEF Flushed

LEMMA PromotedGood ==
  ASSUME NEW W, NEW p \in Peers, NEW m, NEW S, TurnGood(W, p, m, S), NEW n, n = m.n + 1
  PROVE  ComesUp(W, p, m, S, n, Promoted(p, m))
<1> PICK m3 : m3 = Promoted(p, m) OBVIOUS
<1> SUFFICES ComesUp(W, p, m, S, n, m3) OBVIOUS
<1>1. CASE ~DecryptKeyEnabled(p, Prime(m, TM_UNTRUSTED)) BY <1>1 DEF Promoted, Prime, ComesUp
<1>2. CASE DecryptKeyEnabled(p, Prime(m, TM_UNTRUSTED))
  <2> PICK s, none, a, m1 : /\ s = m.sess[TM_UNTRUSTED] /\ none = NoSession /\ a = [m EXCEPT !.sess[TM_ACTIVE] = s]
                            /\ m1 = [a EXCEPT !.sess[TM_UNTRUSTED] = none]
    OBVIOUS
  <2>1. MultiFine(m) /\ Live(s.keys[KS_PRIMARY]) /\ SessionFine(s)
    <3>1. MultiFine(m) BY DEF TurnGood
    <3>2. SessionFine(s) BY <3>1, SlotsAre DEF MultiFine
    <3>3. SessionGood(W, p, m, TM_UNTRUSTED)
      <4>1. ~DecryptKeyEnabled(p, Undef) BY DEF DecryptKeyEnabled, Undef, KeyState
      <4> QED BY <1>2, <4>1, SessionIs, SlotsAre DEF TurnGood
    <3> QED BY <3>1, <3>2, <3>3 DEF SessionGood, Prime
  <2>2. SetTo(m, a, TM_ACTIVE, s) BY <2>1, SetIs, SlotsAre DEF MultiFine
  <2>3. SetTo(a, m1, TM_UNTRUSTED, none) BY <2>2, SetIs, SlotsAre DEF SetTo
  <2>4. none.keys[KS_PRIMARY] = Undef /\ none.sid = NoSid BY NoSessionIs
  <2>5. m1.n = m.n /\ Prime(m1, TM_UNTRUSTED) = Undef /\ m1.sess[TM_UNTRUSTED].sid = NoSid /\ m1.sess[TM_ACTIVE] = m.sess[TM_UNTRUSTED]
    BY <2>2, <2>3, <2>4, SlotsAre DEF SetTo, Prime
  <2>6. Good(Put(W, p, m1, S)) BY <2>5, PutMoved DEF TurnGood
  <2>7. m3 = ResetSession(p, a, TM_UNTRUSTED) BY <1>2 DEF Promoted, MoveSession, Prime
  <2>8. StartsAgain(p, a, m3, TM_UNTRUSTED, n)
    <3>1. n = a.n + 1 /\ MultiFields \subseteq DOMAIN a /\ Sessions \subseteq DOMAIN a.sess /\ TM_UNTRUSTED \in Slots
      BY <2>2, SlotsAre DEF SetTo
    <3> QED BY <2>7, <3>1, ResetIs
  <2>9. m3.n = n /\ m3.sess[TM_UNTRUSTED] = NewSession(p, n) /\ m3.sess[TM_ACTIVE] = s
        /\ MultiFields \subseteq DOMAIN m3 /\ Sessions \subseteq DOMAIN m3.sess
    BY <2>2, <2>8, SlotsAre DEF StartsAgain, SetTo
  <2>10. ButSession(m1, m3, TM_UNTRUSTED) BY <2>5, <2>9, SlotsAre DEF ButSession, Prime
  <2>11. Good(Put(W, p, m3, S))
    <3>1. n = m1.n + 1 /\ TM_UNTRUSTED \in Slots BY <2>5, SlotsAre
    <3>2. m3.n = n /\ m3.sess[TM_UNTRUSTED] = NewSession(p, n) BY <2>9
    <3> QED BY ONLY p \in Peers, <2>6, <2>10, <3>1, <3>2, PutOpened
  <2>12. SessionFine(NewSession(p, n)) /\ Live(NewSession(p, n).keys[KS_PRIMARY]) /\ Flushed(p, NewSession(p, n).keys[KS_PRIMARY])
    BY FreshFine
  <2>13. m3.sess[TM_LAME_DUCK] = m.sess[TM_LAME_DUCK]
    <3>1. a.sess[TM_LAME_DUCK] = m.sess[TM_LAME_DUCK] BY <2>2, SlotsAre DEF SetTo
    <3>2. m3.sess[TM_LAME_DUCK] = a.sess[TM_LAME_DUCK]
      BY <2>2, <2>7, SlotsAre DEF ResetSession, SetTo, MultiFields
    <3> QED BY <3>1, <3>2
  <2>14. MultiFine(m3)
    <3>1. \A i \in Sessions : SessionFine(m3.sess[i]) BY <2>1, <2>9, <2>12, <2>13, SlotsAre DEF MultiFine
    <3>2. Prime(m3, TM_LAME_DUCK) = Prime(m, TM_LAME_DUCK) /\ Prime(m3, TM_ACTIVE) = s.keys[KS_PRIMARY]
          /\ Prime(m3, TM_UNTRUSTED) = NewSession(p, n).keys[KS_PRIMARY]
      BY <2>9, <2>13 DEF Prime
    <3> QED BY <2>1, <2>9, <2>12, <3>1, <3>2 DEF MultiFine
  <2>15. \A i \in Slots : Live(Prime(m3, i)) => Flushed(p, Prime(m3, i))
    <3>1. Prime(m3, TM_ACTIVE) = Prime(m, TM_UNTRUSTED) /\ Prime(m3, TM_UNTRUSTED) = NewSession(p, n).keys[KS_PRIMARY]
      BY <2>9 DEF Prime
    <3> QED BY <2>12, <3>1, SlotsAre DEF TurnGood
  <2>16. m3.up = m.up BY <2>2, <2>8 DEF SetTo, StartsAgain
  <2> QED BY <2>9, <2>11, <2>14, <2>15, <2>16 DEF TurnGood, ComesUp
<1> QED BY <1>1, <1>2

LEMMA BuryGood ==
  ASSUME NEW W, NEW p \in Peers, NEW m, NEW S, TurnGood(W, p, m, S)
  PROVE  KeepsSlots(W, p, m, S, [m EXCEPT !.sess[TM_LAME_DUCK] = NoSession])
<1> PICK none, m2 : none = NoSession /\ m2 = [m EXCEPT !.sess[TM_LAME_DUCK] = NoSession] OBVIOUS
<1> SUFFICES KeepsSlots(W, p, m, S, m2) OBVIOUS
<1>1. SetTo(m, m2, TM_LAME_DUCK, none) /\ MultiFine(m) BY SetIs, SlotsAre DEF TurnGood, MultiFine
<1>2. none.keys[KS_PRIMARY] = Undef /\ SessionFine(none) BY NoSessionIs DEF SessionFine, SessionFields
<1>3. \A j \in Slots : m2.sess[j] = m.sess[j] /\ Prime(m2, j) = Prime(m, j) BY <1>1, SlotsAre DEF SetTo, Prime
<1>4. Prime(m2, TM_LAME_DUCK) = Undef /\ Undef.state = S_UNDEF /\ "state" \in DOMAIN Undef
  BY <1>1, <1>2 DEF SetTo, Prime, Undef, KeyState
<1>5. \A i \in Sessions : SessionFine(m2.sess[i]) BY <1>1, <1>2, SlotsAre DEF SetTo, MultiFine
<1>6. MultiFine(m2) BY <1>1, <1>3, <1>4, <1>5, SlotsAre DEF SetTo, MultiFine
<1>7. Alike(m, m2) BY <1>1, <1>3 DEF Alike, SetTo
<1>8. Good(Put(W, p, m2, S)) BY <1>7, AlikeGood DEF TurnGood
<1> QED BY <1>1, <1>3, <1>6, <1>8 DEF TurnGood, SetTo, KeepsSlots

LEMMA OutcomeGood ==
  ASSUME NEW W, NEW p \in Peers, NEW S, NEW d, TurnGood(W, p, d.m, S \cup Sent(d.link)), Results \subseteq DOMAIN d, NEW env,
         NEW n, n = d.m.n + 1
  PROVE  ComesOut(W, p, S, d, n, Outcome(p, d, env))
<1> PICK w, buried, m3, T : /\ w = Outcome(p, d, env) /\ buried = (IF LameDuckMustDie(d.m.sess[TM_LAME_DUCK], TM_LAME_DUCK \in env.dead)
                                      THEN [d.m EXCEPT !.sess[TM_LAME_DUCK] = NoSession] ELSE d.m)
                            /\ m3 = Promoted(p, buried) /\ T = S \cup Sent(d.link)
  OBVIOUS
<1>1. TurnGood(W, p, buried, T) /\ buried.n = d.m.n /\ buried.up = d.m.up /\ \A j \in Slots : buried.sess[j] = d.m.sess[j]
  <2>1. TurnGood(W, p, d.m, T) OBVIOUS
  <2>2. CASE buried = d.m BY <2>1, <2>2
  <2>3. CASE buried = [d.m EXCEPT !.sess[TM_LAME_DUCK] = NoSession] BY <2>1, <2>3, BuryGood DEF KeepsSlots
  <2> QED BY <2>2, <2>3
<1>2. w.m = (IF AuthenticationFailed(p, d.m) THEN Down(d.m.n) ELSE m3) /\ w.link = d.link /\ Results \subseteq DOMAIN w
  BY DEF Outcome, Results
<1>3. CASE w.m = Down(d.m.n)
  <2>1. TurnGood(W, p, d.m, T) OBVIOUS
  <2>2. TurnGood(W, p, Down(d.m.n), T) /\ ~Down(d.m.n).up BY <2>1, DownGood, DownIs
  <2>3. Gone(w.m) BY <1>3, DownIs, UndefIs, SlotsAre DEF Gone
  <2> QED BY <1>2, <1>3, <2>2, <2>3 DEF ComesOut
<1>4. CASE w.m = m3
  <2>1. TurnGood(W, p, m3, T) /\ m3.up = d.m.up /\ (m3.n = n \/ (m3 = buried /\ ~DecryptKeyEnabled(p, Prime(m3, TM_UNTRUSTED))))
    <3>1. n = buried.n + 1 /\ m3 = Promoted(p, buried) BY <1>1
    <3> QED
      <4>1. ComesUp(W, p, buried, T, n, m3) BY ONLY p \in Peers, <1>1, <3>1, PromotedGood
      <4> QED BY <1>1, <4>1 DEF ComesUp
  <2>2. d.m.up => Gone(w.m) BY <1>4, <2>1 DEF Gone
  <2>3. T = S \cup Sent(w.link) /\ w.m = m3 BY <1>2, <1>4
  <2>4. m3.n = n \/ (/\ m3.n = d.m.n /\ \A j \in Slots : m3.sess[j] = d.m.sess[j]
                    /\ ~DecryptKeyEnabled(p, Prime(m3, TM_UNTRUSTED)))
    BY ONLY <1>1, <2>1
  <2>5. TurnGood(W, p, w.m, S \cup Sent(w.link)) BY ONLY <2>1, <2>3
  <2>6. \/ w.m.n = n
        \/ /\ w.m.n = d.m.n /\ \A j \in Slots : w.m.sess[j] = d.m.sess[j]
           /\ ~DecryptKeyEnabled(p, Prime(w.m, TM_UNTRUSTED))
    BY ONLY <2>3, <2>4
  <2>7. Results \subseteq DOMAIN w BY <1>2
  <2>8. ComesOut(W, p, S, d, n, w) BY ONLY <2>2, <2>5, <2>6, <2>7 DEF ComesOut
  <2> QED BY <2>8
<1> QED BY <1>2, <1>3, <1>4

LEMMA IdleRests ==
  ASSUME NEW W, NEW p \in Peers, NEW m, NEW S, TurnGood(W, p, m, S), NEW k, k = Prime(m, TM_UNTRUSTED),
         \A i \in Slots : Live(Prime(m, i)) => Idle(p, Prime(m, i)), ~DecryptKeyEnabled(p, k)
  PROVE  Rested(p, m)
<1>1. ASSUME Live(k) PROVE k.recNext \in Nat
  <2>1. SessionGood(W, p, m, TM_UNTRUSTED) BY <1>1, SessionIs, SlotsAre, UndefIs DEF TurnGood
  <2> QED BY <2>1 DEF SessionGood, KeyGood, Shaped
<1>2. ASSUME Live(k) PROVE k.recNext <= 2 /\ InOrder(k) = {} BY <1>1, <1>2, SlotsAre DEF Idle
<1> QED BY <1>2 DEF Rested

LEMMA MultiProcessGood ==
  ASSUME NEW W, NEW p \in Peers, NEW S, NEW m, TurnGood(W, p, m, S), m.up, Resting(W, Other(p)), NEW env, RenewalsFit(m, env),
         NEW w, w = MultiProcess(p, m, env)
  PROVE  TurnGood(W, p, w.m, S \cup Sent(w.link)) /\ Results \subseteq DOMAIN w /\ (w.m = m => Rested(p, m)) /\ Gone(w.m)
<1> PICK before, a, u, d : /\ before = [m |-> m, link |-> NoPacket]
                           /\ a = ProcessSession(p, before, TM_ACTIVE, env) /\ u = ProcessSession(p, a, TM_UNTRUSTED, env)
                           /\ d = ProcessSession(p, u, TM_LAME_DUCK, env)
  OBVIOUS
<1>1. w = Outcome(p, d, env) BY DEF MultiProcess
<1>2. before.m = m /\ Results \subseteq DOMAIN before /\ Sent(before.link) = {} BY DEF Results, Sent
<1>3. TurnGood(W, p, before.m, S \cup Sent(before.link))
  <2>1. S \cup Sent(before.link) = S BY <1>2
  <2> QED BY <1>2, <2>1
<1>4. Processed(W, p, S, TM_ACTIVE, before, a)
  BY <1>2, <1>3, ProcessSessionGood, SlotsAre DEF RenewalsFit, Results
<1>5. TurnGood(W, p, a.m, S \cup Sent(a.link)) /\ a.m.up /\ Results \subseteq DOMAIN a /\ a.m.sess[TM_UNTRUSTED] = m.sess[TM_UNTRUSTED]
      /\ (a.m.n = m.n \/ a.m.n = m.n + 1)
  BY <1>2, <1>4, SlotsAre DEF Processed, Results
<1>6. Processed(W, p, S, TM_UNTRUSTED, a, u)
  <2>1. env.at = TM_UNTRUSTED /\ env.what = "renew" => a.m.sess[TM_UNTRUSTED].nextKey < KeyIdMask
    BY <1>5, SlotsAre DEF RenewalsFit
  <2> QED BY <1>5, <2>1, ProcessSessionGood, SlotsAre DEF Results
<1>7. TurnGood(W, p, u.m, S \cup Sent(u.link)) /\ u.m.up /\ Results \subseteq DOMAIN u /\ (u.m.n = a.m.n \/ u.m.n = a.m.n + 1)
  BY <1>6 DEF Processed, Results
<1>8. d = u BY <1>7, ProcessLame DEF TurnGood
<1> PICK n : n = d.m.n + 1 OBVIOUS
<1>9. /\ TurnGood(W, p, w.m, S \cup Sent(w.link)) /\ Results \subseteq DOMAIN w /\ Gone(w.m)
      /\ \/ ~w.m.up
         \/ w.m.n = n
         \/ /\ w.m.n = d.m.n /\ \A j \in Slots : w.m.sess[j] = d.m.sess[j]
            /\ ~DecryptKeyEnabled(p, Prime(w.m, TM_UNTRUSTED))
  <2>1. ComesOut(W, p, S, d, n, Outcome(p, d, env)) BY <1>7, <1>8, OutcomeGood
  <2> QED BY <1>1, <1>7, <1>8, <2>1 DEF ComesOut
<1>10. m.n \in Nat BY SessionIs, SlotsAre DEF TurnGood
<1>11. ASSUME w.m = m PROVE Rested(p, m)
  <2>1. w.m.n # n BY <1>5, <1>7, <1>8, <1>10, <1>11
  <2>2. w.m.n = d.m.n /\ w.m.sess[TM_UNTRUSTED] = d.m.sess[TM_UNTRUSTED] /\ ~DecryptKeyEnabled(p, Prime(w.m, TM_UNTRUSTED))
    BY <1>9, <1>11, <2>1, SlotsAre
  <2>3. u.m.n = a.m.n BY <1>5, <1>7, <1>8, <1>10, <1>11, <2>2
  <2>4. u.m.sess[TM_UNTRUSTED] = a.m.sess[TM_UNTRUSTED] /\ Prime(u.m, TM_UNTRUSTED) = Prime(m, TM_UNTRUSTED)
    BY <1>5, <1>8, <1>11, <2>2 DEF Prime
  <2>5. Live(Prime(m, TM_UNTRUSTED)) => Idle(p, Prime(m, TM_UNTRUSTED)) BY <1>6, <2>3, <2>4 DEF Processed
  <2>6. w.m.sess[TM_ACTIVE] = d.m.sess[TM_ACTIVE] /\ u.m.sess[TM_ACTIVE] = a.m.sess[TM_ACTIVE]
    BY <1>6, <1>9, <1>11, <2>1, SlotsAre DEF Processed
  <2>7. a.m.n = before.m.n /\ a.m.sess[TM_ACTIVE] = before.m.sess[TM_ACTIVE] /\ Prime(a.m, TM_ACTIVE) = Prime(m, TM_ACTIVE)
    BY <1>2, <1>5, <1>7, <1>8, <1>10, <1>11, <2>2, <2>6 DEF Prime
  <2>8. Live(Prime(m, TM_ACTIVE)) => Idle(p, Prime(m, TM_ACTIVE)) BY <1>4, <2>7 DEF Processed
  <2> QED BY <1>11, <2>2, <2>5, <2>8, IdleRests, SlotsAre
<1> QED BY <1>9, <1>11

LEMMA QueueIs ==
  ASSUME NEW s
  PROVE  Queue(s) <=> \E S : s \in Seq(S)
<1>1. ASSUME NEW S, s \in Seq(S) PROVE s \in Seq(OnWay(s))
  <2>1. Len(s) \in Nat /\ DOMAIN s = 1..Len(s) /\ s = [i \in 1..Len(s) |-> s[i]] BY <1>1
  <2>2. \A i \in 1..Len(s) : s[i] \in OnWay(s) BY <2>1 DEF OnWay
  <2> QED BY <2>1, <2>2
<1> QED BY <1>1 DEF Queue

LEMMA OnWayIs ==
  ASSUME NEW s, NEW t, Queue(s), Queue(t)
  PROVE  Queue(s \o t) /\ OnWay(s \o t) = OnWay(s) \cup OnWay(t)
<1> PICK A, B : s \in Seq(A) /\ t \in Seq(B) BY DEF Queue
<1> PICK C : C = A \cup B OBVIOUS
<1>1. s \in Seq(C) /\ t \in Seq(C) OBVIOUS
<1>2. s \o t \in Seq(C) /\ Len(s \o t) = Len(s) + Len(t) /\ Len(s) \in Nat /\ Len(t) \in Nat
      /\ \A i \in 1..(Len(s) + Len(t)) : (s \o t)[i] = IF i <= Len(s) THEN s[i] ELSE t[i - Len(s)]
  BY <1>1
<1>3. DOMAIN s = 1..Len(s) /\ DOMAIN t = 1..Len(t) /\ DOMAIN (s \o t) = 1..(Len(s) + Len(t)) BY <1>1, <1>2
<1>4. OnWay(s \o t) \subseteq OnWay(s) \cup OnWay(t)
  <2> SUFFICES ASSUME NEW i \in 1..(Len(s) + Len(t)) PROVE (s \o t)[i] \in OnWay(s) \cup OnWay(t)
    BY <1>3 DEF OnWay
  <2>1. CASE i <= Len(s)
    <3>1. (s \o t)[i] = s[i] /\ i \in DOMAIN s BY <1>2, <1>3, <2>1
    <3> QED BY <3>1 DEF OnWay
  <2>2. CASE ~(i <= Len(s))
    <3>1. (s \o t)[i] = t[i - Len(s)] /\ i - Len(s) \in DOMAIN t BY <1>2, <1>3, <2>2
    <3> QED BY <3>1 DEF OnWay
  <2> QED BY <2>1, <2>2
<1>5. OnWay(s) \subseteq OnWay(s \o t)
  <2> SUFFICES ASSUME NEW i \in 1..Len(s) PROVE s[i] \in OnWay(s \o t) BY <1>3 DEF OnWay
  <2>1. s[i] = (s \o t)[i] /\ i \in DOMAIN (s \o t) BY <1>2, <1>3
  <2> QED BY <2>1 DEF OnWay
<1>6. OnWay(t) \subseteq OnWay(s \o t)
  <2> SUFFICES ASSUME NEW i \in 1..Len(t) PROVE t[i] \in OnWay(s \o t) BY <1>3 DEF OnWay
  <2>1. t[i] = (s \o t)[i + Len(s)] /\ i + Len(s) \in DOMAIN (s \o t) BY <1>2, <1>3
  <2> QED BY <2>1 DEF OnWay
<1> QED BY <1>2, <1>4, <1>5, <1>6 DEF Queue

LEMMA PacketIs ==
  ASSUME NEW link
  PROVE  Queue(Packet(link)) /\ OnWay(Packet(link)) = Sent(link)
<1>1. Queue(<<>>) /\ OnWay(<<>>) = {}
  <2>1. <<>> \in Seq({}) OBVIOUS
  <2> QED BY <2>1 DEF Queue, OnWay
<1>2. Queue(<<link>>) /\ OnWay(<<link>>) = {link}
  <2>1. <<link>> \in Seq({link}) /\ DOMAIN <<link>> = {1} /\ <<link>>[1] = link OBVIOUS
  <2> QED BY <2>1 DEF Queue, OnWay
<1> QED BY <1>1, <1>2 DEF Packet, Sent

LEMMA FirstCallGood ==
  ASSUME NEW W, NEW p \in Peers, NEW m, TurnGood(W, p, m, {}), m.up, Resting(W, Other(p)), NEW env, RenewalsFit(m, env)
  PROVE  CallGood(W, p, FirstCall(m, MultiProcess(p, m, env)))
<1> PICK y, x : y = MultiProcess(p, m, env) /\ x = FirstCall(m, y) OBVIOUS
<1>1. TurnGood(W, p, y.m, {} \cup Sent(y.link)) /\ (y.m = m => Rested(p, m)) /\ Gone(y.m) BY MultiProcessGood
<1>2. x.m = y.m /\ x.sent = Packet(y.link) /\ x.again = (y.m # m) BY DEF FirstCall
<1>3. {} \cup Sent(y.link) = OnWay(x.sent) /\ Queue(x.sent) BY <1>2, PacketIs
<1> QED BY <1>1, <1>2, <1>3 DEF CallGood

LEMMA CallAgainGood ==
  ASSUME NEW W, NEW p \in Peers, NEW x, CallGood(W, p, x), Resting(W, Other(p))
  PROVE  CallGood(W, p, CallAgain(p, x))
<1>1. CASE ~(x.again /\ x.m.up) BY <1>1 DEF CallAgain
<1>2. CASE x.again /\ x.m.up
  <2> PICK y, z : y = MultiProcess(p, x.m, Fine) /\ z = NextCall(x, y) OBVIOUS
  <2>1. RenewalsFit(x.m, Fine) BY DEF RenewalsFit, Fine
  <2>2. TurnGood(W, p, y.m, OnWay(x.sent) \cup Sent(y.link)) /\ (y.m = x.m => Rested(p, x.m)) /\ Gone(y.m)
    BY <1>2, <2>1, MultiProcessGood DEF CallGood
  <2>3. z.m = y.m /\ z.sent = x.sent \o Packet(y.link) /\ z.again = (y.m # x.m) BY DEF NextCall
  <2>4. OnWay(x.sent) \cup Sent(y.link) = OnWay(z.sent) /\ Queue(z.sent)
    BY <2>3, PacketIs, OnWayIs DEF CallGood
  <2>5. CallGood(W, p, z) BY <2>2, <2>3, <2>4 DEF CallGood
  <2>6. CallAgain(p, x) = z BY <1>2 DEF CallAgain
  <2> QED BY <2>5, <2>6
<1> QED BY <1>1, <1>2

LEMMA SettledGood ==
  ASSUME NEW W, NEW p \in Peers, NEW m, TurnGood(W, p, m, {}), m.up, Resting(W, Other(p)), NEW env, RenewalsFit(m, env)
  PROVE  CallGood(W, p, Settled(p, m, env))
<1> DEFINE first == FirstCall(m, MultiProcess(p, m, env))
           v1 == CallAgain(p, first)
           v2 == CallAgain(p, v1)
           v3 == CallAgain(p, v2)
           v4 == CallAgain(p, v3)
           Is(f) == f = [n \in 0..MaxCalls |-> IF n = 0 THEN first ELSE CallAgain(p, f[n - 1])]
           after == CHOOSE f : Is(f)
<1>1. \E f : Is(f)
  <2> DEFINE g == [n \in 0..4 |-> IF n = 0 THEN first ELSE IF n = 1 THEN v1 ELSE IF n = 2 THEN v2
                                  ELSE IF n = 3 THEN v3 ELSE v4]
  <2> HIDE DEF first
  <2>1. Is(g) BY DEF MaxCalls
  <2> HIDE DEF g
  <2> QED BY <2>1
<1>2. Is(after)
  <2> HIDE DEF Is
  <2> QED BY <1>1
<1>3. Settled(p, m, env) = after[4] BY DEF Settled, MaxCalls
<1>4. CallGood(W, p, after[4])
  <2> HIDE DEF after
  <2>1. CallGood(W, p, first) BY FirstCallGood
  <2> HIDE DEF first
  <2>2. CallGood(W, p, after[0]) /\ \A n \in 1..4 : after[n] = CallAgain(p, after[n - 1])
    BY <1>2, <2>1 DEF MaxCalls
  <2>3. CallGood(W, p, after[1]) /\ CallGood(W, p, after[2]) BY <2>2, CallAgainGood
  <2>4. CallGood(W, p, after[3]) BY <2>2, <2>3, CallAgainGood
  <2> QED BY <2>2, <2>4, CallAgainGood
<1> QED BY <1>3, <1>4

-----------------------------------------------------------------------------
(* What arrives: tls_pre_decrypt(). *)

LEMMA ReliablyIs ==
  ASSUME NEW p, NEW k, NEW k2, Reliably(k, k2)
  PROVE  /\ Hand(k2) = Hand(k) /\ Backlog(k2) = Backlog(k) /\ (HasText(p, k2) <=> HasText(p, k)) /\ k2.tls = k.tls
         /\ k2.keyId = k.keyId /\ (Live(k2) <=> Live(k)) /\ k2.recNext = k.recNext /\ k2.next = k.next /\ k2.state = k.state
         /\ (Flushed(p, k2) <=> Flushed(p, k)) /\ k2.remote \in {k.remote, k2.remote}
<1>1. /\ k2.tls = k.tls /\ k2.read = k.read /\ k2.state = k.state /\ k2.pay = k.pay /\ k2.recNext = k.recNext
      /\ k2.next = k.next /\ k2.keyId = k.keyId
  BY DEF Reliably, Keeps, KeyFields, Envelope
<1>2. Hand(k2) = Hand(k) /\ Backlog(k2) = Backlog(k) BY <1>1 DEF Hand, Backlog
<1> QED BY <1>1, <1>2 DEF HasText, DecryptKeyEnabled, Live, Flushed, KeySent

LEMMA ReliablyGood ==
  ASSUME NEW W, NEW W2, Good(W), NEW p \in Peers, NEW i \in Slots, OneSlot(W, W2, p, i),
         KeyGood(p, W2.key[p][i], Name(W, p, i), W.written[p], W.written[Other(p)]),
         Reliably(W.key[p][i], W2.key[p][i]), W2.net[Other(p)] \subseteq W.net[Other(p)],
         \A r \in W2.key[p][i].rec : r \in W.key[p][i].rec \/ Carried(W.net[p], r),
         p = Server => ServerGood(W2, i)
  PROVE  Good(W2)
<1> DEFINE q == Other(p)
<1> PICK k, k2 : k = W.key[p][i] /\ k2 = W2.key[p][i] OBVIOUS
<1>1. q \in Peers /\ Other(q) = p /\ q # p BY PeersAre
<1>2. /\ Hand(k2) = Hand(k) /\ Backlog(k2) = Backlog(k) /\ (HasText(p, k2) <=> HasText(p, k)) /\ k2.tls = k.tls
      /\ k2.keyId = k.keyId /\ k2.recNext = k.recNext /\ k2.next = k.next /\ Got(k) \subseteq Got(k2)
  BY ReliablyIs DEF Reliably
<1>3. k.next \in Nat /\ k.recNext \in Nat
  <2>1. SlotGood(W, p, i) BY LiveIsGood DEF OneSlot
  <2> QED BY <2>1 DEF SlotGood, KeyGood, Shaped
<1>4. Heir(W, W2, p, i, i)
  <2>1. Grows(p, k, k2) BY <1>2, <1>3 DEF Grows, HelloSent
  <2>2. Name(W2, p, i) = Name(W, p, i) BY <1>2 DEF Name, OneSlot
  <2> QED BY <1>2, <2>1, <2>2 DEF Heir, OneSlot
<1>5. i = TM_ACTIVE => HoldsOn(W, W2, p) /\ SendsOn(W, W2, p) /\ Seen(W2, p) = Seen(W, p)
  BY <1>2, <1>4 DEF HoldsOn, SendsOn, Seen, OneSlot
<1>6. i = TM_UNTRUSTED => WaitsOn(W, W2, p) BY <1>2, <1>4 DEF WaitsOn
<1>7. \A j \in Slots : W2.key[q][j] = W.key[q][j] BY <1>1 DEF OneSlot
<1>8. \A j \in Slots : W2.key[p][j] = W.key[p][j] \/ j = i BY <1>1 DEF OneSlot
<1>9. \A l \in Mail(W2, p) : Carried(Mail(W, p), l)
  <2> SUFFICES ASSUME NEW l \in Mail(W2, p) PROVE Carried(Mail(W, p), l) OBVIOUS
  <2>1. \/ l \in W2.net[p] \/ \E j \in Slots : l \in W2.key[q][j].unacked \/ l \in W2.key[p][j].rec BY MailIs
  <2>2. l \in Mail(W, p) => Carried(Mail(W, p), l) BY DEF Carried
  <2>3. CASE l \in W2.net[p] BY <2>2, <2>3, MailIs DEF OneSlot
  <2>4. ASSUME NEW j \in Slots, l \in W2.key[q][j].unacked PROVE Carried(Mail(W, p), l)
    BY <1>7, <2>2, <2>4, MailIs
  <2>5. ASSUME NEW j \in Slots, l \in W2.key[p][j].rec PROVE Carried(Mail(W, p), l)
    <3>1. CASE l \in W.key[p][j].rec BY <2>2, <3>1, MailIs
    <3>2. CASE j = i /\ Carried(W.net[p], l)
      <4>1. W.net[p] \subseteq Mail(W, p) BY MailIs
      <4> QED BY <3>2, <4>1 DEF Carried
    <3> QED BY <1>8, <2>5, <3>1, <3>2
  <2> QED BY <2>1, <2>3, <2>4, <2>5
<1>10. \A l \in Mail(W2, q) : Carried(Mail(W, q), l)
  <2> SUFFICES ASSUME NEW l \in Mail(W2, q) PROVE l \in Mail(W, q) BY DEF Carried
  <2>1. \/ l \in W2.net[q] \/ \E j \in Slots : l \in W2.key[p][j].unacked \/ l \in W2.key[q][j].rec
    BY <1>1, MailIs
  <2>2. \A j \in Slots : W2.key[p][j].unacked \subseteq W.key[p][j].unacked BY <1>8 DEF Reliably
  <2>3. \/ l \in W.net[q] \/ \E j \in Slots : l \in W.key[p][j].unacked \/ l \in W.key[q][j].rec
    BY <1>7, <2>1, <2>2
  <2> QED BY <1>1, <2>3, MailIs
<1> QED BY <1>4, <1>5, <1>6, <1>9, <1>10, OneSlotGood

LEMMA HoldsReliably ==
  ASSUME NEW W, NEW p \in Peers, NEW i \in Slots, NEW k, NEW k2, NEW S, Holds(W, p, i, k, S),
         KeyFine(W, p, i, k2), Reliably(k, k2), \A r \in k2.rec : r \in k.rec \/ Carried(W.net[p], r),
         p = Server => ServerGood(At(W, p, i, k2, S), i)
  PROVE  Holds(W, p, i, k2, S)
<1> PICK V, V2 : V = At(W, p, i, k, S) /\ V2 = At(W, p, i, k2, S) OBVIOUS
<1>1. Live(k2) /\ k2.keyId = k.keyId BY KeyFineIs, ReliablyIs
<1>2. OneSlot(V, V2, p, i) /\ V2.net[Other(p)] \subseteq V.net[Other(p)] BY <1>1, AtStep
<1>3. V.key[p][i] = k /\ V2.key[p][i] = k2 /\ V.written = W.written /\ Name(V, p, i) = <<W.sid[p][i], k.keyId>> /\ V.net[p] = W.net[p]
  <2>1. Differs(V, W, p, i, k, S) /\ Differs(V2, W, p, i, k2, S) BY AtIs
  <2> QED BY <2>1 DEF Differs
<1>4. KeyGood(p, V2.key[p][i], Name(V, p, i), V.written[p], V.written[Other(p)]) BY <1>1, <1>3 DEF KeyFine
<1>5. Reliably(V.key[p][i], V2.key[p][i]) /\ Good(V) BY <1>3 DEF Holds
<1>6. \A r \in V2.key[p][i].rec : r \in V.key[p][i].rec \/ Carried(V.net[p], r) BY <1>3
<1>7. Good(V2) BY <1>2, <1>4, <1>5, <1>6, ReliablyGood
<1> QED BY <1>1, <1>7 DEF Holds

LEMMA KeyPurged ==
  ASSUME NEW p \in Peers, NEW k, NEW k2, NEW nm, NEW w, NEW v, KeyGood(p, k, nm, w, v), NEW acks, Purged(k, k2, acks)
  PROVE  KeyGood(p, k2, nm, w, v) /\ Reliably(k, k2) /\ k2.rec = k.rec
<1>1. /\ KeyFields \subseteq DOMAIN k2 /\ k2.state = k.state /\ k2.keyId = k.keyId /\ k2.remote = k.remote /\ k2.addr = k.addr
      /\ k2.next = k.next /\ k2.recNext = k.recNext /\ k2.rec = k.rec /\ k2.acks = k.acks /\ k2.tls = k.tls
      /\ k2.read = k.read /\ k2.write = k.write /\ k2.pay = k.pay
  BY DEF Purged, Keeps, KeyFields
<1>2. k2.unacked \subseteq k.unacked /\ k2.due \subseteq Packets(k2)
  <2>1. k.due \subseteq Packets(k) BY DEF KeyGood, Sends
  <2> QED BY <2>1 DEF Purged, Packets
<1>3. Shaped(k2) BY <1>1 DEF KeyGood, Shaped
<1>4. Sends(p, k2, nm, w)
  <2>1. Sends(p, k, nm, w) BY DEF KeyGood
  <2> QED BY <1>1, <1>2, <2>1 DEF Sends, HelloSent, KeySent
<1>5. Receives(p, k2, v)
  <2>1. Receives(p, k, v) BY DEF KeyGood
  <2>2. Hand(k2) = Hand(k) /\ Got(k2) = Got(k) BY <1>1 DEF Hand, Got
  <2> QED BY <1>1, <2>1, <2>2 DEF Receives, HelloRead, DecryptKeyEnabled
<1>6. Reliably(k, k2)
  <2>1. Got(k) \subseteq Got(k2) BY <1>1 DEF Got
  <2> QED BY <1>2, <2>1 DEF Reliably, Purged, Keeps, Envelope
<1> QED BY <1>1, <1>3, <1>4, <1>5, <1>6 DEF KeyGood

LEMMA KeyKept ==
  ASSUME NEW p \in Peers, NEW k, NEW k2, NEW nm, NEW w, NEW v, KeyGood(p, k, nm, w, v), NEW pid \in Nat, NEW body,
         Kept(k, k2, pid, body), k.remote # NoSid, k.addr
  PROVE  KeyGood(p, k2, nm, w, v) /\ Reliably(k, k2) /\ \A r \in k2.rec : r \in k.rec \/ (r.pid = pid /\ r.body = body)
<1>1. /\ KeyFields \subseteq DOMAIN k2 /\ k2.state = k.state /\ k2.keyId = k.keyId /\ k2.remote = k.remote /\ k2.addr = k.addr
      /\ k2.next = k.next /\ k2.recNext = k.recNext /\ k2.unacked = k.unacked /\ k2.due = k.due /\ k2.tls = k.tls
      /\ k2.read = k.read /\ k2.write = k.write /\ k2.pay = k.pay
  BY DEF Kept, Keeps, KeyFields
<1>2. Shaped(k2) /\ k.recNext \in Nat BY <1>1 DEF KeyGood, Shaped
<1>3. Sends(p, k2, nm, w)
  <2>1. Sends(p, k, nm, w) BY DEF KeyGood
  <2>2. Packets(k2) = Packets(k) BY <1>1 DEF Packets
  <2> QED BY <1>1, <2>1, <2>2 DEF Sends, HelloSent, KeySent
<1>4. Receives(p, k, v) BY DEF KeyGood
<1>5. k.rec \subseteq k2.rec /\ \A r \in k2.rec : r \in k.rec \/ (r.pid = pid /\ r.body = body) BY DEF Kept
<1>6. Got(k) \subseteq Got(k2) /\ pid \in Got(k2)
  <2>1. Got(k) \subseteq Got(k2) BY <1>1, <1>5 DEF Got
  <2>2. CASE k2.rec = k.rec \cup {[pid |-> pid, body |-> body]}
    <3> PICK n : n = [pid |-> pid, body |-> body] OBVIOUS
    <3>1. n \in k2.rec /\ n.pid = pid BY <2>2
    <3>2. pid \in {r.pid : r \in k2.rec} BY <3>1
    <3> QED BY <2>1, <3>2 DEF Got
  <2>3. CASE pid < k.recNext
    <3>1. pid \in 0..(k2.recNext - 1) BY <1>1, <1>2, <2>3
    <3> QED BY <2>1, <3>1 DEF Got
  <2>4. CASE k2.rec = k.rec /\ pid \in {r.pid : r \in k.rec} BY <2>1, <2>4 DEF Got
  <2> QED BY <2>1, <2>2, <2>3, <2>4 DEF Kept
<1>7. \A r \in k2.rec : r.pid >= k2.recNext /\ \A s \in k2.rec : s.pid = r.pid => s = r
  <2>1. \A r \in k.rec : r.pid >= k.recNext /\ \A s \in k.rec : s.pid = r.pid => s = r BY <1>4 DEF Receives
  <2>2. CASE k2.rec = k.rec BY <1>1, <2>1, <2>2
  <2>3. CASE k2.rec = k.rec \cup {[pid |-> pid, body |-> body]} /\ pid >= k.recNext /\ pid \notin {r.pid : r \in k.rec}
    <3> PICK n : n = [pid |-> pid, body |-> body] OBVIOUS
    <3>1. n.pid = pid /\ (\A r \in k.rec : r.pid # pid) /\ k2.rec = k.rec \cup {n} BY <2>3
    <3> QED BY <1>1, <2>1, <2>3, <3>1
  <2> QED BY <2>2, <2>3 DEF Kept
<1>8. Receives(p, k2, v)
  <2>1. Hand(k2) = Hand(k) BY <1>1 DEF Hand
  <2>2. k2.acks \subseteq Got(k2) BY <1>4, <1>6 DEF Receives, Kept
  <2> QED BY <1>1, <1>4, <1>7, <2>1, <2>2 DEF Receives, HelloRead, DecryptKeyEnabled
<1>9. Reliably(k, k2) BY <1>1, <1>6 DEF Reliably, Kept, Keeps, Envelope
<1> QED BY <1>2, <1>3, <1>5, <1>8, <1>9 DEF KeyGood

LEMMA KeyMeets ==
  ASSUME NEW p \in Peers, NEW k, NEW k2, NEW nm, NEW w, NEW v, KeyGood(p, k, nm, w, v), NEW id, id # NoSid, Meets(k, k2, id)
  PROVE  KeyGood(p, k2, nm, w, v) /\ Reliably(k, k2) /\ k2.rec = k.rec
<1>1. /\ KeyFields \subseteq DOMAIN k2 /\ k2.state = k.state /\ k2.keyId = k.keyId /\ k2.unacked = k.unacked /\ k2.due = k.due
      /\ k2.next = k.next /\ k2.recNext = k.recNext /\ k2.rec = k.rec /\ k2.acks = k.acks /\ k2.tls = k.tls
      /\ k2.read = k.read /\ k2.write = k.write /\ k2.pay = k.pay
  BY DEF Meets, Keeps, KeyFields
<1>2. Shaped(k2) BY <1>1 DEF KeyGood, Shaped
<1>3. Sends(p, k2, nm, w)
  <2>1. Sends(p, k, nm, w) BY DEF KeyGood
  <2>2. Packets(k2) = Packets(k) BY <1>1 DEF Packets
  <2> QED BY <1>1, <2>1, <2>2 DEF Sends, HelloSent, KeySent
<1>4. Receives(p, k2, v)
  <2>1. Receives(p, k, v) BY DEF KeyGood
  <2>2. Hand(k2) = Hand(k) /\ Got(k2) = Got(k) BY <1>1 DEF Hand, Got
  <2>3. k2.remote # NoSid /\ k2.addr = TRUE BY DEF Meets
  <2> QED BY <1>1, <2>1, <2>2, <2>3 DEF Receives, HelloRead, DecryptKeyEnabled
<1>5. Reliably(k, k2)
  <2>1. Got(k) \subseteq Got(k2) BY <1>1 DEF Got
  <2> QED BY <1>1, <2>1 DEF Reliably, Meets, Keeps, Envelope
<1> QED BY <1>1, <1>2, <1>3, <1>4, <1>5 DEF KeyGood

LEMMA ServerAt ==
  ASSUME NEW W, NEW i \in Slots, NEW k, NEW S
  PROVE  ServerGood(At(W, Server, i, k, S), i) <=> ServerFine(W, k, <<W.sid[Server][i], k.keyId>>)
<1> PICK V : V = At(W, Server, i, k, S) OBVIOUS
<1>1. Server \in Peers /\ Other(Server) = Client /\ Client \in Peers /\ Client # Server
  BY PeersAssumption DEF Peers, Other
<1>2. Differs(V, W, Server, i, k, S) BY <1>1, AtIs
<1>3. V.key[Server][i] = k /\ Name(V, Server, i) = <<W.sid[Server][i], k.keyId>> BY <1>2 DEF Differs
<1>4. \A j \in Slots : V.key[Client][j] = W.key[Client][j] /\ Name(V, Client, j) = Name(W, Client, j)
  BY <1>1, <1>2 DEF Differs, Name
<1>5. ServerGood(V, i) <=> ServerFine(W, k, <<W.sid[Server][i], k.keyId>>)
  BY <1>3, <1>4 DEF ServerGood, ServerFine
<1> QED BY <1>5

\* What a world in which a key holds says of what has arrived for it.
LEMMA HeldPackets ==
  ASSUME NEW W, NEW p \in Peers, NEW i \in Slots, NEW k, NEW S, Holds(W, p, i, k, S), NEW m, m \in W.net[p], p = Server
  PROVE  /\ ServerFine(W, k, <<W.sid[p][i], k.keyId>>) /\ KeyFine(W, p, i, k)
         /\ \A j \in Slots : Live(W.key[Client][j]) /\ <<m.sid, m.kid>> = Name(W, Client, j) => m.acks \subseteq Got(W.key[Client][j])
         /\ m.pid >= 2 /\ <<W.sid[p][i], k.keyId>> \in m.body.conn =>
              m.body.conn = {<<W.sid[p][i], k.keyId>>, <<m.sid, m.kid>>}
<1> PICK V : V = At(W, p, i, k, S) OBVIOUS
<1> PICK nm : nm = <<W.sid[p][i], k.keyId>> OBVIOUS
<1>1. Other(p) = Client /\ Client \in Peers /\ Client # p BY PeersAssumption DEF Peers, Other
<1>2. Differs(V, W, p, i, k, S) BY AtIs
<1>3. Good(V) /\ Live(V.key[p][i]) BY <1>2 DEF Holds, Differs
<1>4. SlotGood(V, p, i) /\ KeyFine(W, p, i, k) BY HoldsIs
<1>5. ServerFine(W, k, nm) BY <1>4, ServerAt DEF SlotGood
<1>6. MailGood(V, p) /\ m \in V.net[p] /\ m \in Mail(V, p) BY <1>2, <1>3 DEF Good, PeerGood, Differs, Mail
<1>7. PacketGood(V, p, m) /\ LetterGood(V, p, m) BY <1>6 DEF MailGood
<1>8. \A j \in Slots : V.key[Client][j] = W.key[Client][j] /\ Name(V, Client, j) = Name(W, Client, j)
  BY <1>1, <1>2 DEF Differs, Name
<1>9. nm \in Names(p) /\ Known(V, Client, <<m.sid, m.kid>>) BY <1>1, <1>7, HeldName DEF PacketGood
<1>10. ASSUME m.pid >= 2, nm \in m.body.conn PROVE m.body.conn = {nm, <<m.sid, m.kid>>}
  <2>1. Between(V, p, m.body.conn) /\ <<m.sid, m.kid>> \in m.body.conn
    BY <1>7, <1>10 DEF LetterGood, PacketGood
  <2>2. PICK a \in Names(Client), b \in Names(p) : m.body.conn = {a, b} BY <1>1, <2>1 DEF Between, Known
  <2> PICK c : c = <<m.sid, m.kid>> OBVIOUS
  <2>3. c \in Names(Client) /\ c \in {a, b} /\ nm \in {a, b} BY <1>9, <1>10, <2>1, <2>2 DEF Known
  <2>4. \A x \in Names(Client), y \in Names(p) : x # y BY <1>1 DEF Names
  <2>5. c = a /\ nm = b BY <1>9, <2>2, <2>3, <2>4
  <2> QED BY <2>2, <2>5
<1>11. \A j \in Slots : Live(W.key[Client][j]) /\ <<m.sid, m.kid>> = Name(W, Client, j) => m.acks \subseteq Got(W.key[Client][j])
  BY <1>1, <1>7, <1>8 DEF PacketGood
<1> QED BY <1>4, <1>5, <1>10, <1>11

LEMMA HoldsPurged ==
  ASSUME NEW W, NEW p \in Peers, NEW i \in Slots, NEW k, NEW k2, NEW S, Holds(W, p, i, k, S), NEW m, m \in W.net[p],
         m.kid = k.keyId, m.sid = k.remote, Purged(k, k2, m.acks)
  PROVE  Holds(W, p, i, k2, S)
<1> PICK nm : nm = <<W.sid[p][i], k.keyId>> OBVIOUS
<1>1. KeyGood(p, k, nm, W.written[p], W.written[Other(p)]) BY HoldsIs DEF KeyFine
<1>2. KeyGood(p, k2, nm, W.written[p], W.written[Other(p)]) /\ Reliably(k, k2) /\ k2.rec = k.rec
  BY <1>1, KeyPurged
<1>3. /\ k2.keyId = k.keyId /\ k2.remote = k.remote /\ k2.next = k.next /\ k2.tls = k.tls /\ k2.state = k.state
      /\ k2.unacked = {u \in k.unacked : u.pid \notin m.acks} /\ (HasText(p, k2) <=> HasText(p, k))
  BY <1>2, ReliablyIs DEF Purged, Keeps, KeyFields
<1>4. KeyFine(W, p, i, k2) BY <1>2, <1>3 DEF KeyFine
<1>5. ASSUME p = Server PROVE ServerGood(At(W, p, i, k2, S), i)
  <2>1. /\ ServerFine(W, k, nm)
        /\ \A j \in Slots : Live(W.key[Client][j]) /\ <<m.sid, m.kid>> = Name(W, Client, j) => m.acks \subseteq Got(W.key[Client][j])
    BY <1>5, HeldPackets
  <2>2. ASSUME NEW j \in Slots, k2.next >= 3, 2 \notin Packets(k2), Live(W.key[Client][j]), Name(W, Client, j) = k2.tls.peer
        PROVE  2 \in Got(W.key[Client][j])
    <3>1. CASE 2 \notin Packets(k) BY <1>3, <2>1, <2>2, <3>1 DEF ServerFine
    <3>2. CASE 2 \in Packets(k)
      <4>1. 2 \in m.acks BY <1>3, <2>2, <3>2 DEF Packets
      <4>2. k.state >= S_SENT_KEY BY <1>1, <1>3, <2>2 DEF KeyGood, Sends, KeySent, Shaped
      <4>3. HasText(Server, k) BY <4>2 DEF HasText, DecryptKeyEnabled
      <4>4. k.tls.peer = <<m.sid, m.kid>> BY <2>1, <4>3 DEF ServerFine
      <4> QED BY <1>3, <2>1, <2>2, <4>1, <4>4
    <3> QED BY <3>1, <3>2
  <2>3. HasText(Server, k2) => k2.tls.peer = <<k2.remote, k2.keyId>> BY <1>3, <1>5, <2>1 DEF ServerFine
  <2>4. \A r \in k2.rec : r.pid >= 2 /\ nm \in r.body.conn => r.body.conn = {nm, <<k2.remote, k2.keyId>>}
    BY <1>2, <1>3, <2>1 DEF ServerFine
  <2>5. ServerFine(W, k2, nm) BY <2>2, <2>3, <2>4 DEF ServerFine
  <2> QED BY <1>3, <1>5, <2>5, ServerAt
<1>6. \A r \in k2.rec : r \in k.rec \/ Carried(W.net[p], r) BY <1>2
<1> QED BY <1>2, <1>4, <1>5, <1>6, HoldsReliably

LEMMA HoldsKept ==
  ASSUME NEW W, NEW p \in Peers, NEW i \in Slots, NEW k, NEW k2, NEW S, Holds(W, p, i, k, S), NEW m, m \in W.net[p],
         m.kid = k.keyId, m.sid = k.remote, m.pid \in Nat, Kept(k, k2, m.pid, m.body), k.remote # NoSid, k.addr
  PROVE  Holds(W, p, i, k2, S)
<1> PICK nm : nm = <<W.sid[p][i], k.keyId>> OBVIOUS
<1>1. KeyGood(p, k, nm, W.written[p], W.written[Other(p)]) BY HoldsIs DEF KeyFine
<1>2. /\ KeyGood(p, k2, nm, W.written[p], W.written[Other(p)]) /\ Reliably(k, k2)
      /\ \A r \in k2.rec : r \in k.rec \/ (r.pid = m.pid /\ r.body = m.body)
  BY <1>1, KeyKept
<1>3. /\ k2.keyId = k.keyId /\ k2.remote = k.remote /\ k2.next = k.next /\ k2.tls = k.tls
      /\ k2.unacked = k.unacked /\ (HasText(p, k2) <=> HasText(p, k))
  BY <1>2, ReliablyIs DEF Kept, Keeps, KeyFields
<1>4. KeyFine(W, p, i, k2) BY <1>2, <1>3 DEF KeyFine
<1>5. ASSUME p = Server PROVE ServerGood(At(W, p, i, k2, S), i)
  <2>1. /\ ServerFine(W, k, nm)
        /\ m.pid >= 2 /\ nm \in m.body.conn => m.body.conn = {nm, <<k.remote, k.keyId>>}
    BY <1>5, HeldPackets
  <2>2. \A r \in k2.rec : r.pid >= 2 /\ nm \in r.body.conn => r.body.conn = {nm, <<k2.remote, k2.keyId>>}
    BY <1>2, <1>3, <2>1 DEF ServerFine
  <2>3. Packets(k2) = Packets(k) BY <1>3 DEF Packets
  <2>4. ServerFine(W, k2, nm) BY <1>3, <1>5, <2>1, <2>2, <2>3 DEF ServerFine
  <2> QED BY <1>3, <1>5, <2>4, ServerAt
<1>6. \A r \in k2.rec : r \in k.rec \/ Carried(W.net[p], r) BY <1>2 DEF Carried
<1> QED BY <1>2, <1>4, <1>5, <1>6, HoldsReliably

LEMMA HoldsMet ==
  ASSUME NEW W, NEW p \in Peers, NEW i \in Slots, NEW k, NEW k2, NEW S, Holds(W, p, i, k, S), NEW id, id # NoSid,
         Meets(k, k2, id), p = Server => NoTextYet(k, <<W.sid[p][i], k.keyId>>)
  PROVE  Holds(W, p, i, k2, S)
<1> PICK nm : nm = <<W.sid[p][i], k.keyId>> OBVIOUS
<1>1. KeyGood(p, k, nm, W.written[p], W.written[Other(p)]) BY HoldsIs DEF KeyFine
<1>2. KeyGood(p, k2, nm, W.written[p], W.written[Other(p)]) /\ Reliably(k, k2) /\ k2.rec = k.rec
  BY <1>1, KeyMeets
<1>3. /\ k2.keyId = k.keyId /\ k2.next = k.next /\ k2.tls = k.tls
      /\ k2.unacked = k.unacked /\ (HasText(p, k2) <=> HasText(p, k))
  BY <1>2, ReliablyIs DEF Meets, Keeps, KeyFields
<1>4. KeyFine(W, p, i, k2) BY <1>2, <1>3 DEF KeyFine
<1>5. ASSUME p = Server PROVE ServerGood(At(W, p, i, k2, S), i)
  <2>1. ServerFine(W, k, nm)
    <3>1. SlotGood(At(W, p, i, k, S), p, i) BY HoldsIs
    <3> QED BY <1>5, <3>1, ServerAt DEF SlotGood
  <2>2. NoTextYet(k, nm) BY <1>5
  <2>3. Packets(k2) = Packets(k) BY <1>3 DEF Packets
  <2>4. ServerFine(W, k2, nm) BY <1>2, <1>3, <1>5, <2>1, <2>2, <2>3 DEF ServerFine, NoTextYet
  <2> QED BY <1>3, <1>5, <2>4, ServerAt
<1>6. \A r \in k2.rec : r \in k.rec \/ Carried(W.net[p], r) BY <1>2
<1> QED BY <1>2, <1>4, <1>5, <1>6, HoldsReliably

LEMMA DeliveredIs ==
  ASSUME NEW s, SessionFine(s), NEW packet, packet.pid \in Nat, KeyFields \subseteq DOMAIN s.keys[KS_PRIMARY],
         s.keys[KS_PRIMARY].recNext \in Nat
  PROVE  Delivered(s, packet) = s \/ \E k2, k3 : Arrives(s, packet, Delivered(s, packet), k2, k3)
<1> PICK k : k = s.keys[KS_PRIMARY] OBVIOUS
<1> PICK k2 : k2 = [k EXCEPT !.unacked = {u \in @ : u.pid \notin packet.acks}, !.due = @ \ packet.acks]
  OBVIOUS
<1> DEFINE new == packet.pid >= k.recNext /\ packet.pid \notin {r.pid : r \in k.rec}
<1> PICK k4 : k4 = [k2 EXCEPT !.rec = IF new THEN @ \cup {[pid |-> packet.pid, body |-> packet.body]} ELSE @,
                              !.acks = @ \cup {packet.pid}]
  OBVIOUS
<1> PICK d : d = Delivered(s, packet) OBVIOUS
<1> SUFFICES ASSUME d # s PROVE \E k3 : Arrives(s, packet, d, k2, k3) OBVIOUS
<1>1. Purged(k, k2, packet.acks) BY DEF Purged, Keeps, KeyFields
<1>2. k2.rec = k.rec /\ k2.recNext = k.recNext /\ KeyFields \subseteq DOMAIN k2 BY DEF KeyFields
<1>3. Keeps(k2, k4, {"rec", "acks"}) /\ k4.acks = k2.acks \cup {packet.pid}
  BY Zenon, <1>2 DEF Keeps, KeyFields
<1>4. k4.rec = IF new THEN k2.rec \cup {[pid |-> packet.pid, body |-> packet.body]} ELSE k2.rec
  BY <1>2 DEF KeyFields
<1>5. Kept(k2, k4, packet.pid, packet.body)
  <2>1. CASE new BY <1>2, <1>3, <1>4, <2>1 DEF Kept
  <2>2. CASE ~new
    <3>1. packet.pid < k2.recNext \/ packet.pid \in {r.pid : r \in k2.rec}
      <4>1. ~(packet.pid >= k.recNext) \/ packet.pid \in {r.pid : r \in k.rec} BY <2>2
      <4>2. k.recNext \in Nat OBVIOUS
      <4>3. ~(packet.pid >= k.recNext) => packet.pid < k.recNext BY <4>2
      <4> QED BY <1>2, <4>1, <4>3
    <3> QED BY <1>3, <1>4, <2>2, <3>1 DEF Kept
  <2> QED BY <2>1, <2>2
<1>6. d = IF packet.kid # k.keyId \/ (packet.acks # {} /\ packet.ackSid # s.sid) THEN s
          ELSE [s EXCEPT !.keys[KS_PRIMARY] = IF packet.op = "ack" THEN k2 ELSE k4]
  BY DEF Delivered
<1>7. packet.kid = k.keyId /\ d = WithKey(s, IF packet.op = "ack" THEN k2 ELSE k4) BY <1>6 DEF WithKey
<1>8. CASE packet.op = "ack"
  <2>1. Arrives(s, packet, d, k2, k2) BY <1>1, <1>7, <1>8 DEF Arrives
  <2> QED BY <2>1
<1>9. CASE packet.op # "ack"
  <2>1. Arrives(s, packet, d, k2, k4) BY <1>1, <1>5, <1>7, <1>9 DEF Arrives
  <2> QED BY <2>1
<1> QED BY <1>8, <1>9

LEMMA HeldDelivered ==
  ASSUME NEW W, NEW p \in Peers, NEW i \in Slots, NEW k, NEW k2, NEW k3, NEW packet, packet \in W.net[p],
         packet.pid \in Nat, packet.kid = k.keyId, packet.sid = k.remote, k.remote # NoSid, k.addr,
         Holds(W, p, i, k, {}), Purged(k, k2, packet.acks), k3 = k2 \/ Kept(k2, k3, packet.pid, packet.body)
  PROVE  Holds(W, p, i, k3, {})
<1>1. Holds(W, p, i, k2, {}) BY HoldsPurged
<1>2. k2.keyId = k.keyId /\ k2.remote = k.remote /\ k2.addr = k.addr BY DEF Purged, Keeps, KeyFields
<1>3. CASE Kept(k2, k3, packet.pid, packet.body) BY <1>1, <1>2, <1>3, HoldsKept
<1> QED BY <1>1, <1>3

LEMMA DeliveredGood ==
  ASSUME NEW W, NEW p \in Peers, NEW i \in Slots, NEW m, NEW m2, NEW packet, TurnGood(W, p, m, {}), Reaches(W, p, m, i, packet),
         SetTo(m, m2, i, Delivered(m.sess[i], packet))
  PROVE  TurnGood(W, p, m2, {})
<1> PICK V : V = Put(W, p, m, {}) OBVIOUS
<1> PICK s : s = m.sess[i] OBVIOUS
<1> PICK k : k = Prime(m, i) OBVIOUS
<1> PICK d : d = Delivered(m.sess[i], packet) OBVIOUS
<1>1. Puts(V, W, p, m, {}) BY PutIs
<1>2. MultiFine(m) /\ Good(V) /\ SessionFine(s) /\ k = s.keys[KS_PRIMARY] /\ i \in Sessions
  BY SlotsAre DEF TurnGood, MultiFine, Prime
<1>3. packet \in V.net[p] /\ packet.sid = k.remote /\ k.remote # NoSid /\ k.addr /\ Live(k)
  BY <1>1 DEF Puts, Reaches
<1>4. packet.pid \in Nat
  <2>1. LetterGood(V, p, packet) BY <1>2, <1>3 DEF Good, PeerGood, MailGood, Mail
  <2> QED BY <2>1 DEF LetterGood
<1>5. Holds(V, p, i, k, {})
  <2>1. Good(Put(W, p, m, {} \cup {})) BY <1>2
  <2> QED BY <1>3, <2>1, HoldsPut
<1>6. KeyFields \subseteq DOMAIN k /\ k.recNext \in Nat
  <2>1. KeyFine(V, p, i, k) BY <1>5, HoldsIs
  <2>2. Shaped(k) BY <2>1, KeyFineIs
  <2> QED BY <2>2 DEF Shaped
<1>7. MultiFields \subseteq DOMAIN m2 /\ Sessions \subseteq DOMAIN m2.sess /\ m2.n = m.n /\ m2.sess[i] = d
      /\ \A j \in Sessions : j # i => m2.sess[j] = m.sess[j]
  BY DEF SetTo
<1>8. CASE d = s
  <2>1. m2.sess[i] = m.sess[i] BY <1>7, <1>8
  <2>2. \A j \in Sessions : m2.sess[j] = m.sess[j] BY <1>7, <2>1
  <2>3. Alike(m, m2) /\ \A j \in Sessions : Prime(m2, j) = Prime(m, j)
    BY <1>7, <2>2, SlotsAre DEF Alike, Prime
  <2>4. MultiFine(m2)
    <3>1. m2.up = m.up BY DEF SetTo
    <3> QED BY <1>2, <1>7, <2>2, <2>3, <3>1, SlotsAre DEF MultiFine
  <2>5. Good(Put(W, p, m2, {})) BY <1>2, <2>3, AlikeGood
  <2> QED BY <2>3, <2>4, <2>5, SlotsAre DEF TurnGood
<1>9. CASE d # s
  <2>1. PICK k2, k3 : Arrives(s, packet, d, k2, k3) BY <1>2, <1>4, <1>6, <1>9, DeliveredIs
  <2>2. Purged(k, k2, packet.acks) /\ packet.kid = k.keyId /\ (k3 = k2 \/ Kept(k2, k3, packet.pid, packet.body)) /\ d = WithKey(s, k3)
    BY <1>2, <2>1 DEF Arrives
  <2>3. Holds(V, p, i, k3, {}) BY <1>3, <1>4, <1>5, <2>2, HeldDelivered
  <2>4. SessionFine(d) /\ d.keys[KS_PRIMARY] = k3 /\ d.sid = s.sid /\ d.nextKey = s.nextKey
    BY <1>2, <2>2, KeyIs
  <2>5. Live(k3) BY <2>3 DEF Holds
  <2>6. MultiFine(m2) /\ ButSession(m, m2, i) /\ Prime(m2, i) = k3
    <3>1. SetTo(m, m2, i, d) OBVIOUS
    <3> QED BY <1>2, <1>7, <2>4, <2>5, <3>1, SetFine DEF Prime
  <2>7. Good(Put(W, p, m2, {}))
    <3>1. Good(Put(W, p, m2, {} \cup {}))
      <4>1. m2.sess[i].sid = m.sess[i].sid /\ m2.sess[i].nextKey = m.sess[i].nextKey BY <1>7, <2>4
      <4> QED BY <1>7, <2>3, <2>6, <4>1, PutHolds
    <3> QED BY <3>1
  <2>8. k3.tls = k.tls /\ k3.state = k.state /\ k3.next = k.next BY <2>2 DEF Purged, Kept, Keeps, KeyFields
  <2>9. \A j \in Slots : Live(Prime(m2, j)) => Flushed(p, Prime(m2, j))
    <3>1. Flushed(p, k) BY <1>3 DEF TurnGood
    <3>2. Flushed(p, k3) BY <2>8, <3>1 DEF Flushed, KeySent
    <3> TAKE j \in Slots
    <3>3. CASE j = i BY <2>6, <3>2, <3>3
    <3>4. CASE j # i BY <2>6, <3>4 DEF ButSession, TurnGood
    <3> QED BY <3>3, <3>4
  <2> QED BY <2>6, <2>7, <2>9 DEF TurnGood
<1> QED BY <1>8, <1>9

LEMMA InTurnIs ==
  ASSUME NEW W, NEW p \in Peers, NEW i \in Slots, NEW m, TurnGood(W, p, m, {}), NEW k, k = Prime(m, i), Live(k)
  PROVE  InTurn(W, p, i, m, k)
<1>1. MultiFine(m) /\ Good(Put(W, p, m, {})) /\ Flushed(p, k) /\ i \in Sessions BY SlotsAre DEF TurnGood
<1>2. SessionFine(m.sess[i]) /\ k = m.sess[i].keys[KS_PRIMARY] BY <1>1 DEF MultiFine, Prime
<1>3. SessionGood(W, p, m, i)
  <2>1. k # Undef BY UndefIs
  <2> QED BY <1>1, <2>1, SessionIs
<1>4. Shaped(k) /\ k.due \subseteq Packets(k) BY <1>3 DEF SessionGood, KeyGood, Sends
<1>5. Holds(Put(W, p, m, {}), p, i, k, {})
  <2>1. Good(Put(W, p, m, {} \cup {})) BY <1>1
  <2> QED BY <2>1, HoldsPut
<1>6. Put(W, p, m, {}).sid[p][i] = m.sess[i].sid
  <2>1. Puts(Put(W, p, m, {}), W, p, m, {}) BY PutIs
  <2> QED BY <2>1 DEF Puts
<1> QED BY <1>1, <1>2, <1>3, <1>4, <1>5, <1>6 DEF InTurn

\* A session's key has another due, or knows its peer; nothing else of the turn has changed.
LEMMA SetGood ==
  ASSUME NEW W, NEW p \in Peers, NEW i \in Slots, NEW m, NEW m2, NEW s2, NEW k, NEW k2, TurnGood(W, p, m, {}),
         InTurn(W, p, i, m, k), SetTo(m, m2, i, s2), SessionFine(s2), k2 = s2.keys[KS_PRIMARY],
         s2.sid = m.sess[i].sid, s2.nextKey = m.sess[i].nextKey,
         Holds(Put(W, p, m, {}), p, i, k2, {}), Keeps(k, k2, Envelope)
  PROVE  TurnGood(W, p, m2, {}) /\ Prime(m2, i) = k2 /\ m2.up = m.up
<1>1. Live(k2) BY DEF Holds
<1>2. MultiFine(m2) /\ ButSession(m, m2, i) BY <1>1, SetFine DEF InTurn
<1>3. Prime(m2, i) = k2 /\ m2.sess[i] = s2 /\ m2.n = m.n /\ m2.up = m.up BY DEF SetTo, Prime
<1>4. Good(Put(W, p, m2, {}))
  <2>1. m2.sess[i].sid = m.sess[i].sid /\ m2.sess[i].nextKey = m.sess[i].nextKey BY <1>3
  <2>2. Good(Put(W, p, m2, {} \cup {})) BY <1>2, <1>3, <2>1, PutHolds
  <2> QED BY <2>2
<1>5. Flushed(p, k2)
  <2>1. k2.tls = k.tls /\ k2.state = k.state /\ k2.next = k.next BY DEF Keeps, KeyFields, Envelope
  <2> QED BY <2>1 DEF InTurn, Flushed, KeySent
<1>6. \A j \in Slots : Live(Prime(m2, j)) => Flushed(p, Prime(m2, j))
  <2> TAKE j \in Slots
  <2>1. CASE j = i BY <1>3, <1>5, <2>1
  <2>2. CASE j # i BY <1>2, <2>2 DEF ButSession, TurnGood
  <2> QED BY <2>1, <2>2
<1> QED BY <1>2, <1>3, <1>4, <1>6 DEF TurnGood

LEMMA BurstIs ==
  ASSUME NEW s, SessionFine(s), NEW k, k = s.keys[KS_PRIMARY], KeyFields \subseteq DOMAIN k, k.due \subseteq Packets(k), NEW s2, s2 = Burst(s)
  PROVE  /\ SessionFine(s2) /\ s2.sid = s.sid /\ s2.nextKey = s.nextKey
         /\ Keeps(k, s2.keys[KS_PRIMARY], {"due"}) /\ s2.keys[KS_PRIMARY].due \subseteq Packets(k)
<1>1. CASE s.burst BY <1>1 DEF Burst, Keeps
<1>2. CASE ~s.burst
  <2>1. s2 = [s EXCEPT !.burst = TRUE, !.keys[KS_PRIMARY].due = Packets(s.keys[KS_PRIMARY])] BY <1>2 DEF Burst
  <2>2. SessionFine(s2) /\ s2.sid = s.sid /\ s2.nextKey = s.nextKey BY <2>1 DEF SessionFine, SessionFields
  <2>3. s2.keys[KS_PRIMARY] = [k EXCEPT !.due = Packets(k)] BY <2>1 DEF SessionFine, SessionFields
  <2>4. Keeps(k, s2.keys[KS_PRIMARY], {"due"}) /\ s2.keys[KS_PRIMARY].due = Packets(k)
    BY <2>3 DEF Keeps, KeyFields
  <2> QED BY <2>2, <2>4
<1> QED BY <1>1, <1>2

LEMMA DueHolds ==
  ASSUME NEW W, NEW p \in Peers, NEW i \in Slots, NEW k, NEW k2, NEW S, Holds(W, p, i, k, S),
         Keeps(k, k2, {"due"}), k2.due \subseteq Packets(k)
  PROVE  Holds(W, p, i, k2, S)
<1> PICK nm : nm = <<W.sid[p][i], k.keyId>> OBVIOUS
<1>1. KeyGood(p, k, nm, W.written[p], W.written[Other(p)]) BY HoldsIs DEF KeyFine
<1>2. k2.keyId = k.keyId /\ k2.acks = k.acks /\ k2.addr = k.addr BY DEF Keeps, KeyFields
<1>3. Keeps(k, k2, {"due", "acks", "addr"}) BY DEF Keeps
<1>4. KeyGood(p, k2, nm, W.written[p], W.written[Other(p)]) /\ Quietly(p, k, k2) BY <1>1, <1>2, <1>3, KeyAcks
<1>5. KeyFine(W, p, i, k2) BY <1>2, <1>4 DEF KeyFine
<1> QED BY <1>2, <1>4, <1>5, HoldsQuiet

LEMMA BurstGood ==
  ASSUME NEW W, NEW p \in Peers, NEW i \in Slots, NEW m, NEW m2, NEW k, k = Prime(m, i), Live(k), TurnGood(W, p, m, {}),
         SetTo(m, m2, i, Burst(m.sess[i]))
  PROVE  Stays(W, p, i, m, m2, k)
<1> PICK s2 : s2 = Burst(m.sess[i]) OBVIOUS
<1> PICK k2 : k2 = s2.keys[KS_PRIMARY] OBVIOUS
<1>1. InTurn(W, p, i, m, k) BY InTurnIs
<1>2. SessionFine(m.sess[i]) /\ k = m.sess[i].keys[KS_PRIMARY] /\ KeyFields \subseteq DOMAIN k /\ k.due \subseteq Packets(k)
      /\ Holds(Put(W, p, m, {}), p, i, k, {})
  BY <1>1 DEF InTurn, Shaped
<1>3. SessionFine(s2) /\ s2.sid = m.sess[i].sid /\ s2.nextKey = m.sess[i].nextKey /\ Keeps(k, k2, {"due"}) /\ k2.due \subseteq Packets(k)
  BY <1>2, BurstIs
<1>4. Holds(Put(W, p, m, {}), p, i, k2, {}) BY <1>2, <1>3, DueHolds
<1>5. Keeps(k, k2, Envelope) /\ k2.remote = k.remote /\ k2.addr = k.addr /\ k2.state = k.state
  BY <1>3 DEF Keeps, Envelope, KeyFields
<1>6. SetTo(m, m2, i, s2) OBVIOUS
<1>7. TurnGood(W, p, m2, {}) /\ Prime(m2, i) = k2 /\ m2.up = m.up BY <1>1, <1>3, <1>4, <1>5, <1>6, SetGood
<1> QED BY <1>5, <1>7 DEF Live, Stays

LEMMA MeetGood ==
  ASSUME NEW W, NEW p \in Peers, NEW i \in Slots, NEW m, NEW m2, NEW k, k = Prime(m, i), Live(k), TurnGood(W, p, m, {}),
         NEW k2, NEW id, id # NoSid, Meets(k, k2, id), SetTo(m, m2, i, WithKey(m.sess[i], k2)),
         p = Server => NoTextYet(k, <<m.sess[i].sid, k.keyId>>)
  PROVE  Acquainted(W, p, i, m, m2, id)
<1> PICK s2 : s2 = WithKey(m.sess[i], k2) OBVIOUS
<1>1. InTurn(W, p, i, m, k) BY InTurnIs
<1>2. SessionFine(m.sess[i]) /\ Holds(Put(W, p, m, {}), p, i, k, {}) /\ Put(W, p, m, {}).sid[p][i] = m.sess[i].sid
  BY <1>1 DEF InTurn
<1>3. SessionFine(s2) /\ s2.keys[KS_PRIMARY] = k2 /\ s2.sid = m.sess[i].sid /\ s2.nextKey = m.sess[i].nextKey
  BY <1>2, KeyIs
<1>4. Holds(Put(W, p, m, {}), p, i, k2, {}) BY <1>2, HoldsMet
<1>5. Keeps(k, k2, Envelope) /\ k2.remote = id /\ k2.addr = TRUE /\ k2.state = k.state
  BY DEF Meets, Keeps, Envelope, KeyFields
<1>6. SetTo(m, m2, i, s2) OBVIOUS
<1>7. TurnGood(W, p, m2, {}) /\ Prime(m2, i) = k2 /\ m2.up = m.up BY <1>1, <1>3, <1>4, <1>5, <1>6, SetGood
<1> QED BY <1>5, <1>7 DEF Live, Acquainted

LEMMA SoftResetGood ==
  ASSUME NEW W, NEW p \in Peers, NEW i \in Slots, NEW m, NEW m2, NEW k, k = Prime(m, i), Live(k), TurnGood(W, p, m, {}),
         m.sess[i].nextKey < KeyIdMask, SetTo(m, m2, i, SoftReset(m.sess[i]))
  PROVE  Stays(W, p, i, m, m2, k)
<1> PICK s : s = m.sess[i] OBVIOUS
<1> PICK s2 : s2 = SoftReset(s) OBVIOUS
<1>1. InTurn(W, p, i, m, k) BY InTurnIs
<1>2. SessionFine(s) /\ k = s.keys[KS_PRIMARY] /\ MultiFine(m) /\ Good(Put(W, p, m, {})) /\ s.nextKey \in 1..KeyIdMask
  BY <1>1 DEF InTurn, SessionGood
<1>3. RenewedAs(s, s2)
  <2>1. s.nextKey \in 1..(KeyIdMask - 1) BY <1>2 DEF KeyIdMask
  <2> QED BY <1>2, <2>1, SoftResetIs DEF SessionFine, SessionFields
<1>4. SessionFine(s2) /\ NewKey(s2.keys[KS_PRIMARY]) /\ s2.keys[KS_PRIMARY].remote = k.remote /\ s2.keys[KS_PRIMARY].addr = k.addr
  BY <1>2, <1>3 DEF RenewedAs, SessionFine, SessionFields
<1>5. Live(s2.keys[KS_PRIMARY]) /\ Flushed(p, s2.keys[KS_PRIMARY]) BY <1>4, NewKeyGood
<1>6. SetTo(m, m2, i, s2) /\ m2.sess[i] = s2 /\ m2.n = m.n /\ m2.up = m.up /\ Prime(m2, i) = s2.keys[KS_PRIMARY]
  BY DEF SetTo, Prime
<1>7. MultiFine(m2) /\ ButSession(m, m2, i) BY <1>2, <1>4, <1>5, <1>6, SetFine
<1>8. Good(Put(W, p, m2, {})) BY <1>2, <1>3, <1>6, <1>7, PutRenewed
<1>9. \A j \in Slots : Live(Prime(m2, j)) => Flushed(p, Prime(m2, j))
  <2> TAKE j \in Slots
  <2>1. CASE j = i BY <1>5, <1>6, <2>1
  <2>2. CASE j # i BY <1>7, <2>2 DEF ButSession, TurnGood
  <2> QED BY <2>1, <2>2
<1> QED BY <1>4, <1>5, <1>6, <1>7, <1>8, <1>9 DEF TurnGood, Stays

\* A packet opens a session that has not heard of a peer, or an untrusted one at rest.
LEMMA NoText ==
  ASSUME NEW W, NEW i \in Slots, NEW m, NEW k, k = Prime(m, i), Live(k), TurnGood(W, Server, m, {}),
         (i = TM_ACTIVE /\ k.remote = NoSid) \/ (i = TM_UNTRUSTED /\ Rested(Server, m))
  PROVE  NoTextYet(k, <<m.sess[i].sid, k.keyId>>)
<1> PICK nm : nm = <<m.sess[i].sid, k.keyId>> OBVIOUS
<1> PICK V : V = Put(W, Server, m, {}) OBVIOUS
<1>1. Server \in Peers BY DEF Peers
<1>2. InTurn(W, Server, i, m, k) /\ Puts(V, W, Server, m, {}) /\ Good(V) BY <1>1, InTurnIs, PutIs DEF TurnGood
<1>3. V.key[Server][i] = k /\ Name(V, Server, i) = nm BY <1>2 DEF Puts, Name, Prime
<1>4. SlotGood(V, Server, i) BY <1>1, <1>2, <1>3, LiveIsGood
<1>5. KeyGood(Server, k, nm, V.written[Server], V.written[Other(Server)]) /\ Heard(V, Server, i)
  BY <1>3, <1>4 DEF SlotGood
<1>6. Receives(Server, k, V.written[Other(Server)]) /\ k.recNext \in Nat BY <1>5 DEF KeyGood, Shaped
<1>7. CASE i = TM_ACTIVE /\ k.remote = NoSid
  <2>1. k.recNext = 0 /\ k.rec = {} BY <1>6, <1>7 DEF Receives
  <2>2. ~DecryptKeyEnabled(Server, k) /\ Hand(k) = <<>> BY <1>6, <2>1 DEF Receives
  <2> QED BY <2>1, <2>2 DEF NoTextYet, HasText
<1>8. CASE i = TM_UNTRUSTED /\ Rested(Server, m)
  <2>1. k.recNext <= 2 /\ InOrder(k) = {} /\ ~DecryptKeyEnabled(Server, k) BY <1>8 DEF Rested
  <2>2. Hand(k) = <<>> BY <1>6, <2>1 DEF Receives
  <2>3. ASSUME NEW r \in k.rec, r.pid >= 2, nm \in r.body.conn PROVE FALSE
    <3>1. r \in Mail(V, Server) BY <1>3, <1>8 DEF Mail, Slots
    <3>2. HelloSent(Server, k) BY <1>3, <1>5, <2>3, <3>1 DEF Heard
    <3>3. Client # Server BY PeersAssumption
    <3>4. HelloRead(Server, k) BY <3>2, <3>3 DEF HelloSent, HelloRead
    <3>5. k.recNext >= 2 BY <1>6, <3>4 DEF Receives
    <3>6. r.pid # k.recNext BY <2>1 DEF InOrder
    <3>7. LetterGood(V, Server, r) BY <1>1, <1>2, <3>1 DEF Good, PeerGood, MailGood
    <3>8. r.pid \in Nat /\ r.pid >= 3 BY <1>6, <2>1, <2>3, <3>5, <3>6, <3>7 DEF LetterGood
    <3>9. UntrustedGood(V, Server) BY <1>1, <1>2, <1>3, <1>8 DEF Good, PeerGood
    <3> QED BY <1>3, <1>8, <2>3, <3>1, <3>8, <3>9 DEF UntrustedGood
  <2> QED BY <2>1, <2>2, <2>3 DEF NoTextYet, HasText
<1> QED BY <1>7, <1>8

\* What a packet on its way to a peer is.
LEMMA PacketKnown ==
  ASSUME NEW W, NEW p \in Peers, NEW m, TurnGood(W, p, m, {}), NEW packet, packet \in W.net[p]
  PROVE  packet.sid # NoSid
<1> PICK V : V = Put(W, p, m, {}) OBVIOUS
<1>1. Puts(V, W, p, m, {}) /\ Good(V) BY PutIs DEF TurnGood
<1>2. PacketGood(V, p, packet) BY <1>1 DEF Puts, Good, PeerGood, MailGood
<1> PICK nm : nm = <<packet.sid, packet.kid>> OBVIOUS
<1>3. nm \in Names(Other(p)) /\ nm[1] = packet.sid BY <1>2 DEF PacketGood, Known
<1>4. packet.sid \in {Other(p)} \X Nat BY <1>3 DEF Names
<1>5. NoSid \notin {Other(p)} \X Nat BY DEF NoSid
<1> QED BY <1>4, <1>5

LEMMA OpenedGood ==
  ASSUME NEW W, NEW p \in Peers, NEW i \in Slots, NEW m, TurnGood(W, p, m, {}), m.up, Live(Prime(m, i)), NEW packet, packet \in W.net[p],
         (i = TM_ACTIVE /\ Prime(m, i).remote = NoSid) \/ (i = TM_UNTRUSTED /\ Rested(p, m))
  PROVE  Decrypts(W, p, Opened(m, i, packet))
<1>p. PICK k : k = Prime(m, i) OBVIOUS
<1>s. PICK s : s = m.sess[i] OBVIOUS
<1>k. PICK k2 : k2 = [k EXCEPT !.remote = packet.sid, !.addr = TRUE] OBVIOUS
<1>a. PICK s2 : s2 = WithKey(s, k2) OBVIOUS
<1>m. PICK m2 : m2 = [m EXCEPT !.sess[i] = s2] OBVIOUS
<1>b. PICK s3 : s3 = IF i = TM_ACTIVE THEN Burst(s2) ELSE s2 OBVIOUS
<1>c. PICK m3 : m3 = IF i = TM_ACTIVE THEN [m2 EXCEPT !.sess[i] = s3] ELSE m2 OBVIOUS
<1>d. PICK m4 : m4 = Opened(m, i, packet) OBVIOUS
<1> USE <1>p, <1>s, <1>k, <1>a, <1>m, <1>b, <1>c, <1>d
<1>1. InTurn(W, p, i, m, k) BY InTurnIs
<1>2. MultiFine(m) /\ SessionFine(s) /\ k = s.keys[KS_PRIMARY] /\ KeyFields \subseteq DOMAIN k /\ i \in Sessions
  BY Zenon, <1>1 DEF InTurn, Shaped
<1>3. packet.sid # NoSid BY PacketKnown
<1>4. Meets(k, k2, packet.sid) BY <1>2 DEF Meets, Keeps, KeyFields
<1>5. p = Server => NoTextYet(k, <<m.sess[i].sid, k.keyId>>) BY NoText
<1>6. SetTo(m, m2, i, s2) BY <1>2, SetIs DEF MultiFine
<1>7. TurnGood(W, p, m2, {}) /\ m2.up /\ Live(Prime(m2, i)) /\ Prime(m2, i).remote = packet.sid /\ Prime(m2, i).addr
  <2>1. SetTo(m, m2, i, WithKey(m.sess[i], k2)) BY <1>6
  <2>2. Acquainted(W, p, i, m, m2, packet.sid) BY <1>3, <1>4, <1>5, <2>1, MeetGood
  <2> QED BY <2>2 DEF Acquainted
<1>8. m2.sess[i] = s2 BY <1>6 DEF SetTo
<1>9. SetTo(m2, m3, i, s3)
  <2>1. MultiFields \subseteq DOMAIN m2 /\ Sessions \subseteq DOMAIN m2.sess BY <1>6 DEF SetTo
  <2>2. CASE i = TM_ACTIVE
    <3>1. m3 = [m2 EXCEPT !.sess[i] = s3] BY ONLY <1>c, <2>2
    <3>2. SetTo(m2, [m2 EXCEPT !.sess[i] = s3], i, s3) BY ONLY <1>2, <2>1, SetIs
    <3> QED BY ONLY <3>1, <3>2
  <2>3. CASE i # TM_ACTIVE
    <3>1. m3 = m2 /\ s3 = s2 BY ONLY <1>b, <1>c, <2>3
    <3> QED BY <1>6, <2>1, <3>1 DEF SetTo
  <2> QED BY <2>2, <2>3
<1>10. TurnGood(W, p, m3, {}) /\ m3.up /\ Live(Prime(m3, i)) /\ Prime(m3, i).remote = packet.sid /\ Prime(m3, i).addr
  <2>1. CASE i = TM_ACTIVE
    <3>1. SetTo(m2, m3, i, Burst(m2.sess[i])) BY <1>8, <1>9, <2>1
    <3>2. Stays(W, p, i, m2, m3, Prime(m2, i)) BY <1>7, <3>1, BurstGood
    <3> QED BY <1>7, <3>2 DEF Stays
  <2>2. CASE i # TM_ACTIVE
    <3>1. m3 = m2 BY ONLY <1>c, <2>2
    <3> QED BY <1>7, <3>1
  <2> QED BY <2>1, <2>2
<1>11. SetTo(m3, m4, i, Delivered(m3.sess[i], packet)) /\ m4.up = m3.up
  <2>1. m3.sess[i] = s3 BY <1>9 DEF SetTo
  <2>2. s2 = [m.sess[i] EXCEPT !.keys[KS_PRIMARY].remote = packet.sid, !.keys[KS_PRIMARY].addr = TRUE]
    BY <1>2 DEF WithKey, SessionFine, SessionFields
  <2>6. s3 = IF i = TM_ACTIVE THEN Burst([m.sess[i] EXCEPT !.keys[KS_PRIMARY].remote = packet.sid, !.keys[KS_PRIMARY].addr = TRUE])
             ELSE [m.sess[i] EXCEPT !.keys[KS_PRIMARY].remote = packet.sid, !.keys[KS_PRIMARY].addr = TRUE]
    BY ONLY <1>b, <2>2
  <2>3. m4 = [m EXCEPT !.opened = TRUE, !.sess[i] = Delivered(s3, packet)] BY ONLY <1>d, <2>6 DEF Opened
  <2>4. /\ m3.n = m.n /\ m3.up = m.up /\ \A j \in Sessions : j # i => m3.sess[j] = m.sess[j]
    BY <1>6, <1>9 DEF SetTo
  <2>5. /\ m4.n = m.n /\ m4.up = m.up /\ m4.sess[i] = Delivered(s3, packet) /\ MultiFields \subseteq DOMAIN m4
        /\ Sessions \subseteq DOMAIN m4.sess /\ \A j \in Sessions : j # i => m4.sess[j] = m.sess[j]
    BY ONLY <1>2, <2>3 DEF MultiFine, MultiFields
  <2>7. m4.sess[i] = Delivered(m3.sess[i], packet) BY ONLY <2>1, <2>5
  <2>8. \A j \in Sessions : j # i => m4.sess[j] = m3.sess[j] BY ONLY <2>4, <2>5
  <2> QED BY ONLY <2>4, <2>5, <2>7, <2>8 DEF SetTo
<1>12. TurnGood(W, p, m4, {})
  <2>1. Reaches(W, p, m3, i, packet) BY <1>3, <1>10 DEF Reaches
  <2> QED BY ONLY p \in Peers, i \in Slots, <1>10, <1>11, <2>1, DeliveredGood
<1> QED BY <1>10, <1>11, <1>12 DEF Decrypts

LEMMA ContinuedGood ==
  ASSUME NEW W, NEW p \in Peers, NEW i \in Slots, NEW m, TurnGood(W, p, m, {}), m.up, NEW packet,
         Reaches(W, p, m, i, packet), m.sess[i].nextKey < KeyIdMask
  PROVE  Decrypts(W, p, Continued(p, m, i, packet))
<1> PICK k : k = Prime(m, i) OBVIOUS
<1> PICK s : s = m.sess[i] OBVIOUS
<1> DEFINE renew == packet.op = "softReset" /\ DecryptKeyEnabled(p, s.keys[KS_PRIMARY])
           answer == packet.op = "softReset" /\ ~renew
<1> PICK s2 : s2 = IF renew THEN SoftReset(s) ELSE IF answer THEN Burst(s) ELSE s OBVIOUS
<1> PICK m2 : m2 = IF s2 = s THEN m ELSE [m EXCEPT !.sess[i] = s2] OBVIOUS
<1> PICK m3 : m3 = Continued(p, m, i, packet) OBVIOUS
<1>1. Live(k) /\ InTurn(W, p, i, m, k) BY InTurnIs DEF Reaches
<1>2. MultiFine(m) /\ SessionFine(s) /\ k = s.keys[KS_PRIMARY] /\ i \in Sessions BY <1>1 DEF InTurn
<1>3. SetTo(m, m2, i, s2)
  <2>1. CASE s2 = s BY <1>2, <2>1 DEF MultiFine, SetTo
  <2>2. CASE s2 # s BY <1>2, <2>2, SetIs DEF MultiFine
  <2> QED BY <2>1, <2>2
<1>4. TurnGood(W, p, m2, {}) /\ m2.up = m.up /\ Live(Prime(m2, i)) /\ Prime(m2, i).remote = k.remote /\ Prime(m2, i).addr = k.addr
  <2>1. CASE s2 = SoftReset(s)
    <3>1. SetTo(m, m2, i, SoftReset(m.sess[i])) BY <1>3, <2>1
    <3>2. Stays(W, p, i, m, m2, k) BY <1>1, <3>1, SoftResetGood
    <3> QED BY <3>2 DEF Stays
  <2>2. CASE s2 = Burst(s)
    <3>1. SetTo(m, m2, i, Burst(m.sess[i])) BY <1>3, <2>2
    <3>2. Stays(W, p, i, m, m2, k) BY <1>1, <3>1, BurstGood
    <3> QED BY <3>2 DEF Stays
  <2>3. CASE s2 = s
    <3>1. m2 = m BY <2>3
    <3> QED BY <1>1, <3>1
  <2> QED BY <2>1, <2>2, <2>3
<1>5. m3 = [m EXCEPT !.sess[i] = Delivered(s2, packet)] BY DEF Continued
<1>6. SetTo(m, m3, i, Delivered(s2, packet)) BY <1>2, <1>5, SetIs DEF MultiFine
<1>7. SetTo(m2, m3, i, Delivered(m2.sess[i], packet)) /\ m3.up = m.up BY <1>3, <1>6 DEF SetTo
<1>8. Reaches(W, p, m2, i, packet) BY <1>4 DEF Reaches
<1>9. TurnGood(W, p, m3, {}) BY <1>4, <1>7, <1>8, DeliveredGood
<1> QED BY <1>7, <1>9 DEF Decrypts

LEMMA PreDecryptGood ==
  ASSUME NEW W, NEW p \in Peers, NEW m, TurnGood(W, p, m, {}), m.up, Rested(p, m), NEW packet, packet \in W.net[p],
         \A i \in Slots : Live(Prime(m, i)) => m.sess[i].nextKey < KeyIdMask
  PROVE  Decrypts(W, p, PreDecrypt(p, m, packet))
<1> PICK i : i = SessionOf(m, packet) OBVIOUS
<1> PICK opened : opened = SessionOpened(m, packet) OBVIOUS
<1>1. PreDecrypt(p, m, packet) = IF opened # 0 THEN Opened(m, opened, packet)
           ELSE IF i \in {TM_ACTIVE, TM_UNTRUSTED} /\ m.sess[i].keys[KS_PRIMARY].addr
           THEN Continued(p, m, i, packet)
      ELSE m
  BY DEF PreDecrypt
<1>2. CASE opened # 0
  <2>1. \/ opened = TM_ACTIVE /\ Prime(m, TM_ACTIVE).remote = NoSid
        \/ opened = TM_UNTRUSTED /\ ~SingleSession
    BY <1>2 DEF SessionOpened, Prime
  <2>2. opened \in Slots /\ Live(Prime(m, opened)) BY <2>1 DEF Slots, TurnGood, MultiFine
  <2>3. Decrypts(W, p, Opened(m, opened, packet)) BY <2>1, <2>2, OpenedGood
  <2> QED BY <1>1, <1>2, <2>3
<1>3. CASE opened = 0 /\ i \in {TM_ACTIVE, TM_UNTRUSTED} /\ m.sess[i].keys[KS_PRIMARY].addr
  <2>1. i \in Slots /\ Prime(m, i).addr BY <1>3 DEF Slots, Prime
  <2>2. Prime(m, i).remote = packet.sid
    <3>1. i # 0 BY <1>3
    <3> DEFINE known == {j \in Sessions : m.sess[j].keys[KS_PRIMARY].remote = packet.sid}
    <3>2. known # {} /\ i = Min(known) BY <3>1 DEF SessionOf
    <3>3. known \in SUBSET Nat BY DEF Sessions
    <3>4. i \in known BY Zenon, <3>2, <3>3, Least
    <3> QED BY <3>4 DEF Prime
  <2>3. packet.sid # NoSid BY PacketKnown
  <2>4. Live(Prime(m, i))
    <3>1. Prime(m, i) # Undef BY <2>1 DEF Undef, KeyState
    <3>2. SessionGood(W, p, m, i) BY <2>1, <3>1, SessionIs DEF TurnGood
    <3> QED BY <3>2 DEF SessionGood
  <2>5. Reaches(W, p, m, i, packet) BY <2>1, <2>2, <2>3, <2>4 DEF Reaches
  <2>6. Decrypts(W, p, Continued(p, m, i, packet)) BY <2>1, <2>4, <2>5, ContinuedGood
  <2> QED BY <1>1, <1>3, <2>6
<1>4. CASE opened = 0 /\ ~(i \in {TM_ACTIVE, TM_UNTRUSTED} /\ m.sess[i].keys[KS_PRIMARY].addr)
  BY <1>1, <1>4 DEF Decrypts
<1> QED BY <1>2, <1>3, <1>4

(* Between turns: a peer that starts again, and what a turn starts from and ends in. *)

LEMMA NewMultiIs ==
  ASSUME NEW p, NEW n, NEW m, m = NewMulti(p, n)
  PROVE  /\ PeerRest(p, m) /\ m.up /\ m.n = (IF SingleSession THEN n + 1 ELSE n + 2)
         /\ m.sess[TM_ACTIVE] = NewSession(p, n + 1) /\ m.sess[TM_LAME_DUCK] = NoSession
         /\ m.sess[TM_UNTRUSTED] = (IF SingleSession THEN NoSession ELSE NewSession(p, n + 2))
<1>1. /\ m.n = (IF SingleSession THEN n + 1 ELSE n + 2) /\ m.up = TRUE /\ MultiFields \subseteq DOMAIN m
      /\ m.sess = <<NewSession(p, n + 1), IF SingleSession THEN NoSession ELSE NewSession(p, n + 2), NoSession>>
  BY DEF NewMulti, MultiFields
<1> PICK a, b, c : a = NewSession(p, n + 1) /\ b = (IF SingleSession THEN NoSession ELSE NewSession(p, n + 2)) /\ c = NoSession
  OBVIOUS
<1>2. m.sess[TM_ACTIVE] = a /\ m.sess[TM_UNTRUSTED] = b /\ m.sess[TM_LAME_DUCK] = c /\ Sessions \subseteq DOMAIN m.sess
  <2>1. m.sess = <<a, b, c>> BY <1>1
  <2> QED BY <2>1 DEF Sessions
<1>3. SessionFine(a) /\ SessionFine(b) /\ SessionFine(c) /\ Live(a.keys[KS_PRIMARY]) /\ Flushed(p, a.keys[KS_PRIMARY])
      /\ (~SingleSession => Live(b.keys[KS_PRIMARY])) /\ (Live(b.keys[KS_PRIMARY]) => Flushed(p, b.keys[KS_PRIMARY]))
  BY FreshFine, NoSessionIs, UndefIs DEF SessionFine, SessionFields
<1>4. c.keys[KS_PRIMARY] = Undef /\ "state" \in DOMAIN Undef /\ Undef.state = S_UNDEF
  BY NoSessionIs DEF Undef, KeyState
<1>5. MultiFine(m) BY <1>1, <1>2, <1>3, <1>4, SlotsAre DEF MultiFine, Prime, Sessions
<1>6. a.nextKey < KeyIdMask /\ b.nextKey < KeyIdMask BY NewSessionIs DEF KeyIdMask, NoSession
<1>7. Rested(p, m)
  <2>f. ASSUME NEW k, k = KeyState(S_INITIAL, 0, HardReset(p)) PROVE Idle(p, k) /\ k.recNext = 0 /\ ~DecryptKeyEnabled(p, k)
    <3>1. k.recNext = 0 /\ k.rec = {} /\ k.state = S_INITIAL BY <2>f DEF KeyState
    <3> QED BY <3>1 DEF Idle, InOrder, DecryptKeyEnabled
  <2>a. Idle(p, Prime(m, TM_ACTIVE)) BY <1>2, <2>f, NewSessionIs DEF Prime
  <2>1. b.keys[KS_PRIMARY] = Undef \/ b.keys[KS_PRIMARY] = KeyState(S_INITIAL, 0, HardReset(p))
    BY NoSessionIs, NewSessionIs
  <2>2. CASE b.keys[KS_PRIMARY] = Undef BY <1>2, <2>2, <2>a, UndefIs, SlotsAre DEF Rested, Prime
  <2>3. CASE b.keys[KS_PRIMARY] = KeyState(S_INITIAL, 0, HardReset(p))
    <3>1. Idle(p, Prime(m, TM_UNTRUSTED)) /\ Prime(m, TM_UNTRUSTED).recNext = 0 /\ ~DecryptKeyEnabled(p, Prime(m, TM_UNTRUSTED))
      BY <1>2, <2>3, <2>f DEF Prime
    <3> QED BY <2>a, <3>1, SlotsAre DEF Rested, Idle
  <2> QED BY <2>1, <2>2, <2>3
<1> QED BY <1>1, <1>2, <1>3, <1>5, <1>6, <1>7, SlotsAre DEF PeerRest, Prime, Gone

LEMMA NewMultiGood ==
  ASSUME NEW W, NEW p \in Peers, NEW m, TurnGood(W, p, m, {}), NEW n, n = m.n
  PROVE  TurnGood(W, p, NewMulti(p, n), {})
<1> PICK d, m3 : d = Down(n) /\ m3 = NewMulti(p, n) OBVIOUS
<1>1. TurnGood(W, p, d, {}) /\ d.n = n /\ \A i \in Sessions : d.sess[i] = NoSession /\ Prime(d, i) = Undef
  BY DownGood, DownIs
<1>2. n \in Nat /\ Good(Put(W, p, d, {})) BY <1>1, SessionIs, SlotsAre DEF TurnGood
<1>3. PeerRest(p, m3) /\ m3.sess[TM_ACTIVE] = NewSession(p, n + 1) /\ m3.n = (IF SingleSession THEN n + 1 ELSE n + 2)
      /\ m3.sess[TM_UNTRUSTED] = (IF SingleSession THEN NoSession ELSE NewSession(p, n + 2))
  BY NewMultiIs
<1> PICK n1, n2, s1 : n1 = n + 1 /\ n2 = n + 2 /\ s1 = NewSession(p, n1) OBVIOUS
<1> PICK m1 : m1 = [n |-> n1, sess |-> [i \in Sessions |-> IF i = TM_ACTIVE THEN s1 ELSE NoSession]] OBVIOUS
<1>4. m1.n = n1 /\ m1.sess[TM_ACTIVE] = s1 /\ m1.sess[TM_UNTRUSTED] = NoSession BY DEF Sessions
<1>5. Good(Put(W, p, m1, {}))
  <2>1. ButSession(d, m1, TM_ACTIVE) BY <1>1, <1>4, SlotsAre DEF ButSession, Prime
  <2>2. n1 = d.n + 1 /\ m1.sess[TM_ACTIVE] = NewSession(p, n1) /\ TM_ACTIVE \in Slots BY <1>1, <1>4, SlotsAre
  <2> QED BY ONLY p \in Peers, <1>2, <1>4, <2>1, <2>2, PutOpened
<1>6. Good(Put(W, p, m3, {}))
  <2>1. CASE SingleSession
    <3>1. Alike(m1, m3) BY <1>3, <1>4, <2>1, SlotsAre DEF Alike, Prime
    <3> QED BY <1>5, <3>1, AlikeGood
  <2>2. CASE ~SingleSession
    <3>1. ButSession(m1, m3, TM_UNTRUSTED) BY <1>3, <1>4, SlotsAre DEF ButSession, Prime
    <3>2. n2 = m1.n + 1 /\ m3.n = n2 /\ m3.sess[TM_UNTRUSTED] = NewSession(p, n2) /\ TM_UNTRUSTED \in Slots
      BY <1>2, <1>3, <1>4, <2>2, SlotsAre
    <3> QED BY ONLY p \in Peers, <1>5, <3>1, <3>2, PutOpened
  <2> QED BY <2>1, <2>2
<1> QED BY <1>3, <1>6 DEF TurnGood, PeerRest

LEMMA WorldIs ==
  ASSUME NEW mu, NEW nw, NEW w, NEW r
  PROVE  IsWorldOf(WorldOf(mu, nw, w, r), mu, nw, w, r)
BY DEF WorldOf, IsWorldOf

LEMMA TurnStarts ==
  ASSUME NEW mu, NEW nw, NEW w, NEW r, OrderFine(mu, nw, w, r), NEW p \in Peers
  PROVE  MayTurn(WorldOf(mu, nw, w, r), p, mu[p])
<1> PICK W, V : W = WorldOf(mu, nw, w, r) /\ V = Put(W, p, mu[p], {}) OBVIOUS
<1>1. IsWorldOf(W, mu, nw, w, r) /\ Puts(V, W, p, mu[p], {}) /\ Good(W) BY WorldIs, PutIs DEF OrderFine
<1>2. Other(p) \in Peers /\ Other(p) # p /\ \A a \in Peers : a = p \/ a = Other(p) BY PeersAre
<1>3. Good(V)
  <2>1. \A j \in Slots : V.key[p][j] = W.key[p][j] /\ V.sid[p][j] = W.sid[p][j] /\ V.nk[p][j] = W.nk[p][j]
    BY <1>1 DEF IsWorldOf, Puts
  <2>2. \A j \in Slots : V.key[Other(p)][j] = W.key[Other(p)][j] /\ V.sid[Other(p)][j] = W.sid[Other(p)][j] /\ V.nk[Other(p)][j] = W.nk[Other(p)][j]
    BY <1>1 DEF Puts
  <2>3. V.n[p] = W.n[p] /\ V.n[Other(p)] = W.n[Other(p)] /\ V.written = W.written /\ V.received = W.received
        /\ V.net[p] = W.net[p] /\ V.net[Other(p)] = W.net[Other(p)]
    BY <1>1 DEF IsWorldOf, Puts
  <2>4. \A a \in Peers, j \in Slots : V.key[a][j] = W.key[a][j] /\ V.sid[a][j] = W.sid[a][j] /\ V.nk[a][j] = W.nk[a][j]
    BY <1>2, <2>1, <2>2
  <2>5. \A a \in Peers : /\ V.n[a] = W.n[a] /\ V.received[a] = W.received[a] /\ V.written[a] = W.written[a]
                         /\ V.net[a] \subseteq W.net[a]
    BY <1>2, <2>3
  <2> QED BY <1>1, <2>4, <2>5, SameGood
<1>4. Resting(W, Other(p))
  <2>1. W.key[Other(p)][TM_UNTRUSTED] = Prime(mu[Other(p)], TM_UNTRUSTED)
    BY <1>1, <1>2, SlotsAre DEF IsWorldOf
  <2>2. Rested(Other(p), mu[Other(p)]) BY <1>2 DEF OrderFine, PeerRest
  <2> QED BY <2>1, <2>2 DEF Rested, Resting
<1>5. TurnGood(W, p, mu[p], {}) BY <1>3 DEF TurnGood, OrderFine, PeerRest
<1> QED BY <1>4, <1>5 DEF MayTurn

\* Fewer packets are on their way.
LEMMA FewerPackets ==
  ASSUME NEW mu, NEW nw, NEW w, NEW r, OrderFine(mu, nw, w, r), NEW p \in Peers, NEW rest, Queue(rest), OnWay(rest) \subseteq OnWay(nw[p])
  PROVE  OrderFine(mu, [nw EXCEPT ![p] = rest], w, r)
<1> PICK nw2 : nw2 = [nw EXCEPT ![p] = rest] OBVIOUS
<1> PICK W, V : W = WorldOf(mu, nw, w, r) /\ V = WorldOf(mu, nw2, w, r) OBVIOUS
<1>1. IsWorldOf(W, mu, nw, w, r) /\ IsWorldOf(V, mu, nw2, w, r) /\ Good(W) BY WorldIs DEF OrderFine
<1>2. DOMAIN nw2 = Peers /\ nw2[p] = rest /\ \A a \in Peers : a # p => nw2[a] = nw[a] BY DEF OrderFine
<1>3. Good(V)
  <2>1. \A a \in Peers, j \in Slots : V.key[a][j] = W.key[a][j] /\ V.sid[a][j] = W.sid[a][j] /\ V.nk[a][j] = W.nk[a][j]
    BY ONLY <1>1 DEF IsWorldOf
  <2>2. \A a \in Peers : V.net[a] \subseteq W.net[a]
    BY ONLY <1>1, <1>2, OnWay(rest) \subseteq OnWay(nw[p]) DEF IsWorldOf
  <2>3. \A a \in Peers : /\ V.n[a] = W.n[a] /\ V.received[a] = W.received[a] /\ V.written[a] = W.written[a]
                         /\ V.net[a] \subseteq W.net[a]
    BY ONLY <1>1, <2>2 DEF IsWorldOf
  <2> QED BY ONLY <1>1, <2>1, <2>3, SameGood
<1>4. \A a \in Peers : PeerRest(a, mu[a]) /\ Queue(nw2[a]) BY <1>2 DEF OrderFine
<1>5. OrderFine(mu, nw2, w, r) BY <1>2, <1>3, <1>4 DEF OrderFine
<1> QED BY <1>5

\* A turn is over: x is what tls_multi_process() has made of peer p.
LEMMA TurnEnds ==
  ASSUME NEW mu, NEW nw, NEW w, NEW r, NEW w2, NEW r2, OrderFine(mu, nw, w, r), DOMAIN w2 = Peers, DOMAIN r2 = Peers,
         NEW p \in Peers, NEW x, CallGood(WorldOf(mu, nw, w2, r2), p, x), x.again => ~x.m.up, MaxKeyId <= 5,
         \A i \in Sessions : x.m.sess[i].nextKey <= MaxKeyId + 1,
         NEW rest, Queue(rest), OnWay(rest) \subseteq OnWay(nw[p])
  PROVE  OrderFine([mu EXCEPT ![p] = x.m], [nw EXCEPT ![p] = rest, ![Other(p)] = nw[Other(p)] \o x.sent], w2, r2)
<1> PICK mu2, nw2 : mu2 = [mu EXCEPT ![p] = x.m] /\ nw2 = [nw EXCEPT ![p] = rest, ![Other(p)] = nw[Other(p)] \o x.sent]
  OBVIOUS
<1> PICK W, V, U : W = WorldOf(mu, nw, w2, r2) /\ U = Put(W, p, x.m, OnWay(x.sent)) /\ V = WorldOf(mu2, nw2, w2, r2)
  OBVIOUS
<1> PICK q : q = Other(p) OBVIOUS
<1>1. q \in Peers /\ q # p /\ \A a \in Peers : a = p \/ a = q BY PeersAre
<1>2. DOMAIN mu2 = Peers /\ DOMAIN nw2 = Peers /\ mu2[p] = x.m /\ mu2[q] = mu[q] /\ nw2[p] = rest /\ nw2[q] = nw[q] \o x.sent
  BY <1>1 DEF OrderFine
<1>3. IsWorldOf(W, mu, nw, w2, r2) /\ IsWorldOf(V, mu2, nw2, w2, r2) /\ Puts(U, W, p, x.m, OnWay(x.sent))
  BY WorldIs, PutIs
<1>4. Good(U) /\ MultiFine(x.m) /\ Queue(x.sent) /\ \A i \in Slots : Live(Prime(x.m, i)) => Flushed(p, Prime(x.m, i))
  BY DEF CallGood, TurnGood
<1>5. Queue(nw2[q]) /\ OnWay(nw2[q]) = OnWay(nw[q]) \cup OnWay(x.sent)
  BY <1>1, <1>2, <1>4, OnWayIs DEF OrderFine
<1>6. Good(V)
  <2>1. \A j \in Slots : V.key[p][j] = U.key[p][j] /\ V.sid[p][j] = U.sid[p][j] /\ V.nk[p][j] = U.nk[p][j]
    BY ONLY q = Other(p), p \in Peers, <1>2, <1>3 DEF IsWorldOf, Puts
  <2>2. \A j \in Slots : V.key[q][j] = U.key[q][j] /\ V.sid[q][j] = U.sid[q][j] /\ V.nk[q][j] = U.nk[q][j]
    BY ONLY q = Other(p), p \in Peers, <1>1, <1>2, <1>3 DEF IsWorldOf, Puts
  <2>3. V.n[p] = U.n[p] /\ V.n[q] = U.n[q] /\ V.written = U.written /\ V.received = U.received
    BY ONLY q = Other(p), p \in Peers, <1>1, <1>2, <1>3 DEF IsWorldOf, Puts
  <2>4. V.net[p] \subseteq U.net[p] /\ V.net[q] \subseteq U.net[q]
    <3>1. V.net[p] = OnWay(rest) /\ V.net[q] = OnWay(nw2[q]) /\ W.net[p] = OnWay(nw[p]) /\ W.net[q] = OnWay(nw[q])
      BY ONLY p \in Peers, <1>1, <1>2, <1>3 DEF IsWorldOf
    <3>2. U.net[p] = W.net[p] /\ U.net[q] = W.net[q] \cup OnWay(x.sent)
      BY ONLY q = Other(p), p \in Peers, <1>3 DEF Puts
    <3>3. V.net[p] \subseteq U.net[p] BY <3>1, <3>2
    <3>4. V.net[q] = U.net[q] BY <1>5, <3>1, <3>2
    <3> QED BY <3>3, <3>4
  <2>5. \A a \in Peers, j \in Slots : V.key[a][j] = U.key[a][j] /\ V.sid[a][j] = U.sid[a][j] /\ V.nk[a][j] = U.nk[a][j]
    BY ONLY q = Other(p), p \in Peers, <1>1, <2>1, <2>2
  <2>6. \A a \in Peers : /\ V.n[a] = U.n[a] /\ V.received[a] = U.received[a] /\ V.written[a] = U.written[a]
                         /\ V.net[a] \subseteq U.net[a]
    BY ONLY q = Other(p), p \in Peers, <1>1, <2>3, <2>4
  <2> QED BY ONLY q = Other(p), p \in Peers, <1>4, <2>5, <2>6, SameGood
<1>7. PeerRest(p, x.m)
  <2>1. Rested(p, x.m)
    <3>1. CASE x.m.up BY <3>1 DEF CallGood
    <3>2. CASE ~x.m.up BY <3>2, SlotsAre DEF CallGood, Gone, Rested
    <3> QED BY <3>1, <3>2
  <2>2. ASSUME NEW i \in Slots, Live(Prime(x.m, i)) PROVE x.m.sess[i].nextKey < KeyIdMask
    <3>1. x.m.sess[i].nextKey <= MaxKeyId + 1 BY SlotsAre
    <3>2. x.m.sess[i].nextKey \in Int
      <4>1. (Prime(x.m, i) = Undef /\ x.m.sess[i].sid = NoSid) \/ SessionGood(W, p, x.m, i) BY <1>4, SessionIs
      <4> QED BY <2>2, <4>1, UndefIs DEF SessionGood
    <3> QED BY <3>1, <3>2, BoundsAssumption DEF KeyIdMask
  <2> QED BY <1>4, <2>1, <2>2 DEF PeerRest, CallGood
<1>8. \A a \in Peers : PeerRest(a, mu2[a]) /\ Queue(nw2[a])
  <2>1. PeerRest(q, mu2[q]) BY <1>1, <1>2 DEF OrderFine
  <2> QED BY <1>1, <1>2, <1>5, <1>7, <2>1
<1>9. OrderFine(mu2, nw2, w2, r2) BY <1>2, <1>6, <1>8 DEF OrderFine
<1> QED BY <1>9

(* The retransmission time comes. *)

\* Everything is due again.
LEMMA DueIs ==
  ASSUME NEW s, SessionFine(s), NEW k, k = s.keys[KS_PRIMARY], NEW s2, s2 = Due(s)
  PROVE  /\ SessionFine(s2) /\ s2.sid = s.sid /\ s2.nextKey = s.nextKey
         /\ s2.keys[KS_PRIMARY] = [k EXCEPT !.due = Packets(k)]
<1>1. s2 = [s EXCEPT !.keys[KS_PRIMARY].due = Packets(s.keys[KS_PRIMARY])] BY DEF Due
<1>2. SessionFine(s2) /\ s2.sid = s.sid /\ s2.nextKey = s.nextKey BY <1>1 DEF SessionFine, SessionFields
<1>3. s2.keys[KS_PRIMARY] = [k EXCEPT !.due = Packets(k)] BY <1>1 DEF SessionFine, SessionFields
<1> QED BY <1>2, <1>3

LEMMA UndefIsDue ==
  [Undef EXCEPT !.due = Packets(Undef)] = Undef
<1>1. Packets(Undef) = {} BY UndefIs DEF Packets
<1>2. Undef.due = {} BY DEF Undef, KeyState
<1>3. Undef = [f \in DOMAIN Undef |-> Undef[f]] BY DEF Undef, KeyState
<1>4. [Undef EXCEPT !.due = {}] = [f \in DOMAIN Undef |-> IF f = "due" THEN {} ELSE Undef[f]] BY <1>3
<1>5. [f \in DOMAIN Undef |-> IF f = "due" THEN {} ELSE Undef[f]] = [f \in DOMAIN Undef |-> Undef[f]] BY <1>2
<1> QED BY <1>1, <1>3, <1>4, <1>5

LEMMA DueGood ==
  ASSUME NEW W, NEW p \in Peers, NEW i \in Slots, NEW m, NEW m2, TurnGood(W, p, m, {}),
         SetTo(m, m2, i, Due(m.sess[i]))
  PROVE  DueAgain(W, p, m, m2)
<1>s. PICK s : s = m.sess[i] OBVIOUS
<1>t. PICK s2 : s2 = Due(s) OBVIOUS
<1>k. PICK k : k = s.keys[KS_PRIMARY] OBVIOUS
<1>l. PICK k2 : k2 = s2.keys[KS_PRIMARY] OBVIOUS
<1>1. MultiFine(m) /\ SessionFine(s) /\ k = Prime(m, i) /\ Good(Put(W, p, m, {}))
  BY <1>s, <1>k, SlotsAre DEF TurnGood, MultiFine, Prime
<1>2. SessionFine(s2) /\ s2.sid = s.sid /\ s2.nextKey = s.nextKey /\ k2 = [k EXCEPT !.due = Packets(k)]
  BY ONLY <1>1, <1>t, <1>k, <1>l, DueIs
<1>3. SetTo(m, m2, i, s2) BY <1>s, <1>t
<1>4. CASE Live(k)
  <2>1. InTurn(W, p, i, m, k) BY <1>1, <1>4, InTurnIs
  <2>2. KeyFields \subseteq DOMAIN k /\ Holds(Put(W, p, m, {}), p, i, k, {}) BY <2>1 DEF InTurn, Shaped
  <2>3. Keeps(k, k2, {"due"}) /\ k2.due \subseteq Packets(k) BY <1>2, <2>2 DEF Keeps, KeyFields
  <2>4. Holds(Put(W, p, m, {}), p, i, k2, {}) BY <2>2, <2>3, DueHolds
  <2>5. Keeps(k, k2, Envelope) BY <2>3 DEF Keeps, Envelope
  <2>6. s2.sid = m.sess[i].sid /\ s2.nextKey = m.sess[i].nextKey /\ SessionFine(s2) BY <1>s, <1>2
  <2>7. p \in Peers /\ i \in Slots /\ TurnGood(W, p, m, {}) OBVIOUS
  <2>8. TurnGood(W, p, m2, {}) /\ m2.up = m.up BY ONLY <1>l, <1>3, <2>1, <2>4, <2>5, <2>6, <2>7, SetGood
  <2> QED BY <2>8 DEF DueAgain
<1>5. CASE ~Live(k)
  <2>1. k = Undef
    <3>1. Good(Put(W, p, m, {})) /\ p \in Peers /\ i \in Slots /\ ~Live(Prime(m, i)) /\ k = Prime(m, i)
      BY <1>1, <1>5
    <3> QED BY ONLY <3>1, SessionIs DEF SessionGood
  <2>2. k2 = k BY <1>2, <2>1, UndefIsDue
  <2>3. /\ MultiFields \subseteq DOMAIN m2 /\ Sessions \subseteq DOMAIN m2.sess
        /\ m2.n = m.n /\ m2.up = m.up /\ m2.sess[i] = s2 /\ \A j \in Sessions : j # i => m2.sess[j] = m.sess[j]
    BY <1>3 DEF SetTo
  <2>4. Prime(m2, i) = Prime(m, i) /\ m2.sess[i].sid = m.sess[i].sid /\ m2.sess[i].nextKey = m.sess[i].nextKey
    BY <1>s, <1>l, <1>1, <1>2, <2>2, <2>3 DEF Prime
  <2>5. \A j \in Sessions : Prime(m2, j) = Prime(m, j) /\ m2.sess[j].sid = m.sess[j].sid /\ m2.sess[j].nextKey = m.sess[j].nextKey
                            /\ SessionFine(m2.sess[j])
    BY <1>1, <1>2, <2>3, <2>4 DEF Prime, MultiFine
  <2>6. Alike(m, m2) BY <2>3, <2>5, SlotsAre DEF Alike
  <2>7. Good(Put(W, p, m2, {})) BY <1>1, <2>6, AlikeGood
  <2>8. MultiFine(m2) BY <1>1, <2>3, <2>5, SlotsAre DEF MultiFine
  <2> QED BY <2>3, <2>5, <2>7, <2>8, SlotsAre DEF TurnGood, DueAgain
<1> QED BY <1>4, <1>5

LEMMA ElapseGood ==
  ASSUME NEW W, NEW p \in Peers, NEW m, TurnGood(W, p, m, {}), m.up
  PROVE  Decrypts(W, p, [m EXCEPT !.sess[TM_ACTIVE] = Due(@), !.sess[TM_UNTRUSTED] = Due(@)])
<1>a. PICK a : a = Due(m.sess[TM_ACTIVE]) OBVIOUS
<1>b. PICK b : b = Due(m.sess[TM_UNTRUSTED]) OBVIOUS
<1>c. PICK m1 : m1 = [m EXCEPT !.sess[TM_ACTIVE] = a] OBVIOUS
<1>d. PICK m2 : m2 = [m EXCEPT !.sess[TM_ACTIVE] = a, !.sess[TM_UNTRUSTED] = b] OBVIOUS
<1>1. MultiFields \subseteq DOMAIN m /\ Sessions \subseteq DOMAIN m.sess BY DEF TurnGood, MultiFine
<1>2. SetTo(m, m1, TM_ACTIVE, a) BY <1>c, <1>1, SetIs, SlotsAre
<1>3. m2 = [m1 EXCEPT !.sess[TM_UNTRUSTED] = b] BY <1>c, <1>d, <1>1 DEF MultiFields
<1>4. SetTo(m1, m2, TM_UNTRUSTED, b)
  <2>1. MultiFields \subseteq DOMAIN m1 /\ Sessions \subseteq DOMAIN m1.sess /\ TM_UNTRUSTED \in Sessions
    BY <1>2, SlotsAre DEF SetTo
  <2>2. SetTo(m1, [m1 EXCEPT !.sess[TM_UNTRUSTED] = b], TM_UNTRUSTED, b) BY ONLY <2>1, SetIs
  <2> QED BY ONLY <1>3, <2>2
<1>5. SetTo(m, m1, TM_ACTIVE, Due(m.sess[TM_ACTIVE])) /\ SetTo(m1, m2, TM_UNTRUSTED, Due(m1.sess[TM_UNTRUSTED]))
  <2>1. m1.sess[TM_UNTRUSTED] = m.sess[TM_UNTRUSTED] BY <1>2, SlotsAre DEF SetTo
  <2> QED BY <1>a, <1>b, <1>2, <1>4, <2>1
<1>s. p \in Peers /\ TM_ACTIVE \in Slots /\ TM_UNTRUSTED \in Slots /\ TurnGood(W, p, m, {}) BY SlotsAre
<1>6. DueAgain(W, p, m, m1) BY ONLY <1>5, <1>s, DueGood
<1>e. TurnGood(W, p, m1, {}) BY <1>6 DEF DueAgain
<1>7. DueAgain(W, p, m1, m2) BY ONLY <1>5, <1>s, <1>e, DueGood
<1>8. Decrypts(W, p, m2) BY <1>6, <1>7 DEF Decrypts, DueAgain
<1>9. m2 = [m EXCEPT !.sess[TM_ACTIVE] = Due(@), !.sess[TM_UNTRUSTED] = Due(@)]
  BY <1>a, <1>b, <1>d, <1>1 DEF MultiFields
<1> QED BY <1>8, <1>9

LEMMA TextsAppend ==
  ASSUME NEW pay \in Seq(Nat), NEW n \in Nat
  PROVE  Texts(Append(pay, n)) = Append(Texts(pay), <<"pay", n>>)
<1> PICK a, b : a = Append(pay, n) /\ b = Append(Texts(pay), <<"pay", n>>) OBVIOUS
<1>1. Len(pay) \in Nat /\ DOMAIN pay = 1..Len(pay) OBVIOUS
<1>2. a \in Seq(Nat) /\ DOMAIN a = 1..(Len(pay) + 1) /\ \A i \in DOMAIN a : a[i] = IF i <= Len(pay) THEN pay[i] ELSE n
  BY <1>1
<1>3. Texts(pay) \in Seq(Text) /\ Len(Texts(pay)) = Len(pay) /\ \A i \in DOMAIN pay : Texts(pay)[i] = <<"pay", pay[i]>>
  BY TextsAre
<1>4. <<"pay", n>> \in Text BY DEF Text
<1>5. b \in Seq(Text) /\ DOMAIN b = 1..(Len(pay) + 1) /\ \A i \in DOMAIN b : b[i] = IF i <= Len(pay) THEN Texts(pay)[i] ELSE <<"pay", n>>
  BY <1>3, <1>4
<1>6. \A i \in 1..(Len(pay) + 1) : <<"pay", a[i]>> = b[i] BY <1>1, <1>2, <1>3, <1>5
<1>7. Texts(a) = [i \in 1..(Len(pay) + 1) |-> <<"pay", a[i]>>] BY <1>2 DEF Texts
<1>8. b = [i \in 1..(Len(pay) + 1) |-> b[i]] BY <1>5
<1> QED BY <1>6, <1>7, <1>8

LEMMA KeyGiven ==
  ASSUME NEW p \in Peers, NEW k, NEW k2, NEW nm, NEW w \in Nat, NEW v \in Nat, KeyGood(p, k, nm, w, v), NEW n, n = w + 1, Given(k, k2, n)
  PROVE  KeyGood(p, k2, nm, n, v) /\ GivenAs(p, k, k2, n)
<1>1. n \in Nat /\ w <= n /\ v <= v /\ <<"pay", n>> \in Text BY DEF Text
<1>2. KeyGood(p, k, nm, n, v) BY <1>1, KeyGoodWider
<1>3. Shaped(k) /\ Sends(p, k, nm, n) /\ Receives(p, k, v) BY <1>2 DEF KeyGood
<1>4. k.state \in S_INITIAL..S_NORMAL_OP /\ k.tls.out \in Seq(Text) /\ k.pay \in Seq(Nat) BY <1>3 DEF Shaped
<1>5. CASE k.state >= S_ACTIVE /\ Keeps(k, k2, {"tls"}) /\ KeepsTls(k.tls, k2.tls, {"out"}) /\ k2.tls.out = Append(k.tls.out, <<"pay", n>>)
  <2>1. /\ KeyFields \subseteq DOMAIN k2 /\ k2.state = k.state /\ k2.keyId = k.keyId /\ k2.remote = k.remote /\ k2.addr = k.addr
        /\ k2.next = k.next /\ k2.recNext = k.recNext /\ k2.rec = k.rec /\ k2.acks = k.acks /\ k2.unacked = k.unacked /\ k2.due = k.due
        /\ k2.read = k.read /\ k2.write = k.write /\ k2.pay = k.pay
    BY <1>5 DEF Keeps, KeyFields
  <2>2. TlsFields \subseteq DOMAIN k2.tls /\ k2.tls.phase = k.tls.phase /\ k2.tls.peer = k.tls.peer /\ k2.tls.in = k.tls.in
    BY <1>5 DEF KeepsTls, TlsFields
  <2>3. k2.tls.out \in Seq(Text) BY <1>1, <1>4, <1>5
  <2>4. Shaped(k2) BY <1>3, <2>1, <2>2, <2>3 DEF Shaped
  <2>5. k.next >= 3 /\ k.write = <<>> /\ Pays(k.tls.out, n) /\ k.tls.phase = "done" /\ KeySent(p, k)
    BY <1>3, <1>4, <1>5 DEF Sends, KeySent
  <2>6. Pays(k2.tls.out, n)
    <3>1. IsPay(<<"pay", n>>, n) BY <1>1 DEF IsPay
    <3> QED BY <1>1, <1>4, <1>5, <2>5, <3>1, AppendPays
  <2>7. Packets(k2) = Packets(k) /\ Got(k2) = Got(k) /\ Hand(k2) = Hand(k) /\ (HelloSent(p, k2) <=> HelloSent(p, k))
        /\ (HelloRead(p, k2) <=> HelloRead(p, k)) /\ (KeySent(p, k2) <=> KeySent(p, k))
        /\ (DecryptKeyEnabled(p, k2) <=> DecryptKeyEnabled(p, k))
    BY <2>1, <2>2 DEF Packets, Got, Hand, HelloSent, HelloRead, KeySent, DecryptKeyEnabled
  <2>8. k.next \in Nat BY <1>3 DEF Shaped
  <2>9. Sends(p, k2, nm, n)
    <3>1. ~(k.next = 2) /\ ~(k.next <= 1) /\ KeySent(p, k2) /\ ~(k.state < S_ACTIVE)
      BY <1>4, <1>5, <2>5, <2>7, <2>8
    <3>2. /\ (\A u \in k.unacked : u.pid \in 0..(k.next - 1)) /\ (\A u \in k.unacked : (u.pid = 1 => u.body.from = nm))
          /\ (\A u \in k.unacked : (u.pid >= 2 => nm \in u.body.conn))
          /\ (k.state = S_INITIAL => k.next = 0) /\ (k.state > S_INITIAL => k.next >= 1) /\ k.due \subseteq Packets(k)
      BY <1>3 DEF Sends
    <3>3. /\ IF HelloSent(p, k) THEN k.state >= S_START /\ k.next >= 2 ELSE k.next <= 1
          /\ k.pay = <<>> /\ \A u \in k.unacked : u.pid >= 3
          /\ \A i \in DOMAIN k.pay : k.pay[i] \in 1..n
      BY <1>3, <1>5 DEF Sends
    <3>4. k2.next = k.next /\ k2.state = k.state /\ k2.unacked = k.unacked /\ k2.pay = k.pay /\ k2.write = <<>>
          /\ k2.tls.phase = "done" /\ k2.due \subseteq Packets(k2) /\ (HelloSent(p, k2) <=> HelloSent(p, k))
          /\ KeySent(p, k2) /\ k2.state >= S_ACTIVE /\ k2.next >= 3 /\ Pays(k2.tls.out, n)
      BY <1>5, <2>1, <2>2, <2>5, <2>6, <2>7, <3>1, <3>2
    <3>5. /\ k2.next = 2 /\ KeySent(p, k2) => FALSE
          /\ k2.next <= 1 /\ KeySent(p, k2) => FALSE
          /\ k2.state < S_ACTIVE => FALSE
      BY <3>1, <3>4
    <3>6. /\ (\A u \in k2.unacked : u.pid \in 0..(k2.next - 1)) /\ (\A u \in k2.unacked : (u.pid = 1 => u.body.from = nm))
          /\ (\A u \in k2.unacked : (u.pid >= 2 => nm \in u.body.conn))
          /\ (k2.state = S_INITIAL => k2.next = 0) /\ (k2.state > S_INITIAL => k2.next >= 1)
          /\ (\A i \in DOMAIN k2.pay : k2.pay[i] \in 1..n)
      BY ONLY <3>2, <3>3, <3>4
    <3>7. IF HelloSent(p, k2) THEN k2.state >= S_START /\ k2.next >= 2 ELSE k2.next <= 1 BY ONLY <3>3, <3>4
    <3>8. /\ k2.next = 2 /\ KeySent(p, k2) =>
                \/ (KeyText(k2.write) /\ k2.tls.out = <<>>)
                \/ (KeyText(k2.tls.out) /\ k2.write = <<>> /\ k2.tls.phase = "done")
          /\ k2.next <= 1 /\ KeySent(p, k2) => KeyText(k2.write) /\ k2.tls.out = <<>>
      BY ONLY <3>5
    <3>9. ~KeySent(p, k2) => k2.write = <<>> /\ k2.tls.out = <<>> /\ k2.next <= 2 BY ONLY <3>4
    <3>10. k2.next >= 3 => k2.write = <<>> /\ Pays(k2.tls.out, n) /\ k2.tls.phase = "done" BY ONLY <3>4
    <3>11. k2.state < S_ACTIVE /\ k2.next >= 3 => k2.next = 3 /\ k2.tls.out = <<>> BY ONLY <3>5
    <3>12. k2.state >= S_ACTIVE => k2.next >= 3 /\ k2.pay = <<>> /\ \A u \in k2.unacked : u.pid >= 3
      BY ONLY <3>3, <3>4
    <3>13. k2.due \subseteq Packets(k2) BY ONLY <3>4
    <3> QED BY ONLY <3>6, <3>7, <3>8, <3>9, <3>10, <3>11, <3>12, <3>13 DEF Sends
  <2>10. Receives(p, k2, v) BY <1>3, <2>1, <2>2, <2>7 DEF Receives
  <2>11. Backlog(k) = k.tls.out /\ Backlog(k2) = k2.tls.out BY <1>5, <2>1 DEF Backlog
  <2>12. (HasText(p, k2) <=> HasText(p, k)) /\ (Flushed(p, k2) <=> Flushed(p, k))
    BY <2>1, <2>2, <2>7 DEF HasText, Flushed
  <2>13. Grows(p, k, k2) BY <1>3, <2>1, <2>2, <2>7 DEF Grows, Shaped
  <2> QED BY <1>4, <1>5, <2>1, <2>2, <2>4, <2>7, <2>9, <2>10, <2>11, <2>12, <2>13 DEF KeyGood, GivenAs, Live
<1>6. CASE k.state < S_ACTIVE /\ Keeps(k, k2, {"pay"}) /\ k2.pay = Append(k.pay, n)
  <2>1. /\ KeyFields \subseteq DOMAIN k2 /\ k2.state = k.state /\ k2.keyId = k.keyId /\ k2.remote = k.remote /\ k2.addr = k.addr
        /\ k2.next = k.next /\ k2.recNext = k.recNext /\ k2.rec = k.rec /\ k2.acks = k.acks /\ k2.unacked = k.unacked /\ k2.due = k.due
        /\ k2.read = k.read /\ k2.write = k.write /\ k2.tls = k.tls
    BY <1>6 DEF Keeps, KeyFields
  <2>2. k2.pay \in Seq(Nat) /\ \A i \in DOMAIN k2.pay : k2.pay[i] \in 1..n
    <3>1. \A i \in DOMAIN k.pay : k.pay[i] \in 1..n BY <1>3 DEF Sends
    <3>2. k2.pay \in Seq(Nat) /\ Len(k.pay) \in Nat /\ DOMAIN k.pay = 1..Len(k.pay) BY <1>1, <1>4, <1>6
    <3>3. DOMAIN k2.pay = 1..(Len(k.pay) + 1) /\ \A i \in DOMAIN k2.pay : k2.pay[i] = IF i <= Len(k.pay) THEN k.pay[i] ELSE n
      BY <1>1, <1>4, <1>6
    <3>4. n \in 1..n BY <1>1
    <3>5. ASSUME NEW i \in DOMAIN k2.pay PROVE k2.pay[i] \in 1..n
      <4>1. CASE i <= Len(k.pay) BY ONLY <3>1, <3>2, <3>3, <3>5, <4>1
      <4>2. CASE ~(i <= Len(k.pay)) BY ONLY <3>3, <3>4, <3>5, <4>2
      <4> QED BY <4>1, <4>2
    <3> QED BY <3>2, <3>5
  <2>3. Shaped(k2) BY <1>3, <2>1, <2>2 DEF Shaped
  <2>4. Packets(k2) = Packets(k) /\ Got(k2) = Got(k) /\ Hand(k2) = Hand(k) /\ (HelloSent(p, k2) <=> HelloSent(p, k))
        /\ (HelloRead(p, k2) <=> HelloRead(p, k)) /\ (KeySent(p, k2) <=> KeySent(p, k))
        /\ (DecryptKeyEnabled(p, k2) <=> DecryptKeyEnabled(p, k))
    BY <2>1 DEF Packets, Got, Hand, HelloSent, HelloRead, KeySent, DecryptKeyEnabled
  <2>5. ~(k.state >= S_ACTIVE) BY <1>4, <1>6
  <2>6. Sends(p, k2, nm, n) BY <1>3, <2>1, <2>2, <2>4, <2>5 DEF Sends
  <2>7. Receives(p, k2, v) BY <1>3, <2>1, <2>4 DEF Receives
  <2>8. Backlog(k) = Texts(k.pay) /\ Backlog(k2) = Append(Backlog(k), <<"pay", n>>) /\ Backlog(k) \in Seq(Text)
    <3>1. k2.pay = Append(k.pay, n) /\ k.pay \in Seq(Nat) /\ n \in Nat /\ k2.state = k.state
      BY <1>1, <1>4, <1>6, <2>1
    <3>2. Texts(k2.pay) = Append(Texts(k.pay), <<"pay", n>>) /\ Texts(k.pay) \in Seq(Text)
      BY <3>1, TextsAppend, TextsAre
    <3>3. Backlog(k) = Texts(k.pay) /\ Backlog(k2) = Texts(k2.pay) BY <2>5, <3>1 DEF Backlog
    <3> QED BY <3>2, <3>3
  <2>9. (HasText(p, k2) <=> HasText(p, k)) /\ (Flushed(p, k2) <=> Flushed(p, k))
    BY <2>1, <2>4 DEF HasText, Flushed
  <2>10. Grows(p, k, k2) BY <1>3, <2>1, <2>4 DEF Grows, Shaped
  <2> QED BY <1>4, <2>1, <2>3, <2>4, <2>6, <2>7, <2>8, <2>9, <2>10 DEF KeyGood, GivenAs, Live
<1> QED BY <1>5, <1>6 DEF Given

(* A payload is given, or taken. *)

LEMMA OwnMail ==
  ASSUME NEW V, NEW V2, NEW p \in Peers, OwnStep(V, V2, p)
  PROVE  Mail(V2, p) = Mail(V, p) /\ Mail(V2, Other(p)) = Mail(V, Other(p))
<1>1. Other(p) \in Peers /\ Other(Other(p)) = p /\ Other(p) # p /\ {TM_ACTIVE, TM_UNTRUSTED} \subseteq Slots
  BY PeersAre, SlotsAre
<1>2. \A a \in Peers, j \in Slots : V2.key[a][j].unacked = V.key[a][j].unacked /\ V2.key[a][j].rec = V.key[a][j].rec
  BY DEF OwnStep
<1>3. V2.net[p] = V.net[p] /\ V2.net[Other(p)] = V.net[Other(p)] BY <1>1 DEF OwnStep
<1> QED BY <1>1, <1>2, <1>3 DEF Mail

LEMMA OwnStepGood ==
  ASSUME NEW V, NEW V2, Good(V), NEW p \in Peers, OwnStep(V, V2, p), OwnKey(V, V2, p)
  PROVE  Good(V2)
<1> DEFINE q == Other(p)
<1>1. q \in Peers /\ Other(q) = p /\ q # p /\ PeerGood(V, p) /\ PeerGood(V, q) /\ \A r \in Peers : r = p \/ r = q
  BY PeersAre DEF Good
<1>2. V.written[p] \in Nat /\ V.written[q] \in Nat /\ V2.written[p] \in Nat /\ V2.written[q] \in Nat
  BY <1>1 DEF PeerGood, OwnStep
<1>3. Wider(V, V2)
  <2>1. \A r \in Peers : V.written[r] <= V2.written[r] BY <1>1, <1>2 DEF OwnStep
  <2>2. \A r \in Peers : \A nm : Known(V, r, nm) => Known(V2, r, nm) BY DEF Known, OwnStep
  <2> QED BY <2>1, <2>2 DEF Wider
<1>4. /\ \A l \in Mail(V2, p) : Carried(Mail(V, p), l)
      /\ \A l \in Mail(V2, q) : Carried(Mail(V, q), l)
  BY OwnMail DEF Carried
<1>5. Evolves(V, V2, q)
  <2>1. /\ \A j \in Slots : V2.key[q][j] = V.key[q][j] /\ V2.sid[q][j] = V.sid[q][j] /\ V2.nk[q][j] = V.nk[q][j]
        /\ V2.n[q] = V.n[q] /\ V2.received[q] = V.received[q] /\ V2.net[p] \subseteq V.net[p]
    BY <1>1 DEF OwnStep
  <2> HIDE DEF q
  <2> QED BY <1>1, <1>2, <1>3, <1>4, <2>1, PeerStays
<1>6. Evolves(V, V2, p)
  <2>1. V2.n[p] \in Nat /\ V2.written[p] \in Nat /\ V2.received[p] \in Seq(Text)
        /\ Pays(V2.received[p], V2.written[q]) /\ Rising(V2.received[p])
    BY <1>1, <1>2 DEF OwnStep, OwnKey, PeerGood
  <2>2. Succeeds(V, V2, p, TM_UNTRUSTED) /\ (Live(V.key[p][TM_UNTRUSTED]) => Heir(V, V2, p, TM_UNTRUSTED, TM_UNTRUSTED))
    <3>1. /\ V2.key[p][TM_UNTRUSTED] = V.key[p][TM_UNTRUSTED] /\ V2.sid[p][TM_UNTRUSTED] = V.sid[p][TM_UNTRUSTED]
          /\ V2.nk[p][TM_UNTRUSTED] = V.nk[p][TM_UNTRUSTED] /\ V2.n[p] = V.n[p] /\ TM_UNTRUSTED \in Slots
      BY SlotsAre DEF OwnStep
    <3> QED BY <1>2, <1>3, <3>1, SlotStays
  <2>3. Succeeds(V, V2, p, TM_ACTIVE)
    <3>1. SlotBounds(V2, p, TM_ACTIVE)
      <4>1. SlotGood(V, p, TM_ACTIVE) BY LiveIsGood, SlotsAre DEF OwnStep
      <4> QED BY <4>1, SlotsAre DEF SlotGood, SlotBounds, OwnStep
    <3>2. Name(V2, p, TM_ACTIVE) = Name(V, p, TM_ACTIVE) BY SlotsAre DEF Name, OwnStep
    <3> QED BY <3>1, <3>2, SlotsAre DEF Succeeds, OwnKey
  <2>4. \A j \in Slots : Succeeds(V, V2, p, j) BY <2>2, <2>3, SlotsAre
  <2>5. \A m \in V2.net[q] : m \in V.net[q] BY <1>1 DEF OwnStep
  <2>6. \A n \in Seen(V2, p) : n \in Seen(V, p) BY DEF OwnKey
  <2>7. Live(V2.key[p][TM_UNTRUSTED]) => WaitsOn(V, V2, p)
    <3>1. V2.key[p][TM_UNTRUSTED] = V.key[p][TM_UNTRUSTED] BY SlotsAre DEF OwnStep
    <3> QED BY <2>2, <3>1 DEF WaitsOn
  <2>8. Live(V2.key[p][TM_ACTIVE]) /\ Live(V2.key[p][TM_UNTRUSTED]) => V2.sid[p][TM_ACTIVE] # V2.sid[p][TM_UNTRUSTED]
    <3>1. V2.key[p][TM_UNTRUSTED] = V.key[p][TM_UNTRUSTED] /\ Live(V.key[p][TM_ACTIVE])
          /\ V2.sid[p][TM_ACTIVE] = V.sid[p][TM_ACTIVE] /\ V2.sid[p][TM_UNTRUSTED] = V.sid[p][TM_UNTRUSTED]
      BY SlotsAre DEF OwnStep
    <3> QED BY <1>1, <3>1 DEF PeerGood
  <2>9. (ActiveGood(V2, p) \/ HoldsOn(V, V2, p)) /\ (BacklogGood(V2, p) \/ SendsOn(V, V2, p)) BY DEF OwnKey
  <2> QED BY <1>4, <2>1, <2>4, <2>5, <2>6, <2>7, <2>8, <2>9 DEF Evolves
<1>7. \A r \in Peers : Evolves(V, V2, r) BY <1>1, <1>5, <1>6
<1> QED BY <1>3, <1>7, GoodEvolves

\* The numbers of the texts that a key holds.
LEMMA PaysNumbers ==
  ASSUME NEW s \in Seq(Text), NEW v \in Nat, Pays(s, v) \/ KeyThenPays(s, v) \/ s = <<>>
  PROVE  \A x \in Numbers(s) : x \in 1..v
<1> SUFFICES ASSUME NEW j \in DOMAIN s, s[j][1] = "pay"
             PROVE  s[j][2] \in 1..v
  BY DEF Numbers
<1>1. CASE Pays(s, v) BY <1>1 DEF Pays, IsPay
<1>2. CASE KeyThenPays(s, v)
  <2>1. j # 1 BY <1>2 DEF KeyThenPays
  <2>2. j \in 2..Len(s) BY <2>1
  <2> QED BY <1>2, <2>2 DEF KeyThenPays, IsPay
<1>3. CASE s = <<>> BY <1>3
<1> QED BY <1>1, <1>2, <1>3

LEMMA KeyNumbers ==
  ASSUME NEW p \in Peers, NEW k, NEW nm, NEW w \in Nat, NEW v \in Nat, KeyGood(p, k, nm, w, v)
  PROVE  /\ \A x \in Numbers(Hand(k)) : x \in 1..v
         /\ \A x \in Numbers(Backlog(k)) : x \in 1..w
<1>1. Shaped(k) /\ Sends(p, k, nm, w) /\ Receives(p, k, v) BY DEF KeyGood
<1>2. Hand(k) \in Seq(Text) BY <1>1, HandIs DEF Shaped, Receives
<1>3. Pays(Hand(k), v) \/ KeyThenPays(Hand(k), v) \/ Hand(k) = <<>> BY <1>1 DEF Receives
<1>4. CASE k.state >= S_ACTIVE
  <2>1. Backlog(k) = k.tls.out /\ Backlog(k) \in Seq(Text) BY <1>1, <1>4 DEF Backlog, Shaped
  <2>2. Pays(Backlog(k), w) BY <1>1, <1>4, <2>1 DEF Sends
  <2> QED BY <1>2, <1>3, <2>1, <2>2, PaysNumbers
<1>5. CASE ~(k.state >= S_ACTIVE)
  <2>1. Backlog(k) = Texts(k.pay) /\ k.pay \in Seq(Nat) /\ \A i \in DOMAIN k.pay : k.pay[i] \in 1..w
    BY <1>1, <1>5 DEF Backlog, Shaped, Sends
  <2>2. Texts(k.pay) \in Seq(Text) /\ Len(Texts(k.pay)) = Len(k.pay) /\ \A i \in DOMAIN k.pay : Texts(k.pay)[i] = <<"pay", k.pay[i]>>
    BY <2>1, TextsAre
  <2>3. DOMAIN Texts(k.pay) = DOMAIN k.pay BY DEF Texts
  <2>4. Pays(Backlog(k), w) BY <2>1, <2>2, <2>3 DEF Pays, IsPay
  <2> QED BY <1>2, <1>3, <2>1, <2>2, <2>4, PaysNumbers
<1> QED BY <1>4, <1>5

LEMMA SeenNumbers ==
  ASSUME NEW V, Good(V), NEW p \in Peers
  PROVE  \A x \in Seen(V, p) : x \in 1..V.written[Other(p)]
<1>1. Other(p) \in Peers /\ PeerGood(V, p) /\ PeerGood(V, Other(p)) /\ TM_ACTIVE \in Slots
  BY PeersAre, SlotsAre DEF Good
<1>2. V.written[p] \in Nat /\ V.written[Other(p)] \in Nat BY <1>1 DEF PeerGood
<1>3. \A x \in Numbers(V.received[p]) : x \in 1..V.written[Other(p)] BY <1>1, <1>2, PaysNumbers DEF PeerGood
<1>4. \A x \in Numbers(Hand(V.key[p][TM_ACTIVE])) : x \in 1..V.written[Other(p)]
  <2>1. CASE Live(V.key[p][TM_ACTIVE])
    <3>1. SlotGood(V, p, TM_ACTIVE) BY <1>1, <2>1, LiveIsGood
    <3> QED BY <1>2, <3>1, KeyNumbers DEF SlotGood
  <2>2. CASE ~Live(V.key[p][TM_ACTIVE])
    <3>1. V.key[p][TM_ACTIVE] = Undef
      <4>1. ~SlotGood(V, p, TM_ACTIVE)
        <5>1. SlotGood(V, p, TM_ACTIVE) => V.key[p][TM_ACTIVE].state \in S_INITIAL..S_NORMAL_OP
          BY DEF SlotGood, KeyGood, Shaped
        <5> QED BY <2>2, <5>1 DEF Live
      <4> QED BY <1>1, <4>1 DEF PeerGood
    <3> QED BY <3>1, UndefIs DEF Numbers
  <2> QED BY <2>1, <2>2
<1> QED BY <1>3, <1>4 DEF Seen

LEMMA GivenGood ==
  ASSUME NEW V, NEW V2, Good(V), NEW p \in Peers, OwnStep(V, V2, p), V2.received[p] = V.received[p],
         NEW n, n = V.written[p] + 1, V2.written[p] = n, Given(V.key[p][TM_ACTIVE], V2.key[p][TM_ACTIVE], n)
  PROVE  Good(V2)
<1>k. PICK k : k = V.key[p][TM_ACTIVE] OBVIOUS
<1>l. PICK k2 : k2 = V2.key[p][TM_ACTIVE] OBVIOUS
<1>q. PICK q : q = Other(p) OBVIOUS
<1>m. PICK nm : nm = Name(V, p, TM_ACTIVE) OBVIOUS
<1>1. q \in Peers /\ Other(q) = p /\ q # p /\ PeerGood(V, p) /\ PeerGood(V, q) /\ TM_ACTIVE \in Slots /\ Live(k) /\ Live(k2)
  BY <1>k, <1>l, <1>q, PeersAre, SlotsAre DEF Good, OwnStep
<1>2. SlotGood(V, p, TM_ACTIVE) BY <1>1, <1>k, LiveIsGood
<1>3. V.written[p] \in Nat /\ V.written[q] \in Nat /\ n \in Nat /\ V.written[p] < n /\ V2.written[q] = V.written[q]
  <2>1. V.written[p] \in Nat /\ V.written[q] \in Nat /\ V2.written[q] = V.written[q]
    BY <1>1, <1>q DEF PeerGood, OwnStep
  <2> QED BY <2>1
<1>4. KeyGood(p, k, nm, V.written[p], V.written[q]) BY <1>2, <1>k, <1>q, <1>m DEF SlotGood
<1>5. KeyGood(p, k2, nm, n, V.written[q]) /\ GivenAs(p, k, k2, n)
  <2>1. Given(k, k2, n) /\ p \in Peers /\ n = V.written[p] + 1 BY <1>k, <1>l
  <2> QED BY ONLY <1>3, <1>4, <2>1, KeyGiven
<1>6. /\ Grows(p, k, k2) /\ Hand(k2) = Hand(k) /\ Backlog(k) \in Seq(Text) /\ Backlog(k2) = Append(Backlog(k), <<"pay", n>>)
      /\ (HasText(p, k2) <=> HasText(p, k)) /\ k2.tls.peer = k.tls.peer /\ k2.remote = k.remote /\ k2.rec = k.rec
      /\ k2.unacked = k.unacked /\ k2.next = k.next
  BY <1>5 DEF GivenAs
<1>7. Heir(V, V2, p, TM_ACTIVE, TM_ACTIVE)
  <2>1. Name(V2, p, TM_ACTIVE) = Name(V, p, TM_ACTIVE) BY SlotsAre DEF Name, OwnStep
  <2>2. p = Server => ServesOn(k, k2) BY <1>6 DEF ServesOn, Packets
  <2> QED BY <1>k, <1>l, <1>1, <1>6, <2>1, <2>2 DEF Heir
<1>8. HoldsOn(V, V2, p) /\ Seen(V2, p) = Seen(V, p) BY <1>k, <1>l, <1>6, <1>7 DEF HoldsOn, Seen
<1>9. BacklogGood(V2, p)
  <2>1. BacklogGood(V, p) BY <1>1, <1>k DEF PeerGood
  <2>2. Rising(Backlog(k)) /\ \A x \in Numbers(Backlog(k)) :
          (\A y \in Seen(V, q) : y < x) /\ (\A l \in Mail(V, q) : l.pid >= 3 => l.body.text[2] < x)
    BY <2>1, <1>k, <1>q DEF BacklogGood
  <2>3. \A x \in Numbers(Backlog(k)) : x < n
    <3>1. V.written[p] \in Nat /\ V.written[q] \in Nat /\ p \in Peers BY <1>3
    <3>2. \A x \in Numbers(Backlog(k)) : x \in 1..V.written[p] BY ONLY <1>4, <3>1, KeyNumbers
    <3> QED BY ONLY <1>3, <3>1, <3>2
  <2>4. \A y \in Seen(V, q) : y < n BY <1>1, <1>3, SeenNumbers
  <2>5. \A l \in Mail(V, q) : l.pid >= 3 => l.body.text[2] < n
    <3> TAKE l \in Mail(V, q)
    <3>1. LetterGood(V, q, l) BY <1>1 DEF PeerGood, MailGood
    <3> QED BY <1>1, <1>3, <3>1 DEF LetterGood, IsPay
  <2>6. <<"pay", n>> \in Text /\ <<"pay", n>>[1] = "pay" /\ <<"pay", n>>[2] = n BY <1>3 DEF Text
  <2>7. Numbers(Backlog(k2)) = Numbers(Backlog(k)) \cup {n} /\ Rising(Backlog(k2))
    BY <1>6, <2>2, <2>3, <2>6, AppendNumbers
  <2>8. Seen(V2, q) = Seen(V, q) /\ Mail(V2, q) = Mail(V, q)
    <3>1. Mail(V2, q) = Mail(V, q) BY <1>q, OwnMail
    <3>2. V2.received[q] = V.received[q] /\ V2.key[q][TM_ACTIVE] = V.key[q][TM_ACTIVE]
      BY <1>1, <1>q DEF OwnStep
    <3> QED BY <3>1, <3>2 DEF Seen
  <2>9. \A x \in Numbers(Backlog(k2)) :
          (\A y \in Seen(V2, q) : y < x) /\ (\A l \in Mail(V2, q) : l.pid >= 3 => l.body.text[2] < x)
    BY <2>2, <2>4, <2>5, <2>7, <2>8
  <2> QED BY <1>l, <1>q, <2>7, <2>9 DEF BacklogGood
<1>10. OwnKey(V, V2, p)
  <2>1. V2.received[p] \in Seq(Text) /\ Pays(V2.received[p], V2.written[q]) /\ Rising(V2.received[p])
    BY <1>1, <1>3, <1>q DEF PeerGood
  <2>2. KeyGood(p, V2.key[p][TM_ACTIVE], Name(V, p, TM_ACTIVE), V2.written[p], V2.written[q])
    BY <1>l, <1>m, <1>3, <1>5
  <2> QED BY <1>q, <1>7, <1>8, <1>9, <2>1, <2>2 DEF OwnKey
<1> QED BY <1>10, OwnStepGood

LEMMA KeyTaken ==
  ASSUME NEW p \in Peers, NEW k, NEW k2, NEW nm, NEW w, NEW v, KeyGood(p, k, nm, w, v), TakesOut(k, k2)
  PROVE  KeyGood(p, k2, nm, w, v) /\ TakenAs(p, k, k2, v)
<1>1. /\ k2.keyId = k.keyId /\ k2.remote = k.remote /\ k2.addr = k.addr /\ k2.recNext = k.recNext /\ k2.rec = k.rec
      /\ k2.acks = k.acks /\ k2.write = k.write /\ k2.pay = k.pay /\ k2.state = k.state /\ k2.tls = k.tls
      /\ k2.next = k.next /\ k2.unacked = k.unacked /\ k2.due = k.due /\ k2.read = <<>> /\ KeyFields \subseteq DOMAIN k2
  BY DEF Keeps, KeyFields, TakesOut
<1>2. Shaped(k) /\ Sends(p, k, nm, w) /\ Receives(p, k, v) BY DEF KeyGood
<1>3. k.state \in S_INITIAL..S_NORMAL_OP /\ k.read \in Seq(Text) /\ k.tls.in \in Seq(Text) /\ Len(k.read) <= 1
  BY <1>2 DEF Shaped, Receives
<1>4. k.state >= S_ACTIVE /\ k.read # <<>> BY DEF TakesOut
<1>5. Hand(k) \in Seq(Text) /\ Hand(k) # <<>> /\ Hand(k)[1] = k.read[1] /\ Tail(Hand(k)) = k.tls.in
  BY <1>3, <1>4, HandIs
<1>6. Hand(k2) = k.tls.in
  <2>1. k2.read \in Seq(Text) /\ k2.tls.in \in Seq(Text) /\ Len(k2.read) <= 1 /\ k2.read = <<>> BY <1>1, <1>3
  <2>2. Hand(k2) = k2.tls.in BY <2>1, HandIs
  <2> QED BY <1>1, <2>2
<1>7. DecryptKeyEnabled(p, k) /\ DecryptKeyEnabled(p, k2) BY <1>1, <1>3, <1>4 DEF DecryptKeyEnabled
<1>8. k.recNext >= 3 /\ Pays(Hand(k), v) BY <1>2, <1>7 DEF Receives
<1>9. Pays(Hand(k2), v)
  <2>1. Pays(Tail(Hand(k)), v) BY <1>5, <1>8, TailOf
  <2> QED BY <1>5, <1>6, <2>1
<1>10. Shaped(k2)
  <2>1. k2.read \in Seq(Text) BY <1>1
  <2> QED BY <1>1, <1>2, <2>1 DEF Shaped
<1>11. Got(k2) = Got(k) /\ Packets(k2) = Packets(k) /\ (HelloSent(p, k2) <=> HelloSent(p, k))
       /\ (HelloRead(p, k2) <=> HelloRead(p, k)) /\ (KeySent(p, k2) <=> KeySent(p, k))
  BY <1>1 DEF Got, Packets, HelloSent, HelloRead, KeySent
<1>12. Sends(p, k2, nm, w) BY <1>1, <1>2, <1>11 DEF Sends
<1>13. Receives(p, k2, v)
  <2>1. Len(k2.read) <= 1 BY <1>1
  <2> QED BY <1>1, <1>2, <1>7, <1>8, <1>9, <1>11, <2>1 DEF Receives
<1>14. (HasText(p, k2) <=> HasText(p, k)) /\ (Flushed(p, k2) <=> Flushed(p, k)) /\ Backlog(k2) = Backlog(k)
  BY <1>1, <1>7, <1>11 DEF HasText, Flushed, Backlog
<1>15. Grows(p, k, k2) BY <1>1, <1>2, <1>11 DEF Grows, Shaped
<1>16. Live(k) /\ Live(k2) BY <1>1, <1>3 DEF Live
<1> QED BY <1>1, <1>5, <1>6, <1>8, <1>10, <1>12, <1>13, <1>14, <1>15, <1>16 DEF KeyGood, TakenAs

LEMMA TakenGood ==
  ASSUME NEW V, NEW V2, Good(V), NEW p \in Peers, OwnStep(V, V2, p), V2.written[p] = V.written[p],
         TakesOut(V.key[p][TM_ACTIVE], V2.key[p][TM_ACTIVE]),
         NEW t, t = V.key[p][TM_ACTIVE].read[1], V2.received[p] = Append(V.received[p], t)
  PROVE  Good(V2)
<1>k. PICK k : k = V.key[p][TM_ACTIVE] OBVIOUS
<1>l. PICK k2 : k2 = V2.key[p][TM_ACTIVE] OBVIOUS
<1>q. PICK q : q = Other(p) OBVIOUS
<1>m. PICK nm : nm = Name(V, p, TM_ACTIVE) OBVIOUS
<1>r. PICK r : r = V.received[p] OBVIOUS
<1>s. PICK r2 : r2 = V2.received[p] OBVIOUS
<1>v. PICK v : v = V.written[q] OBVIOUS
<1>1. q \in Peers /\ Other(q) = p /\ q # p /\ PeerGood(V, p) /\ PeerGood(V, q) /\ TM_ACTIVE \in Slots /\ Live(k) /\ Live(k2)
  BY <1>k, <1>l, <1>q, PeersAre, SlotsAre DEF Good, OwnStep
<1>2. SlotGood(V, p, TM_ACTIVE) BY <1>1, <1>k, LiveIsGood
<1>3. V.written[p] \in Nat /\ v \in Nat /\ V2.written[q] = v BY <1>1, <1>q, <1>v DEF PeerGood, OwnStep
<1>4. KeyGood(p, k, nm, V.written[p], v) BY <1>2, <1>k, <1>q, <1>m, <1>v DEF SlotGood
<1>5. KeyGood(p, k2, nm, V.written[p], v) /\ TakenAs(p, k, k2, v) BY <1>4, <1>k, <1>l, KeyTaken
<1>6. /\ Grows(p, k, k2) /\ Hand(k) \in Seq(Text) /\ Hand(k) # <<>> /\ Hand(k)[1] = t /\ Hand(k2) = Tail(Hand(k))
      /\ Pays(Hand(k), v) /\ Backlog(k2) = Backlog(k)
      /\ (HasText(p, k2) <=> HasText(p, k)) /\ k2.tls = k.tls /\ k2.remote = k.remote /\ k2.rec = k.rec
      /\ k2.unacked = k.unacked /\ k2.next = k.next /\ k2.recNext = k.recNext
  BY <1>k, <1>5 DEF TakenAs
<1>7. Name(V2, p, TM_ACTIVE) = nm BY <1>m, SlotsAre DEF Name, OwnStep
<1>8. Heir(V, V2, p, TM_ACTIVE, TM_ACTIVE)
  <2>2. p = Server => ServesOn(k, k2) BY <1>6 DEF ServesOn, Packets
  <2> QED BY <1>k, <1>l, <1>m, <1>1, <1>6, <1>7, <2>2 DEF Heir
<1>9. ActiveGood(V, p) /\ r \in Seq(Text) /\ Pays(r, v) /\ Rising(r)
  BY <1>1, <1>k, <1>q, <1>r, <1>v DEF PeerGood
<1>10. /\ \A l \in Mail(V, p) : l.pid >= 3 /\ nm \in l.body.conn =>
            /\ l.body.conn = {nm, k.tls.peer}
            /\ l.pid >= k.recNext => \A n \in Seen(V, p) : n < l.body.text[2]
       /\ Rising(Hand(k))
       /\ \A a \in Numbers(r), b \in Numbers(Hand(k)) : a < b
  BY <1>9, <1>k, <1>m, <1>r DEF ActiveGood
<1>11. IsPay(t, v) /\ t \in Text /\ t[1] = "pay" /\ t[2] \in Nat /\ r2 = Append(r, t)
  <2>1. 1 \in DOMAIN Hand(k) /\ t \in Text BY <1>6, SeqIs
  <2>2. IsPay(t, v) BY <1>6, <2>1 DEF Pays
  <2> QED BY <1>3, <1>r, <1>s, <2>1, <2>2 DEF IsPay
<1>12. /\ Numbers(Hand(k2)) \subseteq Numbers(Hand(k)) /\ Rising(Hand(k2)) /\ (\A n \in Numbers(Hand(k2)) : t[2] < n)
       /\ t[2] \in Numbers(Hand(k))
  BY Zenon, <1>6, <1>10, <1>11, TailOf
<1>13. r2 \in Seq(Text) /\ Numbers(r2) = Numbers(r) \cup {t[2]} /\ Rising(r2) /\ Pays(r2, v)
  <2>1. \A a \in Numbers(r) : a < t[2] BY <1>10, <1>12
  <2> QED BY <1>9, <1>11, <2>1, AppendNumbers, AppendPays
<1>14. Seen(V2, p) \subseteq Seen(V, p) BY Zenon, <1>k, <1>l, <1>r, <1>s, <1>12, <1>13 DEF Seen
<1>15. \A a \in Numbers(r2), b \in Numbers(Hand(k2)) : a < b BY <1>10, <1>12, <1>13
<1>16. ActiveGood(V2, p)
  <2>1. Mail(V2, p) = Mail(V, p) BY OwnMail
  <2>2. \A l \in Mail(V2, p) : l.pid >= 3 /\ nm \in l.body.conn =>
            /\ l.body.conn = {nm, k2.tls.peer}
            /\ l.pid >= k2.recNext => \A n \in Seen(V2, p) : n < l.body.text[2]
    BY <1>6, <1>10, <1>14, <2>1
  <2> QED BY <1>l, <1>s, <1>7, <1>12, <1>15, <2>2 DEF ActiveGood
<1>17. SendsOn(V, V2, p) BY <1>k, <1>l, <1>1, <1>6 DEF SendsOn
<1>18. OwnKey(V, V2, p)
  <2>1. V2.received[p] \in Seq(Text) /\ Pays(V2.received[p], V2.written[q]) /\ Rising(V2.received[p])
    BY <1>s, <1>3, <1>13
  <2>2. KeyGood(p, V2.key[p][TM_ACTIVE], Name(V, p, TM_ACTIVE), V2.written[p], V2.written[q])
    BY <1>l, <1>m, <1>3, <1>5
  <2> QED BY <1>q, <1>8, <1>14, <1>16, <1>17, <2>1, <2>2 DEF OwnKey
<1> QED BY <1>18, OwnStepGood

LEMMA OwnPut ==
  ASSUME NEW W, NEW W2, NEW p \in Peers, OwnWorld(W, W2, p), NEW m, NEW m2, TurnGood(W, p, m, {}),
         NEW k, k = Prime(m, TM_ACTIVE), NEW k2, Live(k), Live(k2), k2.keyId = k.keyId, k2.unacked = k.unacked, k2.rec = k.rec,
         SetTo(m, m2, TM_ACTIVE, WithKey(m.sess[TM_ACTIVE], k2))
  PROVE  OwnSteps(W, W2, p, m, m2, k, k2)
<1>v. PICK V : V = Put(W, p, m, {}) OBVIOUS
<1>w. PICK V2 : V2 = Put(W2, p, m2, {}) OBVIOUS
<1>q. PICK q : q = Other(p) OBVIOUS
<1>1. q \in Peers /\ q # p /\ (\A r \in Peers : r = p \/ r = q) /\ TM_ACTIVE \in Slots /\ TM_UNTRUSTED \in Slots
      /\ \A j \in Slots : j = TM_ACTIVE \/ j = TM_UNTRUSTED
  BY <1>q, PeersAre, SlotsAre
<1>2. Puts(V, W, p, m, {}) /\ Puts(V2, W2, p, m2, {}) BY <1>v, <1>w, PutIs
<1>3. MultiFine(m) /\ Good(V) BY <1>v DEF TurnGood
<1>4. /\ m2.n = m.n /\ Prime(m2, TM_ACTIVE) = k2 /\ m2.sess[TM_ACTIVE].sid = m.sess[TM_ACTIVE].sid
      /\ m2.sess[TM_ACTIVE].nextKey = m.sess[TM_ACTIVE].nextKey /\ m2.sess[TM_UNTRUSTED] = m.sess[TM_UNTRUSTED]
  <2>1. SessionFine(m.sess[TM_ACTIVE]) BY <1>3, SlotsAre DEF MultiFine
  <2>s. PICK s2 : s2 = WithKey(m.sess[TM_ACTIVE], k2) OBVIOUS
  <2>2. s2.keys[KS_PRIMARY] = k2 /\ s2.sid = m.sess[TM_ACTIVE].sid /\ s2.nextKey = m.sess[TM_ACTIVE].nextKey
    BY <2>1, <2>s, KeyIs
  <2> QED BY <2>s, <2>2, SlotsAre DEF SetTo, Prime
<1>5. /\ V.key[p][TM_ACTIVE] = k /\ V2.key[p][TM_ACTIVE] = k2
      /\ V.written = W.written /\ V2.written = W2.written /\ V.received = W.received /\ V2.received = W2.received
  BY <1>1, <1>2, <1>4 DEF Puts
<1>6. V2.key[p][TM_UNTRUSTED] = V.key[p][TM_UNTRUSTED] /\ V2.n[p] = V.n[p]
      /\ \A j \in Slots : V2.sid[p][j] = V.sid[p][j] /\ V2.nk[p][j] = V.nk[p][j]
  BY <1>1, <1>2, <1>4 DEF Puts, Prime
<1>7. SameKeys(W, W2) BY DEF OwnWorld
<1>8. V2.n[q] = V.n[q] /\ V2.net[q] = V.net[q] /\ V2.net[p] = V.net[p]
      /\ \A j \in Slots : V2.key[q][j] = V.key[q][j] /\ V2.sid[q][j] = V.sid[q][j] /\ V2.nk[q][j] = V.nk[q][j]
  BY <1>1, <1>2, <1>7, <1>q DEF Puts, SameKeys
<1>9. OwnStep(V, V2, p)
  <2>1. /\ \A a \in Peers : V2.n[a] = V.n[a] /\ V2.net[a] = V.net[a]
        /\ \A a \in Peers, j \in Slots : V2.sid[a][j] = V.sid[a][j] /\ V2.nk[a][j] = V.nk[a][j]
        /\ \A a \in Peers, j \in Slots : (a = p /\ j = TM_ACTIVE) \/ V2.key[a][j] = V.key[a][j]
    BY <1>1, <1>6, <1>8
  <2>2. V2.written[q] = V.written[q] /\ V2.received[q] = V.received[q]
        /\ V2.written[p] \in Nat /\ V.written[p] <= V2.written[p]
    BY <1>5, <1>q DEF OwnWorld
  <2> QED BY <1>5, <1>q, <2>1, <2>2 DEF OwnStep
<1> QED BY <1>v, <1>w, <1>3, <1>5, <1>9 DEF OwnSteps

\* What is left to say of the turn: the rest of the peer's sessions.
LEMMA OwnTurn ==
  ASSUME NEW W, NEW W2, NEW p \in Peers, NEW m, NEW m2, TurnGood(W, p, m, {}), m.up, Good(Put(W2, p, m2, {})),
         NEW k2, Live(k2), Flushed(p, k2), SetTo(m, m2, TM_ACTIVE, WithKey(m.sess[TM_ACTIVE], k2))
  PROVE  Decrypts(W2, p, m2)
<1>s. PICK s2 : s2 = WithKey(m.sess[TM_ACTIVE], k2) OBVIOUS
<1>1. MultiFine(m) /\ SessionFine(m.sess[TM_ACTIVE]) /\ TM_ACTIVE \in Slots
  BY SlotsAre DEF TurnGood, MultiFine
<1>2. SessionFine(s2) /\ s2.keys[KS_PRIMARY] = k2 BY <1>1, <1>s, KeyIs
<1>3. SetTo(m, m2, TM_ACTIVE, s2) /\ Live(s2.keys[KS_PRIMARY]) BY <1>s, <1>2
<1>4. MultiFine(m2) /\ ButSession(m, m2, TM_ACTIVE) BY <1>1, <1>2, <1>3, SetFine
<1>5. Prime(m2, TM_ACTIVE) = k2 /\ m2.up = m.up BY <1>2, <1>3 DEF SetTo, Prime
<1>6. \A j \in Slots : Live(Prime(m2, j)) => Flushed(p, Prime(m2, j))
  <2> TAKE j \in Slots
  <2>1. CASE j = TM_ACTIVE BY <1>5, <2>1
  <2>2. CASE j # TM_ACTIVE BY <1>4, <2>2 DEF ButSession, TurnGood
  <2> QED BY <2>1, <2>2
<1> QED BY <1>4, <1>5, <1>6 DEF TurnGood, Decrypts

LEMMA GiveGood ==
  ASSUME NEW W, NEW W2, NEW p \in Peers, OwnWorld(W, W2, p), NEW m, NEW m2, TurnGood(W, p, m, {}), m.up,
         W2.received[p] = W.received[p], NEW n, n = W.written[p] + 1, W2.written[p] = n,
         NEW k, k = Prime(m, TM_ACTIVE), NEW k2, Given(k, k2, n),
         SetTo(m, m2, TM_ACTIVE, WithKey(m.sess[TM_ACTIVE], k2))
  PROVE  Decrypts(W2, p, m2)
<1>1. InTurn(W, p, TM_ACTIVE, m, k)
  <2>1. Live(k) /\ TM_ACTIVE \in Slots BY SlotsAre DEF TurnGood, MultiFine
  <2> QED BY <2>1, InTurnIs
<1>2. KeyGood(p, k, <<m.sess[TM_ACTIVE].sid, k.keyId>>, W.written[p], W.written[Other(p)]) /\ Flushed(p, k)
  BY <1>1 DEF InTurn, SessionGood, Prime
<1>3. W.written[p] \in Nat /\ W.written[Other(p)] \in Nat
  <2>1. Good(Put(W, p, m, {})) /\ Put(W, p, m, {}).written = W.written BY <1>1 DEF InTurn, Put
  <2>2. Other(p) \in Peers BY PeersAre
  <2> QED BY <2>1, <2>2 DEF Good, PeerGood
<1>4. GivenAs(p, k, k2, n)
  <2>1. Given(k, k2, n) /\ n = W.written[p] + 1 /\ p \in Peers OBVIOUS
  <2> QED BY ONLY <1>2, <1>3, <2>1, KeyGiven
<1>5. Live(k) /\ Live(k2) /\ k2.keyId = k.keyId /\ k2.unacked = k.unacked /\ k2.rec = k.rec /\ Flushed(p, k2)
  BY <1>2, <1>4 DEF GivenAs
<1>6. OwnSteps(W, W2, p, m, m2, k, k2) BY <1>5, OwnPut
<1>7. Good(Put(W2, p, m2, {}))
  <2>v. PICK V : V = Put(W, p, m, {}) OBVIOUS
  <2>w. PICK V2 : V2 = Put(W2, p, m2, {}) OBVIOUS
  <2>1. /\ OwnStep(V, V2, p) /\ Good(V) /\ Given(V.key[p][TM_ACTIVE], V2.key[p][TM_ACTIVE], n)
        /\ V2.received[p] = V.received[p] /\ n = V.written[p] + 1 /\ V2.written[p] = n
    BY <2>v, <2>w, <1>6 DEF OwnSteps
  <2>2. Good(V2) BY <2>1, GivenGood
  <2> QED BY <2>w, <2>2
<1> QED BY <1>5, <1>7, OwnTurn

LEMMA TakeOutGood ==
  ASSUME NEW W, NEW W2, NEW p \in Peers, OwnWorld(W, W2, p), NEW m, NEW m2, TurnGood(W, p, m, {}), m.up,
         W2.written[p] = W.written[p], NEW k, k = Prime(m, TM_ACTIVE), NEW t, t = k.read[1], W2.received[p] = Append(W.received[p], t),
         NEW k2, TakesOut(k, k2), SetTo(m, m2, TM_ACTIVE, WithKey(m.sess[TM_ACTIVE], k2))
  PROVE  Decrypts(W2, p, m2)
<1>1. InTurn(W, p, TM_ACTIVE, m, k)
  <2>1. Live(k) /\ TM_ACTIVE \in Slots BY SlotsAre DEF TurnGood, MultiFine
  <2> QED BY <2>1, InTurnIs
<1>2. KeyGood(p, k, <<m.sess[TM_ACTIVE].sid, k.keyId>>, W.written[p], W.written[Other(p)]) /\ Flushed(p, k)
  BY <1>1 DEF InTurn, SessionGood, Prime
<1>4. TakenAs(p, k, k2, W.written[Other(p)]) BY <1>2, KeyTaken
<1>5. Live(k) /\ Live(k2) /\ k2.keyId = k.keyId /\ k2.unacked = k.unacked /\ k2.rec = k.rec /\ Flushed(p, k2)
  BY <1>2, <1>4 DEF TakenAs
<1>6. OwnSteps(W, W2, p, m, m2, k, k2) BY <1>5, OwnPut
<1>7. Good(Put(W2, p, m2, {}))
  <2>v. PICK V : V = Put(W, p, m, {}) OBVIOUS
  <2>w. PICK V2 : V2 = Put(W2, p, m2, {}) OBVIOUS
  <2>1. /\ OwnStep(V, V2, p) /\ Good(V) /\ TakesOut(V.key[p][TM_ACTIVE], V2.key[p][TM_ACTIVE])
        /\ V2.written[p] = V.written[p] /\ t = V.key[p][TM_ACTIVE].read[1] /\ V2.received[p] = Append(V.received[p], t)
    BY <2>v, <2>w, <1>6 DEF OwnSteps
  <2>2. Good(V2) BY <2>1, TakenGood
  <2> QED BY <2>w, <2>2
<1> QED BY <1>5, <1>7, OwnTurn

-----------------------------------------------------------------------------
(* The actions keep the invariant. *)

\* A turn of peer p from m, as it comes to its end.
LEMMA TurnFine ==
  ASSUME NEW mu, NEW nw, NEW w, NEW r, NEW w2, NEW r2, OrderFine(mu, nw, w, r), DOMAIN w2 = Peers, DOMAIN r2 = Peers,
         NEW p \in Peers, NEW m, Decrypts(WorldOf(mu, nw, w2, r2), p, m), NEW env, RenewalsFit(m, env),
         NEW x, x = Settled(p, m, env), x.again => ~x.m.up, MaxKeyId <= 5,
         \A i \in Sessions : x.m.sess[i].nextKey <= MaxKeyId + 1,
         NEW rest, Queue(rest), OnWay(rest) \subseteq OnWay(nw[p])
  PROVE  OrderFine([mu EXCEPT ![p] = x.m], [nw EXCEPT ![p] = rest, ![Other(p)] = nw[Other(p)] \o x.sent], w2, r2)
<1>v. PICK V : V = WorldOf(mu, nw, w, r) OBVIOUS
<1>w. PICK W : W = WorldOf(mu, nw, w2, r2) OBVIOUS
<1>1. Other(p) \in Peers /\ TM_UNTRUSTED \in Slots BY PeersAre, SlotsAre
<1>2. Resting(V, Other(p)) BY <1>v, TurnStarts DEF MayTurn
<1>3. W.key[Other(p)][TM_UNTRUSTED] = V.key[Other(p)][TM_UNTRUSTED] BY <1>v, <1>w, <1>1, WorldIs DEF IsWorldOf
<1>4. Resting(W, Other(p)) BY <1>2, <1>3 DEF Resting
<1>5. TurnGood(W, p, m, {}) /\ m.up BY <1>w DEF Decrypts
<1>6. CallGood(W, p, x) BY <1>4, <1>5, SettledGood
<1>7. CallGood(WorldOf(mu, nw, w2, r2), p, x) BY <1>w, <1>6
<1> QED BY <1>7, TurnEnds

LEMMA QueueParts ==
  ASSUME NEW s, Queue(s), s # <<>>
  PROVE  /\ Queue(Tail(s)) /\ Head(s) \in OnWay(s) /\ OnWay(Tail(s)) \subseteq OnWay(s)
         /\ Queue(Tail(s) \o <<Head(s)>>) /\ OnWay(Tail(s) \o <<Head(s)>>) \subseteq OnWay(s)
         /\ Queue(Append(Tail(s), Head(s))) /\ OnWay(Append(Tail(s), Head(s))) \subseteq OnWay(s)
<1>1. PICK S : s \in Seq(S) BY DEF Queue
<1>2. PICK h : h = Head(s) OBVIOUS
<1>3. PICK t : t = Tail(s) OBVIOUS
<1>4. h \in S /\ t \in Seq(S) /\ h = s[1] /\ Len(s) \in Nat /\ Len(s) >= 1 /\ DOMAIN s = 1..Len(s)
      /\ DOMAIN t = 1..(Len(s) - 1) /\ \A i \in DOMAIN t : t[i] = s[i + 1]
  BY <1>1, <1>2, <1>3
<1>5. h \in OnWay(s) BY <1>4 DEF OnWay
<1>6. OnWay(t) \subseteq OnWay(s)
  <2>1. \A i \in DOMAIN t : i + 1 \in DOMAIN s /\ t[i] = s[i + 1] BY <1>4
  <2> QED BY <2>1 DEF OnWay
<1>7. Queue(t) BY <1>4, QueueIs
<1>8. Queue(<<h>>) /\ OnWay(<<h>>) = {h}
  <2>1. <<h>> \in Seq({h}) /\ DOMAIN <<h>> = {1} /\ <<h>>[1] = h OBVIOUS
  <2> QED BY <2>1 DEF Queue, OnWay
<1>9. Queue(t \o <<h>>) /\ OnWay(t \o <<h>>) = OnWay(t) \cup {h} BY <1>7, <1>8, OnWayIs
<1>10. Append(t, h) = t \o <<h>> BY <1>4
<1> QED BY <1>2, <1>3, <1>5, <1>6, <1>7, <1>9, <1>10

\* A key that is in use lives.
LEMMA ActiveIsLive ==
  ASSUME NEW W, NEW p \in Peers, NEW i \in Slots, NEW m, TurnGood(W, p, m, {}), Prime(m, i).state >= S_ACTIVE
  PROVE  Live(Prime(m, i))
<1>1. (Prime(m, i) = Undef /\ m.sess[i].sid = NoSid) \/ SessionGood(W, p, m, i)
  <2>1. Good(Put(W, p, m, {})) BY DEF TurnGood
  <2> QED BY <2>1, SessionIs
<1>2. Undef.state = 0 BY DEF Undef, KeyState
<1>3. Prime(m, i) # Undef
  <2>1. ~(0 >= 6) OBVIOUS
  <2> QED BY <1>2, <2>1
<1> QED BY <1>1, <1>3 DEF SessionGood

LEMMA TurnStep ==
  ASSUME InOrderInv, MaxKeyId <= 5, NEW p \in Peers, DOMAIN written' = Peers, DOMAIN received' = Peers,
         NEW m, Decrypts(WorldOf(multi, network, written', received'), p, m), NEW env, RenewalsFit(m, env),
         NEW rest, Queue(rest), OnWay(rest) \subseteq OnWay(network[p]), Turn(p, m, env, rest)
  PROVE  InOrderInv'
<1>x. PICK x : x = Settled(p, m, env) OBVIOUS
<1>1. (x.again => ~x.m.up) /\ InBounds(x.m) /\ multi' = [multi EXCEPT ![p] = x.m]
      /\ network' = [network EXCEPT ![p] = rest, ![Other(p)] = network[Other(p)] \o x.sent]
  BY <1>x DEF Turn, Continue
<1>2. \A i \in Sessions : x.m.sess[i].nextKey <= MaxKeyId + 1 BY <1>1 DEF InBounds
<1>3. OrderFine(multi, network, written, received) BY DEF InOrderInv
<1>4. OrderFine([multi EXCEPT ![p] = x.m], [network EXCEPT ![p] = rest, ![Other(p)] = network[Other(p)] \o x.sent], written', received')
  BY <1>x, <1>1, <1>2, <1>3, TurnFine
<1>5. OrderFine(multi', network', written', received') BY <1>1, <1>4
<1> QED BY <1>5 DEF InOrderInv

LEMMA MayTurnNow ==
  ASSUME InOrderInv, NEW p \in Peers
  PROVE  /\ TurnGood(WorldOf(multi, network, written, received), p, multi[p], {}) /\ PeerRest(p, multi[p])
         /\ WorldOf(multi, network, written, received).net[p] = OnWay(network[p])
         /\ Queue(network[p]) /\ DOMAIN written = Peers /\ DOMAIN received = Peers /\ DOMAIN multi = Peers /\ DOMAIN network = Peers
<1>1. OrderFine(multi, network, written, received) BY DEF InOrderInv
<1>2. TurnGood(WorldOf(multi, network, written, received), p, multi[p], {}) BY <1>1, TurnStarts DEF MayTurn
<1>3. WorldOf(multi, network, written, received).net[p] = OnWay(network[p]) BY WorldIs DEF IsWorldOf
<1> QED BY <1>1, <1>2, <1>3 DEF OrderFine

LEMMA WakeOrder ==
  ASSUME InOrderInv, MaxKeyId <= 5, NEW p \in Peers, NEW env \in Timers, Wake(p, env)
  PROVE  InOrderInv'
<1>1. multi[p].up /\ Possible(p, env) /\ Turn(p, multi[p], env, network[p]) /\ written' = written /\ received' = received
  BY DEF Wake
<1>2. Decrypts(WorldOf(multi, network, written', received'), p, multi[p]) BY <1>1, MayTurnNow DEF Decrypts
<1>3. RenewalsFit(multi[p], env)
  <2> SUFFICES ASSUME NEW i \in Slots, env.at = i, env.what = "renew"
               PROVE  multi[p].sess[i].nextKey < KeyIdMask
    BY DEF RenewalsFit
  <2>1. Prime(multi[p], i).state >= S_ACTIVE BY <1>1 DEF Possible, Prime
  <2>2. Live(Prime(multi[p], i)) BY <2>1, MayTurnNow, ActiveIsLive
  <2> QED BY <2>2, MayTurnNow DEF PeerRest
<1>4. Queue(network[p]) /\ OnWay(network[p]) \subseteq OnWay(network[p]) /\ DOMAIN written' = Peers /\ DOMAIN received' = Peers
  BY <1>1, MayTurnNow
<1> QED BY <1>1, <1>2, <1>3, <1>4, TurnStep

LEMMA FineRenews ==
  ASSUME NEW env, env \in Failures, NEW m
  PROVE  RenewalsFit(m, env)
BY DEF RenewalsFit, Failures, Fine

LEMMA FineFails ==
  Fine \in Failures
BY DEF Failures

LEMMA ReceiveOrder ==
  ASSUME InOrderInv, MaxKeyId <= 5, NEW p \in Peers, NEW env \in Failures, Receive(p, env)
  PROVE  InOrderInv'
<1>w. PICK W : W = WorldOf(multi, network, written, received) OBVIOUS
<1>a. PICK packet : packet = Head(network[p]) OBVIOUS
<1>b. PICK fresh : fresh = NewMulti(p, multi[p].n) OBVIOUS
<1>c. PICK opens : opens = (p = Server /\ PreDecryptLite(packet)) OBVIOUS
<1>m. PICK m : m = (IF multi[p].up THEN PreDecrypt(p, multi[p], packet) ELSE IF p = Server /\ PreDecryptLite(packet) THEN PreDecrypt(p, fresh, packet) ELSE multi[p])
  OBVIOUS
<1>1. /\ network[p] # <<>> /\ written' = written /\ received' = received
      /\ IF m.up THEN Turn(p, m, env, Tail(network[p]))
         ELSE /\ network' = [network EXCEPT ![p] = Tail(@)]
              /\ UNCHANGED multi
  BY <1>a, <1>b, <1>m DEF Receive
<1>2. TurnGood(W, p, multi[p], {}) /\ PeerRest(p, multi[p]) /\ W.net[p] = OnWay(network[p])
      /\ Queue(network[p]) /\ DOMAIN written' = Peers /\ DOMAIN received' = Peers
  BY <1>w, <1>1, MayTurnNow
<1>3. packet \in W.net[p] /\ Queue(Tail(network[p])) /\ OnWay(Tail(network[p])) \subseteq OnWay(network[p])
  BY <1>a, <1>1, <1>2, QueueParts
<1>4. CASE multi[p].up
  <2>1. m = PreDecrypt(p, multi[p], packet) BY <1>m, <1>4
  <2>2. Decrypts(W, p, m) BY <1>2, <1>3, <1>4, <2>1, PreDecryptGood DEF PeerRest
  <2>3. Turn(p, m, env, Tail(network[p])) /\ Decrypts(WorldOf(multi, network, written', received'), p, m)
    BY <1>w, <1>1, <2>2 DEF Decrypts
  <2> QED BY <1>2, <1>3, <2>3, TurnStep, FineRenews
<1>5. CASE ~multi[p].up /\ p = Server /\ PreDecryptLite(packet)
  <2>1. m = PreDecrypt(p, fresh, packet) BY <1>m, <1>5
  <2>2. TurnGood(W, p, fresh, {}) /\ PeerRest(p, fresh) /\ fresh.up BY <1>b, <1>2, NewMultiGood, NewMultiIs
  <2>3. Decrypts(W, p, m) BY <1>3, <2>1, <2>2, PreDecryptGood DEF PeerRest
  <2>4. Turn(p, m, env, Tail(network[p])) /\ Decrypts(WorldOf(multi, network, written', received'), p, m)
    BY <1>w, <1>1, <2>3 DEF Decrypts
  <2> QED BY <1>2, <1>3, <2>4, TurnStep, FineRenews
<1>6. CASE ~multi[p].up /\ ~(p = Server /\ PreDecryptLite(packet))
  <2>1. m = multi[p] BY <1>m, <1>6
  <2>2. multi' = multi /\ network' = [network EXCEPT ![p] = Tail(network[p])] BY <1>1, <1>6, <2>1
  <2>3. OrderFine(multi, network, written, received) BY DEF InOrderInv
  <2>4. OrderFine(multi, [network EXCEPT ![p] = Tail(network[p])], written, received)
    BY <1>3, <2>3, FewerPackets
  <2>5. OrderFine(multi', network', written', received') BY <1>1, <2>2, <2>4
  <2> QED BY <2>5 DEF InOrderInv
<1> QED BY <1>4, <1>5, <1>6

\* A packet less, or the same in another order.
LEMMA NetworkOrder ==
  ASSUME InOrderInv, NEW p \in Peers, Lose(p) \/ Delay(p)
  PROVE  InOrderInv'
<1>1. Queue(network[p]) BY MayTurnNow
<1>2. PICK rest : /\ Queue(rest) /\ OnWay(rest) \subseteq OnWay(network[p])
                  /\ network' = [network EXCEPT ![p] = rest] /\ multi' = multi /\ written' = written /\ received' = received
  <2>1. CASE Lose(p)
    <3>1. network[p] # <<>> /\ network' = [network EXCEPT ![p] = Tail(network[p])] /\ multi' = multi /\ written' = written /\ received' = received
      BY <2>1 DEF Lose
    <3> QED BY <1>1, <3>1, QueueParts
  <2>2. CASE Delay(p)
    <3>1. Len(network[p]) > 1 /\ network' = [network EXCEPT ![p] = Tail(network[p]) \o <<Head(network[p])>>]
          /\ multi' = multi /\ written' = written /\ received' = received
      BY <2>2 DEF Delay
    <3>2. network[p] # <<>> BY <3>1
    <3> QED BY <1>1, <3>1, <3>2, QueueParts
  <2> QED BY <2>1, <2>2
<1>3. OrderFine(multi, network, written, received) BY DEF InOrderInv
<1>4. OrderFine(multi, [network EXCEPT ![p] = rest], written, received) BY <1>2, <1>3, FewerPackets
<1>5. OrderFine(multi', network', written', received') BY <1>2, <1>4
<1> QED BY <1>5 DEF InOrderInv

LEMMA RepeatOrder ==
  ASSUME InOrderInv, MaxKeyId <= 5, NEW p \in Peers, Repeat(p)
  PROVE  InOrderInv'
<1>w. PICK W : W = WorldOf(multi, network, written, received) OBVIOUS
<1>a. PICK packet : packet = Head(network[p]) OBVIOUS
<1>m. PICK m : m = PreDecrypt(p, multi[p], packet) OBVIOUS
<1>1. network[p] # <<>> /\ written' = written /\ received' = received /\ multi[p].up
      /\ Turn(p, m, Fine, Append(Tail(network[p]), Head(network[p])))
  BY <1>a, <1>m DEF Repeat
<1>2. TurnGood(W, p, multi[p], {}) /\ PeerRest(p, multi[p]) /\ W.net[p] = OnWay(network[p])
      /\ Queue(network[p]) /\ DOMAIN written' = Peers /\ DOMAIN received' = Peers
  BY <1>w, <1>1, MayTurnNow
<1>3. packet \in W.net[p] /\ Queue(Append(Tail(network[p]), Head(network[p])))
      /\ OnWay(Append(Tail(network[p]), Head(network[p]))) \subseteq OnWay(network[p])
  BY <1>a, <1>1, <1>2, QueueParts
<1>4. Decrypts(W, p, m) BY <1>m, <1>1, <1>2, <1>3, PreDecryptGood DEF PeerRest
<1>5. Decrypts(WorldOf(multi, network, written', received'), p, m) BY <1>w, <1>1, <1>4
<1> QED BY <1>1, <1>2, <1>3, <1>5, TurnStep, FineRenews, FineFails

LEMMA ElapseOrder ==
  ASSUME InOrderInv, MaxKeyId <= 5, NEW p \in Peers, Elapse(p)
  PROVE  InOrderInv'
<1>w. PICK W : W = WorldOf(multi, network, written, received) OBVIOUS
<1>m. PICK m : m = [multi[p] EXCEPT !.sess[TM_ACTIVE] = Due(@), !.sess[TM_UNTRUSTED] = Due(@)] OBVIOUS
<1>1. written' = written /\ received' = received /\ multi[p].up /\ Turn(p, m, Fine, network[p])
  BY <1>m DEF Elapse
<1>2. TurnGood(W, p, multi[p], {}) /\ Queue(network[p]) /\ DOMAIN written' = Peers /\ DOMAIN received' = Peers
  BY <1>w, <1>1, MayTurnNow
<1>3. Decrypts(W, p, m) BY <1>m, <1>1, <1>2, ElapseGood
<1>4. Decrypts(WorldOf(multi, network, written', received'), p, m) BY <1>w, <1>1, <1>3
<1> QED BY <1>1, <1>2, <1>4, TurnStep, FineRenews, FineFails

\* A peer that has been made anew, or is gone.
LEMMA InsteadFine ==
  ASSUME NEW mu, NEW nw, NEW w, NEW r, OrderFine(mu, nw, w, r), MaxKeyId <= 5, NEW p \in Peers, NEW d,
         TurnGood(WorldOf(mu, nw, w, r), p, d, {}), Gone(d), d.up => Rested(p, d),
         \A i \in Sessions : d.sess[i].nextKey <= MaxKeyId + 1
  PROVE  OrderFine([mu EXCEPT ![p] = d], nw, w, r)
<1>w. PICK W : W = WorldOf(mu, nw, w, r) OBVIOUS
<1>x. PICK x : x = [m |-> d, sent |-> <<>>, again |-> FALSE] OBVIOUS
<1>1. x.m = d /\ x.sent = <<>> /\ x.again = FALSE BY <1>x
<1>3. Queue(<<>>) /\ OnWay(<<>>) = {}
  <2>1. <<>> \in Seq({}) OBVIOUS
  <2> QED BY <2>1 DEF Queue, OnWay
<1>4. CallGood(W, p, x) BY <1>w, <1>1, <1>3 DEF CallGood
<1>5. \A i \in Sessions : x.m.sess[i].nextKey <= MaxKeyId + 1 BY <1>1
<1>6. Queue(nw[p]) /\ Queue(nw[Other(p)]) /\ DOMAIN nw = Peers /\ DOMAIN w = Peers /\ DOMAIN r = Peers /\ Other(p) # p /\ Other(p) \in Peers
  BY PeersAre DEF OrderFine
<1>n. PICK nw2 : nw2 = [nw EXCEPT ![p] = nw[p], ![Other(p)] = nw[Other(p)] \o x.sent] OBVIOUS
<1>7. OrderFine([mu EXCEPT ![p] = x.m], nw2, w, r)
  <2>1. CallGood(WorldOf(mu, nw, w, r), p, x) BY <1>w, <1>4
  <2>2. x.again => ~x.m.up BY <1>1
  <2>3. OrderFine([mu EXCEPT ![p] = x.m], [nw EXCEPT ![p] = nw[p], ![Other(p)] = nw[Other(p)] \o x.sent], w, r)
    BY <1>5, <1>6, <2>1, <2>2, TurnEnds
  <2> QED BY <1>n, <2>3
<1>8. OrderFine([mu EXCEPT ![p] = d], nw2, w, r) BY <1>1, <1>7
<1>9. \A a \in Peers : Queue(nw[a]) /\ OnWay(nw2[a]) = OnWay(nw[a])
  <2>1. OnWay(nw[Other(p)] \o <<>>) = OnWay(nw[Other(p)]) BY <1>3, <1>6, OnWayIs
  <2>2. nw2[p] = nw[p] /\ nw2[Other(p)] = nw[Other(p)] \o <<>> BY <1>n, <1>1, <1>6
  <2> QED BY <1>6, <2>1, <2>2, PeersAre
<1>10. WorldOf([mu EXCEPT ![p] = d], nw2, w, r) = WorldOf([mu EXCEPT ![p] = d], nw, w, r)
  <2>1. [a \in Peers |-> OnWay(nw2[a])] = [a \in Peers |-> OnWay(nw[a])] BY <1>9
  <2> QED BY <2>1 DEF WorldOf
<1>11. OrderFine([mu EXCEPT ![p] = d], nw, w, r) BY <1>6, <1>8, <1>9, <1>10 DEF OrderFine
<1> QED BY <1>11

LEMMA NextKeysFit ==
  ASSUME NEW d, NEW p, \A i \in Sessions : d.sess[i] = NoSession \/ \E n2 : d.sess[i] = NewSession(p, n2)
  PROVE  \A i \in Sessions : d.sess[i].nextKey <= MaxKeyId + 1
<1>1. NoSession.nextKey = 0 /\ 0 <= MaxKeyId + 1 /\ 1 <= MaxKeyId + 1 BY BoundsAssumption DEF NoSession
<1>2. \A n2 : NewSession(p, n2).nextKey = 1 BY DEF NewSession
<1> QED BY <1>1, <1>2

LEMMA DownFine ==
  ASSUME NEW mu, NEW nw, NEW w, NEW r, OrderFine(mu, nw, w, r), MaxKeyId <= 5, NEW p \in Peers
  PROVE  OrderFine([mu EXCEPT ![p] = Down(mu[p].n)], nw, w, r)
<1>w. PICK W : W = WorldOf(mu, nw, w, r) OBVIOUS
<1>d. PICK d : d = Down(mu[p].n) OBVIOUS
<1>1. TurnGood(W, p, d, {}) /\ ~d.up /\ \A i \in Sessions : d.sess[i] = NoSession /\ Prime(d, i) = Undef
  <2>1. TurnGood(W, p, mu[p], {}) BY <1>w, TurnStarts DEF MayTurn
  <2> QED BY <1>d, <2>1, DownGood, DownIs
<1>2. Gone(d) BY <1>1, UndefIs, SlotsAre DEF Gone
<1>3. \A i \in Sessions : d.sess[i].nextKey <= MaxKeyId + 1 BY <1>1, NextKeysFit
<1> QED BY <1>w, <1>d, <1>1, <1>2, <1>3, InsteadFine

LEMMA RestartOrder ==
  ASSUME InOrderInv, MaxKeyId <= 5, NEW p \in Peers, Restart(p)
  PROVE  InOrderInv'
<1>w. PICK W : W = WorldOf(multi, network, written, received) OBVIOUS
<1>m. PICK m : m = NewMulti(p, multi[p].n) OBVIOUS
<1>1. /\ written' = written /\ received' = received
      /\ \/ Turn(p, m, Fine, network[p])
         \/ multi' = [multi EXCEPT ![p] = Down(multi[p].n)] /\ network' = network
  BY <1>m DEF Restart
<1>2. TurnGood(W, p, multi[p], {}) /\ Queue(network[p]) /\ DOMAIN written' = Peers /\ DOMAIN received' = Peers
  BY <1>w, <1>1, MayTurnNow
<1>3. CASE Turn(p, m, Fine, network[p])
  <2>1. Decrypts(W, p, m) BY <1>m, <1>2, NewMultiGood, NewMultiIs DEF Decrypts
  <2>2. Decrypts(WorldOf(multi, network, written', received'), p, m) BY <1>w, <1>1, <2>1
  <2> QED BY <1>2, <1>3, <2>2, TurnStep, FineRenews, FineFails
<1>4. CASE multi' = [multi EXCEPT ![p] = Down(multi[p].n)] /\ network' = network
  <2>1. OrderFine(multi, network, written, received) BY DEF InOrderInv
  <2>2. OrderFine([multi EXCEPT ![p] = Down(multi[p].n)], network, written, received) BY <2>1, DownFine
  <2>3. OrderFine(multi', network', written', received') BY <1>1, <1>4, <2>2
  <2> QED BY <2>3 DEF InOrderInv
<1> QED BY <1>1, <1>3, <1>4

\* What the program above a peer does to the peer's active key.
LEMMA OwnSet ==
  ASSUME NEW m, MultiFine(m), NEW k2
  PROVE  SetTo(m, [m EXCEPT !.sess[TM_ACTIVE].keys[KS_PRIMARY] = k2], TM_ACTIVE, WithKey(m.sess[TM_ACTIVE], k2))
<1>1. MultiFields \subseteq DOMAIN m /\ Sessions \subseteq DOMAIN m.sess /\ TM_ACTIVE \in Sessions
  BY SlotsAre DEF MultiFine
<1>2. SetTo(m, [m EXCEPT !.sess[TM_ACTIVE] = WithKey(m.sess[TM_ACTIVE], k2)], TM_ACTIVE, WithKey(m.sess[TM_ACTIVE], k2))
  BY <1>1, SetIs
<1> QED BY <1>2 DEF WithKey

LEMMA OwnWorldIs ==
  ASSUME InOrderInv, NEW p \in Peers, NEW w, NEW r, NEW W, W = WorldOf(multi, network, written, received),
         NEW W2, W2 = WorldOf(multi, network, w, r), w[Other(p)] = written[Other(p)], r[Other(p)] = received[Other(p)],
         w[p] = written[p] \/ w[p] = written[p] + 1
  PROVE  OwnWorld(W, W2, p) /\ W.written = written /\ W.received = received /\ W2.written = w /\ W2.received = r
<1>1. IsWorldOf(W, multi, network, written, received) /\ IsWorldOf(W2, multi, network, w, r) BY WorldIs
<1>2. SameKeys(W, W2) BY <1>1 DEF IsWorldOf, SameKeys
<1>3. written[p] \in Nat
  <2>1. Good(W) BY DEF InOrderInv, OrderFine
  <2> QED BY <1>1, <2>1 DEF Good, PeerGood, IsWorldOf
<1>4. W.written = written /\ W.received = received /\ W2.written = w /\ W2.received = r BY <1>1 DEF IsWorldOf
<1>5. w[p] \in Nat /\ written[p] <= w[p] BY <1>3
<1> QED BY <1>2, <1>4, <1>5 DEF OwnWorld

LEMMA GivenIs ==
  ASSUME NEW k, Shaped(k), NEW n, NEW k2,
         k2 = IF k.state >= S_ACTIVE THEN [k EXCEPT !.tls.out = Append(@, <<"pay", n>>)] ELSE [k EXCEPT !.pay = Append(@, n)]
  PROVE  Given(k, k2, n)
<1>1. KeyFields \subseteq DOMAIN k /\ TlsFields \subseteq DOMAIN k.tls /\ k.state \in S_INITIAL..S_NORMAL_OP
  BY DEF Shaped
<1>2. CASE k.state >= S_ACTIVE
  <2>1. k2 = [k EXCEPT !.tls = [k.tls EXCEPT !.out = Append(k.tls.out, <<"pay", n>>)]] BY <1>2
  <2>2. Keeps(k, k2, {"tls"}) /\ k2.tls = [k.tls EXCEPT !.out = Append(k.tls.out, <<"pay", n>>)]
    BY <1>1, <2>1 DEF Keeps, KeyFields
  <2>3. KeepsTls(k.tls, k2.tls, {"out"}) /\ k2.tls.out = Append(k.tls.out, <<"pay", n>>)
    BY <1>1, <2>2 DEF KeepsTls, TlsFields
  <2> QED BY <1>2, <2>2, <2>3 DEF Given
<1>3. CASE ~(k.state >= S_ACTIVE)
  <2>1. k2 = [k EXCEPT !.pay = Append(k.pay, n)] /\ k.state < S_ACTIVE BY <1>1, <1>3
  <2>2. Keeps(k, k2, {"pay"}) /\ k2.pay = Append(k.pay, n) BY <1>1, <2>1 DEF Keeps, KeyFields
  <2> QED BY <2>1, <2>2 DEF Given
<1> QED BY <1>2, <1>3

LEMMA SendPayloadOrder ==
  ASSUME InOrderInv, MaxKeyId <= 5, NEW p \in Peers, SendPayload(p)
  PROVE  InOrderInv'
<1>w. PICK W : W = WorldOf(multi, network, written, received) OBVIOUS
<1>x. PICK W2 : W2 = WorldOf(multi, network, written', received') OBVIOUS
<1>m. PICK m : m = multi[p] OBVIOUS
<1>n. PICK n : n = written[p] + 1 OBVIOUS
<1>k. PICK k : k = Prime(m, TM_ACTIVE) OBVIOUS
<1>l. PICK k2 : k2 = IF k.state >= S_ACTIVE THEN [k EXCEPT !.tls.out = Append(@, <<"pay", n>>)] ELSE [k EXCEPT !.pay = Append(@, n)]
  OBVIOUS
<1>t. PICK m2 : m2 = [m EXCEPT !.sess[TM_ACTIVE].keys[KS_PRIMARY] = k2] OBVIOUS
<1>1. m.up /\ Turn(p, m2, Fine, network[p]) /\ written' = [written EXCEPT ![p] = n] /\ received' = received
  BY Zenon, <1>m, <1>n, <1>k, <1>l, <1>t DEF SendPayload, Prime
<1>2. /\ TurnGood(W, p, m, {}) /\ Queue(network[p]) /\ DOMAIN written = Peers /\ DOMAIN received = Peers
  BY <1>w, <1>m, MayTurnNow
<1>3. DOMAIN written' = Peers /\ DOMAIN received' = Peers /\ written'[p] = n /\ written'[Other(p)] = written[Other(p)]
  BY <1>1, <1>2, PeersAre
<1>4. OwnWorld(W, W2, p) /\ W.written = written /\ W.received = received /\ W2.written = written' /\ W2.received = received'
  <2>1. written'[p] = written[p] + 1 /\ received'[Other(p)] = received[Other(p)] BY <1>1, <1>3, <1>n
  <2> QED BY <1>w, <1>x, <1>3, <2>1, OwnWorldIs
<1>5. Given(k, k2, n)
  <2>1. Live(k) /\ TM_ACTIVE \in Slots BY <1>1, <1>2, <1>k, SlotsAre DEF TurnGood, MultiFine
  <2>2. Shaped(k) BY <1>2, <1>k, <2>1, InTurnIs DEF InTurn
  <2> QED BY <1>l, <2>2, GivenIs
<1>6. SetTo(m, m2, TM_ACTIVE, WithKey(m.sess[TM_ACTIVE], k2)) BY <1>2, <1>t, OwnSet DEF TurnGood
<1>7. Decrypts(W2, p, m2)
  <2>1. W2.received[p] = W.received[p] /\ n = W.written[p] + 1 /\ W2.written[p] = n BY <1>1, <1>3, <1>4, <1>n
  <2> QED BY ONLY p \in Peers, <1>1, <1>2, <1>4, <1>5, <1>6, <1>k, <2>1, GiveGood
<1>8. Decrypts(WorldOf(multi, network, written', received'), p, m2) /\ OnWay(network[p]) \subseteq OnWay(network[p])
  BY <1>x, <1>7
<1> QED BY <1>1, <1>2, <1>3, <1>8, TurnStep, FineRenews, FineFails

LEMMA ReceivePayloadOrder ==
  ASSUME InOrderInv, MaxKeyId <= 5, NEW p \in Peers, ReceivePayload(p)
  PROVE  InOrderInv'
<1>w. PICK W : W = WorldOf(multi, network, written, received) OBVIOUS
<1>x. PICK W2 : W2 = WorldOf(multi, network, written', received') OBVIOUS
<1>m. PICK m : m = multi[p] OBVIOUS
<1>k. PICK k : k = Prime(m, TM_ACTIVE) OBVIOUS
<1>t. PICK t : t = k.read[1] OBVIOUS
<1>l. PICK k2 : k2 = [k EXCEPT !.read = <<>>] OBVIOUS
<1>y. PICK m2 : m2 = [m EXCEPT !.sess[TM_ACTIVE].keys[KS_PRIMARY] = k2] OBVIOUS
<1>1. /\ k.state >= S_ACTIVE /\ k.read # <<>> /\ received' = [received EXCEPT ![p] = Append(received[p], t)]
      /\ written' = written /\ Turn(p, [m EXCEPT !.sess[TM_ACTIVE].keys[KS_PRIMARY].read = <<>>], Fine, network[p])
  BY <1>m, <1>k, <1>t DEF ReceivePayload, Prime
<1>2. /\ TurnGood(W, p, m, {}) /\ PeerRest(p, m) /\ Queue(network[p]) /\ DOMAIN written = Peers /\ DOMAIN received = Peers
  BY <1>w, <1>m, MayTurnNow
<1>3. DOMAIN written' = Peers /\ DOMAIN received' = Peers /\ received'[p] = Append(received[p], t)
      /\ received'[Other(p)] = received[Other(p)]
  BY <1>1, <1>2, PeersAre
<1>4. OwnWorld(W, W2, p) /\ W.written = written /\ W.received = received /\ W2.written = written' /\ W2.received = received'
  <2>1. written'[p] = written[p] /\ written'[Other(p)] = written[Other(p)] BY <1>1
  <2> QED BY <1>w, <1>x, <1>3, <2>1, OwnWorldIs
<1>5. Live(k) /\ TM_ACTIVE \in Slots BY <1>1, <1>2, <1>k, SlotsAre, ActiveIsLive
<1>6. m.up BY <1>2, <1>5, <1>k DEF PeerRest, Gone
<1>7. TakesOut(k, k2)
  <2>1. Shaped(k) BY <1>2, <1>k, <1>5, InTurnIs DEF InTurn
  <2>2. KeyFields \subseteq DOMAIN k BY <2>1 DEF Shaped
  <2>3. Keeps(k, k2, {"read"}) /\ k2.read = <<>> BY <1>l, <2>2 DEF Keeps, KeyFields
  <2> QED BY <1>1, <2>3 DEF TakesOut
<1>8. SetTo(m, m2, TM_ACTIVE, WithKey(m.sess[TM_ACTIVE], k2)) BY <1>2, <1>y, OwnSet DEF TurnGood
<1>9. m2 = [m EXCEPT !.sess[TM_ACTIVE].keys[KS_PRIMARY].read = <<>>] BY <1>y, <1>l, <1>k DEF Prime
<1>10. Decrypts(W2, p, m2)
  <2>1. W2.written[p] = W.written[p] /\ W2.received[p] = Append(W.received[p], t) BY <1>1, <1>3, <1>4
  <2> QED BY ONLY p \in Peers, <1>2, <1>4, <1>6, <1>7, <1>8, <1>k, <1>t, <2>1, TakeOutGood
<1>11. Decrypts(WorldOf(multi, network, written', received'), p, m2) /\ OnWay(network[p]) \subseteq OnWay(network[p])
       /\ Turn(p, m2, Fine, network[p])
  BY <1>x, <1>1, <1>9, <1>10
<1> QED BY <1>2, <1>3, <1>11, TurnStep, FineRenews, FineFails

\* A world in which nothing has happened yet.
LEMMA EmptyWorldGood ==
  ASSUME NEW W, \A a \in Peers : W.n[a] = 0 /\ W.written[a] = 0 /\ W.received[a] = <<>> /\ W.net[a] = {},
         \A a \in Peers, j \in Slots : W.key[a][j] = Undef /\ W.sid[a][j] = NoSid
  PROVE  Good(W)
<1> SUFFICES ASSUME NEW p \in Peers PROVE PeerGood(W, p) BY DEF Good
<1>1. Other(p) \in Peers /\ Other(Other(p)) = p /\ TM_ACTIVE \in Slots /\ TM_UNTRUSTED \in Slots
  BY PeersAre, SlotsAre
<1>2. Mail(W, p) = {} BY <1>1, UndefIs DEF Mail
<1>3. MailGood(W, p) BY <1>2 DEF MailGood, Mail
<1>4. <<>> \in Seq(Text) /\ DOMAIN <<>> = {} OBVIOUS
<1>5. W.received[p] \in Seq(Text) /\ Pays(W.received[p], W.written[Other(p)]) /\ Rising(W.received[p])
  BY <1>4 DEF Pays, Rising
<1>6. ~Live(W.key[p][TM_ACTIVE]) /\ ~Live(W.key[p][TM_UNTRUSTED]) BY <1>1, UndefIs
<1> QED BY <1>3, <1>5, <1>6 DEF PeerGood

LEMMA InitOrder ==
  ASSUME Init, MaxKeyId <= 5
  PROVE  InOrderInv
<1>d. PICK d : d = Down(0) OBVIOUS
<1>u. PICK mu : mu = [p \in Peers |-> d] OBVIOUS
<1>w. PICK W : W = WorldOf(mu, network, written, received) OBVIOUS
<1>m. PICK m : m = NewMulti(Client, 0) OBVIOUS
<1>1. /\ network = [p \in Peers |-> <<>>] /\ written = [p \in Peers |-> 0] /\ received = [p \in Peers |-> <<>>]
      /\ multi = [p \in Peers |-> IF p = Client THEN m ELSE d]
  <2>1. multi = [p \in Peers |-> IF p = Client THEN NewMulti(p, 0) ELSE Down(0)] BY DEF Init
  <2>2. multi = [p \in Peers |-> IF p = Client THEN m ELSE d] BY <2>1, <1>m, <1>d
  <2> QED BY <2>2 DEF Init
<1>2. MultiFine(d) /\ d.n = 0 /\ ~d.up /\ \A i \in Sessions : d.sess[i] = NoSession /\ Prime(d, i) = Undef
  BY <1>d, DownIs
<1>3. PeerRest(Client, d) /\ PeerRest(Server, d)
  <2>1. \A i \in Slots : ~Live(Prime(d, i)) BY <1>2, UndefIs, SlotsAre
  <2> QED BY <1>2, <2>1, SlotsAre DEF PeerRest, Rested, Gone
<1>4. Queue(<<>>) /\ OnWay(<<>>) = {}
  <2>1. <<>> \in Seq({}) OBVIOUS
  <2> QED BY <2>1 DEF Queue, OnWay
<1>5. Good(W)
  <2>1. IsWorldOf(W, mu, network, written, received) BY <1>w, WorldIs
  <2>2. \A a \in Peers : mu[a] = d /\ network[a] = <<>> /\ written[a] = 0 /\ received[a] = <<>> BY <1>1, <1>u
  <2>3. NoSession.sid = NoSid BY DEF NoSession
  <2>4. \A a \in Peers : W.n[a] = 0 /\ W.written[a] = 0 /\ W.received[a] = <<>> /\ W.net[a] = {}
    BY <1>2, <1>4, <2>1, <2>2 DEF IsWorldOf
  <2>5. \A a \in Peers, j \in Slots : W.key[a][j] = Undef /\ W.sid[a][j] = NoSid
    BY <1>2, <2>1, <2>2, <2>3, SlotsAre DEF IsWorldOf
  <2> QED BY <2>4, <2>5, EmptyWorldGood
<1>6. OrderFine(mu, network, written, received)
  <2>1. DOMAIN mu = Peers /\ DOMAIN network = Peers /\ DOMAIN written = Peers /\ DOMAIN received = Peers
    BY <1>1, <1>u
  <2>2. \A p \in Peers : PeerRest(p, mu[p]) /\ Queue(network[p]) BY <1>1, <1>3, <1>4, <1>u DEF Peers
  <2> QED BY <1>5, <1>w, <2>1, <2>2 DEF OrderFine
<1>7. Client \in Peers /\ mu[Client] = d BY <1>u DEF Peers
<1>8. TurnGood(W, Client, m, {}) /\ PeerRest(Client, m)
  <2>1. TurnGood(W, Client, d, {}) BY <1>6, <1>7, <1>w, TurnStarts DEF MayTurn
  <2> QED BY <1>2, <1>7, <1>m, <2>1, NewMultiGood, NewMultiIs
<1>9. \A i \in Sessions : m.sess[i].nextKey <= MaxKeyId + 1
  <2>1. \A i \in Sessions : m.sess[i] = NoSession \/ \E n2 : m.sess[i] = NewSession(Client, n2)
    BY <1>m, NewMultiIs DEF Sessions
  <2> QED BY <2>1, NextKeysFit
<1>10. OrderFine([mu EXCEPT ![Client] = m], network, written, received)
  BY <1>6, <1>7, <1>8, <1>9, <1>w, InsteadFine DEF PeerRest
<1>11. multi = [mu EXCEPT ![Client] = m] BY <1>1, <1>u
<1> QED BY <1>10, <1>11 DEF InOrderInv

LEMMA NextOrder ==
  ASSUME InOrderInv, MaxKeyId <= 5, [Next]_vars
  PROVE  InOrderInv'
<1>1. CASE Next
  <2> PICK p \in Peers : \/ \E env \in Timers : Wake(p, env)
                         \/ \E env \in Failures : Receive(p, env)
                         \/ Lose(p) \/ Delay(p) \/ Repeat(p) \/ Elapse(p) \/ Restart(p)
                         \/ SendPayload(p) \/ ReceivePayload(p)
    BY <1>1 DEF Next
  <2>1. CASE \E env \in Timers : Wake(p, env) BY <2>1, WakeOrder
  <2>2. CASE \E env \in Failures : Receive(p, env) BY <2>2, ReceiveOrder
  <2>3. CASE Lose(p) \/ Delay(p) BY <2>3, NetworkOrder
  <2>4. CASE Repeat(p) BY <2>4, RepeatOrder
  <2>5. CASE Elapse(p) BY <2>5, ElapseOrder
  <2>6. CASE Restart(p) BY <2>6, RestartOrder
  <2>7. CASE SendPayload(p) BY <2>7, SendPayloadOrder
  <2>8. CASE ReceivePayload(p) BY <2>8, ReceivePayloadOrder
  <2> QED BY <2>1, <2>2, <2>3, <2>4, <2>5, <2>6, <2>7, <2>8
<1>2. CASE UNCHANGED vars BY <1>2 DEF InOrderInv, vars
<1> QED BY <1>1, <1>2

LEMMA OrderKept ==
  ASSUME InOrderInv
  PROVE  PayloadsInOrder
<1>w. PICK W : W = WorldOf(multi, network, written, received) OBVIOUS
<1>1. Good(W) /\ W.written = written /\ W.received = received
  BY <1>w, WorldIs DEF InOrderInv, OrderFine, IsWorldOf
<1> SUFFICES ASSUME NEW p \in Peers, NEW i \in DOMAIN received[p], NEW j \in DOMAIN received[p]
             PROVE  /\ received[p][i][1] = "pay" /\ received[p][i][2] <= written[Other(p)]
                    /\ i < j => received[p][i][2] < received[p][j][2]
  BY DEF PayloadsInOrder
<1>2. Pays(received[p], written[Other(p)]) /\ Rising(received[p]) BY <1>1 DEF Good, PeerGood
<1>3. IsPay(received[p][i], written[Other(p)]) /\ IsPay(received[p][j], written[Other(p)]) BY <1>2 DEF Pays
<1>4. received[p][i][2] <= written[Other(p)] BY <1>3 DEF IsPay
<1> QED BY <1>2, <1>3, <1>4 DEF IsPay, Rising

\* Whatever the network loses, repeats and reorders, and whoever starts again or renews a key, a
\* program takes the payloads of its peer in the order they were given to tls_send_payload(), none
\* twice and none that was not given.  A session's key ids do not wrap: P_KEY_ID_MASK is 7.
THEOREM PayloadsStayInOrder ==
  ASSUME MaxKeyId <= 5
  PROVE  Spec => []PayloadsInOrder
<1>1. Init => InOrderInv BY InitOrder
<1>2. InOrderInv /\ [Next]_vars => InOrderInv' BY NextOrder
<1>3. InOrderInv => PayloadsInOrder BY OrderKept
<1> QED BY <1>1, <1>2, <1>3, PTL DEF Spec

\* Two keys of a world at rest that are connected.
LEMMA WorldAgrees ==
  ASSUME NEW W, Good(W), NEW p \in Peers, NEW q, q = Other(p), NEW i \in Slots, NEW j \in Slots,
         NEW k, k = W.key[p][i], NEW o, o = W.key[q][j], k.state >= S_ACTIVE, Live(o), k.tls.peer = Name(W, q, j), Idle(q, o)
  PROVE  o.tls.peer = Name(W, p, i) /\ DecryptKeyEnabled(q, o)
<1>3. q \in Peers /\ Other(q) = p /\ ((p = Client /\ q = Server) \/ (p = Server /\ q = Client)) /\ Client # Server
  BY PeersAre, PeersAssumption DEF Other, Peers
<1>4. SlotGood(W, p, i) /\ SlotGood(W, q, j)
  <2>1. k # Undef BY DEF Undef, KeyState
  <2>2. SlotGood(W, p, i) BY <2>1 DEF Good, PeerGood
  <2>3. SlotGood(W, q, j) BY <1>3, LiveIsGood
  <2> QED BY <2>2, <2>3
<1>5. /\ Shaped(k) /\ Sends(p, k, Name(W, p, i), W.written[p]) /\ Paired(W, p, i)
      /\ Shaped(o) /\ Sends(q, o, Name(W, q, j), W.written[q]) /\ Receives(q, o, W.written[p])
  <2>1. KeyGood(p, k, Name(W, p, i), W.written[p], W.written[q]) /\ Paired(W, p, i) BY <1>4 DEF SlotGood
  <2>2. KeyGood(q, o, Name(W, q, j), W.written[q], W.written[p]) BY <1>3, <1>4 DEF SlotGood
  <2> QED BY <2>1, <2>2 DEF KeyGood
<1>6. k.state \in Int /\ o.state \in Int /\ o.recNext \in Nat /\ o.next \in Nat /\ k.next \in Nat
  <2>1. ASSUME NEW a, Shaped(a) PROVE a.state \in Int /\ a.recNext \in Nat /\ a.next \in Nat
    BY <2>1 DEF Shaped
  <2> QED BY <1>5, <2>1
<1>7. HasText(p, k) BY <1>6 DEF HasText, DecryptKeyEnabled
<1>8. o.tls.peer = Name(W, p, i) /\ o.next >= 3 BY <1>5, <1>7 DEF Paired
<1>9. KeySent(q, o) BY <1>5, <1>6, <1>8 DEF Sends
<1>10. CASE q = Server BY <1>6, <1>8, <1>9, <1>10 DEF KeySent, DecryptKeyEnabled
<1>11. CASE q = Client
  <2>1. k.next >= 3 /\ 2 \notin Packets(k)
    <3>1. k.next >= 3 /\ \A u \in k.unacked : u.pid >= 3 BY <1>5, <1>6 DEF Sends
    <3> QED BY <3>1 DEF Packets
  <2>2. ServerGood(W, i) BY <1>3, <1>4, <1>11 DEF SlotGood
  <2>3. 2 \in Got(o) BY <1>3, <1>11, <2>1, <2>2 DEF ServerGood
  <2>4. o.tls.peer # NoSid BY <1>8 DEF Name, NoSid
  <2>5. o.recNext >= 2 BY <1>5, <2>4 DEF Receives
  <2>7. o.recNext # 2
    <3>1. SUFFICES ASSUME o.recNext = 2 PROVE FALSE OBVIOUS
    <3>2. \E r \in o.rec : r.pid = 2 BY <2>3, <3>1 DEF Got
    <3> QED BY <3>1, <3>2 DEF Idle, InOrder
  <2> QED BY <1>6, <1>8, <2>5, <2>7 DEF Idle
<1> QED BY <1>3, <1>10, <1>11

LEMMA AgreeKept ==
  ASSUME InOrderInv
  PROVE  EndsAgree
<1>w. PICK W : W = WorldOf(multi, network, written, received) OBVIOUS
<1>1. Good(W) /\ (\A a \in Peers : Rested(a, multi[a]))
      /\ \A a \in Peers, h \in Slots : W.key[a][h] = Prime(multi[a], h) /\ W.sid[a][h] = multi[a].sess[h].sid
  BY <1>w, WorldIs DEF InOrderInv, OrderFine, IsWorldOf, PeerRest
<1>2. ASSUME NEW p \in Peers, NEW i \in Slots, NEW j \in Slots, NEW k, k = Prime(multi[p], i), NEW o, o = Prime(multi[Other(p)], j),
             k.state >= S_ACTIVE, o.state >= S_INITIAL, k.tls.peer = <<multi[Other(p)].sess[j].sid, o.keyId>>
      PROVE  o.tls.peer = <<multi[p].sess[i].sid, k.keyId>> /\ DecryptKeyEnabled(Other(p), o)
  <2>1. Other(p) \in Peers BY PeersAre
  <2>2. k = W.key[p][i] /\ o = W.key[Other(p)][j] /\ Live(o) /\ k.tls.peer = Name(W, Other(p), j)
        /\ Name(W, p, i) = <<multi[p].sess[i].sid, k.keyId>>
    BY <1>1, <1>2, <2>1 DEF Live, Name
  <2>3. Idle(Other(p), o) BY <1>1, <1>2, <2>1, <2>2 DEF Rested
  <2> QED BY <1>1, <1>2, <2>2, <2>3, WorldAgrees
<1>3. SUFFICES ASSUME NEW p \in Peers, NEW i \in Slots, NEW j \in Slots,
                      Prime(multi[p], i).state >= S_ACTIVE, Prime(multi[Other(p)], j).state >= S_INITIAL,
                      Prime(multi[p], i).tls.peer = <<multi[Other(p)].sess[j].sid, Prime(multi[Other(p)], j).keyId>>
               PROVE  /\ Prime(multi[Other(p)], j).tls.peer = <<multi[p].sess[i].sid, Prime(multi[p], i).keyId>>
                      /\ DecryptKeyEnabled(Other(p), Prime(multi[Other(p)], j))
  BY DEF EndsAgree, Prime, Slots
<1> QED BY <1>2, <1>3

\* Whatever has been lost, repeated or delayed, has failed, expired or started again: the key that
\* a key which sends is connected with, if it is still a primary one, is connected with that key in
\* turn and decrypts.  So no end ever takes a key into use that the other has not taken yet.
THEOREM EndsAlwaysAgree ==
  ASSUME MaxKeyId <= 5
  PROVE  Spec => []EndsAgree
<1>1. Init => InOrderInv BY InitOrder
<1>2. InOrderInv /\ [Next]_vars => InOrderInv' BY NextOrder
<1>3. InOrderInv => EndsAgree BY AgreeKept
<1> QED BY <1>1, <1>2, <1>3, PTL DEF Spec
=============================================================================
