--------------------------- MODULE InitPkt_proofs ---------------------------
(***************************************************************************)
(* The NEW_DEVICE message for every device: what parse_init_pkt reads of   *)
(* what build_init_pkt writes, whole or cut, and how much build_init_pkt   *)
(* writes.                                                                 *)
(***************************************************************************)
EXTENDS InitPkt, QueueLemmas

-----------------------------------------------------------------------------
(* The settings and the packet *)

ASetting == [intf : Nat, alt : Nat, len : InterfaceSize..255, eps : Seq(DescribedEndpoints)]
Descs    == {InterfaceDesc(s) : s \in ASetting} \cup {EndpointDesc(e) : e \in DescribedEndpoints}

\* The settings of a device are settings, and the descriptors of a setting are its
\* interface descriptor and one for each endpoint.
LEMMA SettingsType ==
    ASSUME NEW device \in Descriptions
    PROVE  SettingsOf(device) \in Seq(ASetting)
<1> DEFINE E == DescribedSettings
           row(i) == [j \in DOMAIN device[i] |-> [intf |-> i, alt |-> j, len |-> device[i][j].len,
                                                eps |-> device[i][j].eps]]
           rows == [i \in DOMAIN device |-> row(i)]
<1>1. Len(device) \in Nat /\ DOMAIN device = 1..Len(device)
      /\ \A i \in 1..Len(device) : device[i] \in Seq(E)
  BY LenProperties, ElementOfSeq DEF Descriptions
<1>2. ASSUME NEW i \in 1..Len(device) PROVE row(i) \in Seq(ASetting)
  <2> DEFINE d == device[i]
  <2>1. Len(d) \in Nat /\ DOMAIN d = 1..Len(d) /\ \A j \in 1..Len(d) : d[j] \in E
    BY <1>1, LenProperties, ElementOfSeq
  <2>2. i \in Nat
    BY <1>1
  <2>3. \A j \in 1..Len(d) : [intf |-> i, alt |-> j, len |-> d[j].len, eps |-> d[j].eps] \in ASetting
    <3>1. \A j \in 1..Len(d) : d[j].len \in InterfaceSize..255 /\ d[j].eps \in Seq(DescribedEndpoints)
      BY <2>1 DEF DescribedSettings
    <3>2. \A j \in 1..Len(d) : j \in Nat
      BY <2>1
    <3> HIDE DEF d
    <3> QED
      BY <2>2, <3>1, <3>2 DEF ASetting
  <2> HIDE DEF d
  <2>4. [j \in 1..Len(d) |-> [intf |-> i, alt |-> j, len |-> d[j].len, eps |-> d[j].eps]] \in [1..Len(d) -> ASetting]
    BY <2>3
  <2>5. [j \in 1..Len(d) |-> [intf |-> i, alt |-> j, len |-> d[j].len, eps |-> d[j].eps]] \in Seq(ASetting)
    BY <2>1, <2>4, SeqDef
  <2> QED
    BY <2>1, <2>5 DEF d
<1>3. rows \in [1..Len(device) -> Seq(ASetting)]
  <2> HIDE DEF row
  <2> QED
    BY <1>1, <1>2
<1>4. rows \in Seq(Seq(ASetting))
  <2> HIDE DEF rows
  <2> QED
    BY <1>1, <1>3, SeqDef
<1>5. SettingsOf(device) = FlattenSeq(rows)
  BY DEF SettingsOf
<1> HIDE DEF rows
<1> QED
  BY <1>4, <1>5, FlattenLayout

LEMMA SettingIs ==
    ASSUME NEW s \in ASetting
    PROVE  /\ s.intf \in Nat /\ s.alt \in Nat /\ s.len \in 9..255
           /\ s.eps \in Seq(DescribedEndpoints) /\ Len(s.eps) \in Nat
           /\ DOMAIN s.eps = 1..Len(s.eps)
           /\ s = [intf |-> s.intf, alt |-> s.alt, len |-> s.len, eps |-> s.eps]
<1>1. /\ s.intf \in Nat /\ s.alt \in Nat /\ s.len \in 9..255 /\ s.eps \in Seq(DescribedEndpoints)
      /\ s = [intf |-> s.intf, alt |-> s.alt, len |-> s.len, eps |-> s.eps]
  BY DEF ASetting, InterfaceSize
<1> QED
  BY <1>1, LenProperties

LEMMA SettingDescsAre ==
    ASSUME NEW s \in ASetting
    PROVE  /\ SettingDescs(s) \in Seq(Descs)
           /\ Len(SettingDescs(s)) = 1 + Len(s.eps)
           /\ SettingDescs(s)[1] = InterfaceDesc(s)
           /\ \A j \in 1..Len(s.eps) : SettingDescs(s)[1 + j] = EndpointDesc(s.eps[j])
<1> DEFINE a == <<InterfaceDesc(s)>>
           n == Len(s.eps)
           b == [k \in DOMAIN s.eps |-> EndpointDesc(s.eps[k])]
<1>1. n \in Nat /\ DOMAIN s.eps = 1..n /\ \A k \in 1..n : s.eps[k] \in DescribedEndpoints
  BY SettingIs, ElementOfSeq
<1>2. a \in Seq(Descs) /\ Len(a) = 1 /\ a[1] = InterfaceDesc(s)
  BY DEF Descs
<1>3. b \in [1..n -> Descs]
  BY <1>1 DEF Descs
<1>4. b \in Seq(Descs) /\ Len(b) = n
  <2> HIDE DEF b, n
  <2> QED
    BY <1>1, <1>3, SeqDef, LenProperties
<1>5. \A j \in 1..n : b[j] = EndpointDesc(s.eps[j])
  BY <1>1
<1>6. SettingDescs(s) = a \o b
  BY DEF SettingDescs
<1> HIDE DEF a, b, n
<1>7. /\ a \o b \in Seq(Descs) /\ Len(a \o b) = 1 + n
      /\ \A i \in 1..(1 + n) : (a \o b)[i] = IF i <= 1 THEN a[i] ELSE b[i - 1]
  <2>1. /\ a \o b \in Seq(Descs) /\ Len(a \o b) = Len(a) + Len(b)
        /\ \A i \in 1..(Len(a) + Len(b)) :
              (a \o b)[i] = IF i <= Len(a) THEN a[i] ELSE b[i - Len(a)]
    BY <1>2, <1>4, ConcatProperties
  <2> QED
    BY <1>2, <1>4, <2>1
<1>8. ASSUME NEW j \in 1..n PROVE (a \o b)[1 + j] = b[j]
  <2>1. 1 + j \in 1..(1 + n) /\ ~(1 + j <= 1) /\ (1 + j) - 1 = j
    BY <1>1
  <2> QED
    BY <1>7, <2>1
<1>9. (a \o b)[1] = a[1]
  BY <1>1, <1>7
<1> QED
  BY <1>2, <1>5, <1>6, <1>7, <1>8, <1>9 DEF n

\* The descriptors after the header, setting by setting.
Body(settings) == FlattenSeq([k \in DOMAIN settings |-> SettingDescs(settings[k])])

\* Where the descriptors of each setting start in the body.
Layout(settings, body, off) ==
    /\ off \in [0..Len(settings) -> Nat]
    /\ off[0] = 0 /\ off[Len(settings)] = Len(body)
    /\ \A k \in 1..Len(settings) :
          /\ off[k] = off[k - 1] + 1 + Len(settings[k].eps)
          /\ body[off[k - 1] + 1] = InterfaceDesc(settings[k])
          /\ \A j \in 1..Len(settings[k].eps) :
                body[off[k - 1] + 1 + j] = EndpointDesc(settings[k].eps[j])
    /\ \A k \in 0..Len(settings) : off[k] <= Len(body)

\* The body has this layout.
LEMMA BodyLayout ==
    ASSUME NEW settings \in Seq(ASetting)
    PROVE  Body(settings) \in Seq(Descs) /\ \E off : Layout(settings, Body(settings), off)
<1> DEFINE L == Len(settings)
           ss == [k \in DOMAIN settings |-> SettingDescs(settings[k])]
           body == FlattenSeq(ss)
<1>1. L \in Nat /\ DOMAIN settings = 1..L /\ \A k \in 1..L : settings[k] \in ASetting
  BY LenProperties, ElementOfSeq
<1>2. ss \in [1..L -> Seq(Descs)]
  BY <1>1, SettingDescsAre
<1>3. ss \in Seq(Seq(Descs)) /\ Len(ss) = L
  <2> HIDE DEF ss, L
  <2> QED
    BY <1>1, <1>2, SeqDef, LenProperties
<1>4. \A k \in 1..L : ss[k] = SettingDescs(settings[k])
  BY <1>1
<1>5. Body(settings) = body
  BY DEF Body
<1> HIDE DEF ss, L
<1>6. body \in Seq(Descs)
  BY <1>3, FlattenLayout
<1>7. PICK off \in [0..Len(ss) -> Nat] :
          /\ off[0] = 0
          /\ \A k \in 1..Len(ss) : off[k] = off[k - 1] + Len(ss[k])
          /\ Len(body) = off[Len(ss)]
          /\ \A k \in 0..Len(ss) : off[k] <= off[Len(ss)]
          /\ \A k \in 1..Len(ss) : \A i \in 1..Len(ss[k]) : body[off[k - 1] + i] = ss[k][i]
  BY <1>3, FlattenLayout
<1> HIDE DEF body
<1>8. ASSUME NEW k \in 1..L
      PROVE  /\ off[k] = off[k - 1] + 1 + Len(settings[k].eps)
             /\ body[off[k - 1] + 1] = InterfaceDesc(settings[k])
             /\ \A j \in 1..Len(settings[k].eps) :
                   body[off[k - 1] + 1 + j] = EndpointDesc(settings[k].eps[j])
  <2> DEFINE s == settings[k]
             n == Len(s.eps)
             o == off[k - 1]
  <2>1. s \in ASetting /\ n \in Nat /\ ss[k] = SettingDescs(s) /\ Len(ss[k]) = 1 + n
    BY <1>1, <1>4, SettingIs, SettingDescsAre
  <2>2. o \in Nat
    <3>1. k - 1 \in 0..Len(ss)
      BY <1>1, <1>3
    <3> QED
      BY <1>7, <3>1
  <2>3. off[k] = o + (1 + n) /\ \A i \in 1..(1 + n) : body[o + i] = ss[k][i]
    BY <1>3, <1>7, <2>1
  <2>4. /\ ss[k][1] = InterfaceDesc(s)
        /\ \A j \in 1..n : ss[k][1 + j] = EndpointDesc(s.eps[j])
    BY <2>1, SettingDescsAre
  <2> HIDE DEF s, n, o
  <2>5. off[k] = o + 1 + n
    BY <2>1, <2>2, <2>3
  <2>6. body[o + 1] = ss[k][1]
    BY <2>1, <2>3
  <2>7. ASSUME NEW j \in 1..n PROVE body[o + 1 + j] = ss[k][1 + j]
    <3>1. 1 + j \in 1..(1 + n) /\ o + 1 + j = o + (1 + j)
      BY <2>1, <2>2
    <3> QED
      BY <2>3, <3>1
  <2> QED
    BY <2>4, <2>5, <2>6, <2>7 DEF s, n, o
<1>9. Layout(settings, body, off)
  BY <1>3, <1>7, <1>8 DEF Layout, L
<1> QED
  BY <1>5, <1>6, <1>9

-----------------------------------------------------------------------------
(* The gadget reads what the driver wrote *)

\* the states of the parser
States == [read : Seq(ASetting),
           open : {<<>>} \cup {<<InterfaceDesc(s)>> : s \in ASetting},
           eps  : Seq(DescribedEndpoints)]

\* What Close and Consume do in a state that is written out, and that Consume keeps
\* the type.
LEMMA CloseIs ==
    ASSUME NEW r, NEW s, NEW e
    PROVE  Close([read |-> r, open |-> <<InterfaceDesc(s)>>, eps |-> e]) =
               IF Len(e) = Len(s.eps)
               THEN [read |-> Append(r, [intf |-> s.intf, alt |-> s.alt, len |-> s.len, eps |-> e]),
                     open |-> <<>>, eps |-> <<>>]
               ELSE [read |-> r, open |-> <<InterfaceDesc(s)>>, eps |-> e]
<1>1. <<InterfaceDesc(s)>> # <<>> /\ <<InterfaceDesc(s)>>[1] = InterfaceDesc(s)
  OBVIOUS
<1>2. InterfaceDesc(s).nEps = Len(s.eps) /\ InterfaceDesc(s).intf = s.intf
      /\ InterfaceDesc(s).alt = s.alt /\ InterfaceDesc(s).len = s.len
  BY DEF InterfaceDesc
<1> DEFINE state == [read |-> r, open |-> <<InterfaceDesc(s)>>, eps |-> e]
           set == [intf |-> s.intf, alt |-> s.alt, len |-> s.len, eps |-> e]
<1>3. state.read = r /\ state.open = <<InterfaceDesc(s)>> /\ state.eps = e
  OBVIOUS
<1> HIDE DEF state
<1>4. Close(state) = IF Len(e) = Len(s.eps) THEN [Start EXCEPT !.read = Append(r, set)] ELSE state
  BY <1>1, <1>2, <1>3 DEF Close
<1>5. \A x : [Start EXCEPT !.read = x] = [read |-> x, open |-> <<>>, eps |-> <<>>]
  BY DEF Start
<1> QED
  BY <1>4, <1>5 DEF state

LEMMA ConsumeInterface ==
    ASSUME NEW r, NEW e, NEW s
    PROVE  Consume([read |-> r, open |-> <<>>, eps |-> e], InterfaceDesc(s)) =
               Close([read |-> r, open |-> <<InterfaceDesc(s)>>, eps |-> e])
<1>1. InterfaceDesc(s).type = "interface"
  BY DEF InterfaceDesc
<1> QED
  BY <1>1 DEF Consume

LEMMA ConsumeEndpoint ==
    ASSUME NEW r, NEW i, NEW e, NEW x
    PROVE  Consume([read |-> r, open |-> <<i>>, eps |-> e], EndpointDesc(x)) =
               Close([read |-> r, open |-> <<i>>, eps |-> Append(e, x)])
<1>1. EndpointDesc(x).type = "endpoint" /\ EndpointDesc(x).ep = x
  BY DEF EndpointDesc
<1>2. <<i>> # <<>>
  OBVIOUS
<1> QED
  BY <1>1, <1>2 DEF Consume

LEMMA ConsumeType ==
    ASSUME NEW state \in States, NEW d \in Descs
    PROVE  Consume(state, d) \in States
<1>1. PICK r \in Seq(ASetting), o \in {<<>>} \cup {<<InterfaceDesc(s)>> : s \in ASetting},
           e \in Seq(DescribedEndpoints) : state = [read |-> r, open |-> o, eps |-> e]
  BY DEF States
<1>2. ASSUME NEW s \in ASetting, NEW f \in Seq(DescribedEndpoints)
      PROVE  Close([read |-> r, open |-> <<InterfaceDesc(s)>>, eps |-> f]) \in States
  <2>1. [read |-> r, open |-> <<InterfaceDesc(s)>>, eps |-> f] \in States
    BY DEF States
  <2>2. [intf |-> s.intf, alt |-> s.alt, len |-> s.len, eps |-> f] \in ASetting
    BY SettingIs DEF ASetting
  <2>3. Append(r, [intf |-> s.intf, alt |-> s.alt, len |-> s.len, eps |-> f]) \in Seq(ASetting)
    BY <2>2, AppendProperties
  <2>4. [read |-> Append(r, [intf |-> s.intf, alt |-> s.alt, len |-> s.len, eps |-> f]),
         open |-> <<>>, eps |-> <<>>] \in States
    BY <2>3, EmptySeq DEF States
  <2>5. CASE Len(f) = Len(s.eps)
    BY <2>4, <2>5, CloseIs, Zenon
  <2>6. CASE Len(f) # Len(s.eps)
    BY <2>1, <2>6, CloseIs, Zenon
  <2> QED
    BY <2>5, <2>6
<1>3. CASE o = <<>>
  <2>1. ASSUME NEW s \in ASetting, d = InterfaceDesc(s) PROVE Consume(state, d) \in States
    BY <1>1, <1>2, <1>3, <2>1, ConsumeInterface
  <2>2. ASSUME NEW x \in DescribedEndpoints, d = EndpointDesc(x) PROVE Consume(state, d) \in States
    <3>1. d.type = "endpoint" /\ state.open = <<>>
      BY <1>1, <1>3, <2>2 DEF EndpointDesc
    <3> QED
      BY <3>1 DEF Consume
  <2> QED
    BY <2>1, <2>2 DEF Descs
<1>4. CASE o # <<>>
  <2>0. PICK s \in ASetting : o = <<InterfaceDesc(s)>>
    BY <1>4
  <2>1. ASSUME NEW t \in ASetting, d = InterfaceDesc(t) PROVE Consume(state, d) \in States
    <3>1. d.type = "interface" /\ state.open # <<>>
      BY <1>1, <1>4, <2>1 DEF InterfaceDesc
    <3> QED
      BY <3>1 DEF Consume
  <2>2. ASSUME NEW x \in DescribedEndpoints, d = EndpointDesc(x) PROVE Consume(state, d) \in States
    <3>1. Append(e, x) \in Seq(DescribedEndpoints)
      BY AppendProperties
    <3>2. Consume(state, d) =
              Close([read |-> r, open |-> <<InterfaceDesc(s)>>, eps |-> Append(e, x)])
      BY <1>1, <2>0, <2>2, ConsumeEndpoint
    <3> QED
      BY <1>2, <3>1, <3>2
  <2> QED
    BY <2>1, <2>2 DEF Descs
<1> QED
  BY <1>3, <1>4

\* The states of the gadget along the descriptors after the header.
Reading(state, descs) ==
    /\ state \in [0..Len(descs) -> States]
    /\ state[0] = Start
    /\ \A n \in 1..Len(descs) : state[n] = Consume(state[n - 1], descs[n])

\* Parse ends in the last of these states: the recursive function of its definition is
\* the one that Recursion gives.
LEMMA ParseIs ==
    ASSUME NEW packet, ~Malformed(packet),
           SubSeq(packet, Len(Header) + 1, Len(packet)) \in Seq(Descs)
    PROVE  LET descs == SubSeq(packet, Len(Header) + 1, Len(packet))
           IN  \E state : Reading(state, descs) /\ Parse(packet) = state[Len(descs)].read
<1> DEFINE descs == SubSeq(packet, Len(Header) + 1, Len(packet))
           N == Len(descs)
           step == [p \in (1..N) \X States |-> Consume(p[2], descs[p[1]])]
           Solves(h) == h = [n \in 0..N |-> IF n = 0 THEN Start ELSE Consume(h[n - 1], descs[n])]
           h == CHOOSE h : Solves(h)
<1>1. N \in Nat /\ \A n \in 1..N : descs[n] \in Descs
  <2> HIDE DEF descs
  <2> QED
    BY LenProperties, ElementOfSeq DEF descs
<1>2. Parse(packet) = h[N].read
  BY DEF Parse
<1> HIDE DEF descs, N
<1>3. Start \in States
  BY EmptySeq DEF Start, States
<1>4. step \in [(1..N) \X States -> States]
  BY <1>1, ConsumeType
<1>5. PICK f \in [0..N -> States] : Recurs(f, Start, step, N)
  <2> HIDE DEF step
  <2> QED
    BY <1>1, <1>3, <1>4, Recursion
<1>6. ASSUME NEW n \in 1..N PROVE f[n] = Consume(f[n - 1], descs[n])
  <2>1. n - 1 \in 0..N
    BY <1>1
  <2>2. f[n - 1] \in States
    BY <2>1
  <2>3. f[n] = step[<<n, f[n - 1]>>]
    <3> HIDE DEF step
    <3> QED
      BY <1>5 DEF Recurs
  <2> QED
    BY <2>2, <2>3
<1>7. f[0] = Start
  BY <1>5 DEF Recurs
<1> HIDE DEF step
<1>8. Solves(f)
  BY <1>1, <1>6, <1>7
<1>9. Solves(h)
  <2> HIDE DEF Solves
  <2> QED
    BY <1>8
<1> HIDE DEF h
<1>10. ASSUME NEW n \in 0..N
       PROVE  h[n] = IF n = 0 THEN Start ELSE Consume(h[n - 1], descs[n])
  BY <1>9
<1> HIDE DEF Solves
<1> DEFINE P == {n \in 0..N : h[n] = f[n]}
<1>11. 0 \in P
  BY <1>1, <1>7, <1>10
<1>12. ASSUME NEW n \in 0..(N - 1), n \in P PROVE n + 1 \in P
  <2> DEFINE m == n + 1
  <2>1. m \in 1..N /\ m \in 0..N /\ m # 0 /\ m - 1 = n
    BY <1>1
  <2> HIDE DEF m
  <2>2. h[m] = f[m]
    BY <1>6, <1>10, <1>12, <2>1
  <2> QED
    BY <2>1, <2>2 DEF m
<1>13. 0..N \subseteq P
  <2> HIDE DEF P
  <2> QED
    BY <1>1, <1>11, <1>12, Induct
<1>14. h[N] = f[N]
  BY <1>1, <1>13
<1>15. Reading(f, descs)
  BY <1>6, <1>7 DEF Reading, N
<1> QED
  BY <1>2, <1>14, <1>15 DEF descs, N

\* The first elements of a sequence, and one more.
LEMMA PrefixIs ==
    ASSUME NEW S, NEW s \in Seq(S), NEW k \in 0..Len(s)
    PROVE  /\ SubSeq(s, 1, k) \in Seq(S) /\ Len(SubSeq(s, 1, k)) = k
           /\ \A i \in 1..k : SubSeq(s, 1, k)[i] = s[i]
<1>1. Len(s) \in Nat /\ k \in Nat /\ \A i \in 1..k : s[i] \in S
  BY LenProperties, ElementOfSeq
<1>2. /\ SubSeq(s, 1, k) \in Seq(S)
      /\ Len(SubSeq(s, 1, k)) = IF 1 <= k THEN k - 1 + 1 ELSE 0
      /\ \A i \in 1..(k - 1 + 1) : SubSeq(s, 1, k)[i] = s[1 + i - 1]
  BY <1>1, SubSeqProperties
<1>3. Len(SubSeq(s, 1, k)) = k
  BY <1>1, <1>2
<1>4. ASSUME NEW i \in 1..k PROVE SubSeq(s, 1, k)[i] = s[i]
  <2>1. i \in 1..(k - 1 + 1) /\ 1 + i - 1 = i
    BY <1>1
  <2> QED
    BY <1>2, <2>1
<1> QED
  BY <1>2, <1>3, <1>4

LEMMA NextPrefix ==
    ASSUME NEW S, NEW s \in Seq(S), NEW k \in 1..Len(s)
    PROVE  SubSeq(s, 1, k) = Append(SubSeq(s, 1, k - 1), s[k])
<1>1. Len(s) \in Nat /\ k - 1 \in 0..Len(s) /\ s[k] \in S /\ 1 \in 1..Len(s) /\ k \in 1..Len(s)
  BY LenProperties, ElementOfSeq
<1>2. SubSeq(s, 1, k) = SubSeq(s, 1, k - 1) \o <<s[k]>>
  BY <1>1, SubSeqRecursiveSecond
<1>3. SubSeq(s, 1, k - 1) \in Seq(S)
  BY <1>1, PrefixIs
<1> QED
  BY <1>1, <1>2, <1>3, AppendIsConcat

\* After m descriptors of the body, the gadget is between two settings, or it has
\* read the interface descriptor of one and some of its endpoints.
Between(settings, off, state, m) ==
    \E k \in 0..Len(settings) :
        /\ m = off[k]
        /\ state = [read |-> SubSeq(settings, 1, k), open |-> <<>>, eps |-> <<>>]

Inside(settings, off, state, m) ==
    \E k \in 1..Len(settings) : \E j \in 0..(Len(settings[k].eps) - 1) :
        /\ m = off[k - 1] + 1 + j
        /\ state = [read |-> SubSeq(settings, 1, k - 1), open |-> <<InterfaceDesc(settings[k])>>,
                    eps |-> SubSeq(settings[k].eps, 1, j)]

\* Close keeps the gadget at a setting: with all its endpoints read it is behind it.
LEMMA SettingStep ==
    ASSUME NEW settings \in Seq(ASetting), NEW body, NEW off, Layout(settings, body, off),
           NEW k \in 1..Len(settings), NEW j \in 0..Len(settings[k].eps), NEW state,
           state = Close([read |-> SubSeq(settings, 1, k - 1),
                          open |-> <<InterfaceDesc(settings[k])>>,
                          eps  |-> SubSeq(settings[k].eps, 1, j)])
    PROVE  \/ Between(settings, off, state, off[k - 1] + 1 + j)
           \/ Inside(settings, off, state, off[k - 1] + 1 + j)
<1> DEFINE s == settings[k]
           e == s.eps
           r == SubSeq(settings, 1, k - 1)
<1>1. /\ s \in ASetting /\ e \in Seq(DescribedEndpoints) /\ Len(e) \in Nat
      /\ s = [intf |-> s.intf, alt |-> s.alt, len |-> s.len, eps |-> e]
      /\ Len(settings) \in Nat /\ k \in 0..Len(settings)
  BY ElementOfSeq, LenProperties, SettingIs, SMTT(30)
<1>2. j \in 0..Len(e) /\ Len(SubSeq(e, 1, j)) = j
  <2> HIDE DEF e
  <2>1. j \in 0..Len(e)
    BY DEF e
  <2> QED
    BY <1>1, <2>1, PrefixIs
<1>3. off[k] = off[k - 1] + 1 + Len(e)
  BY DEF Layout
<1>4. state = Close([read |-> r, open |-> <<InterfaceDesc(s)>>, eps |-> SubSeq(e, 1, j)])
  OBVIOUS
<1>5. CASE j = Len(e)
  <2>1. SubSeq(e, 1, j) = e
    BY <1>1, <1>5, SubSeqFull
  <2>2. state = [read |-> Append(r, [intf |-> s.intf, alt |-> s.alt, len |-> s.len, eps |-> e]),
                 open |-> <<>>, eps |-> <<>>]
    <3>1. Len(e) = Len(s.eps)
      OBVIOUS
    <3> HIDE DEF s, e, r
    <3>2. state = Close([read |-> r, open |-> <<InterfaceDesc(s)>>, eps |-> e])
      BY <1>4, <2>1
    <3> QED
      BY <3>1, <3>2, CloseIs
  <2>3. SubSeq(settings, 1, k) = Append(r, s)
    BY NextPrefix
  <2>4. state = [read |-> SubSeq(settings, 1, k), open |-> <<>>, eps |-> <<>>]
    BY <1>1, <2>2, <2>3
  <2>5. off[k - 1] + 1 + j = off[k]
    BY <1>3, <1>5
  <2> QED
    BY <1>1, <2>4, <2>5 DEF Between
<1>6. CASE j # Len(e)
  <2>1. state = [read |-> r, open |-> <<InterfaceDesc(s)>>, eps |-> SubSeq(e, 1, j)]
    <3>1. Len(SubSeq(e, 1, j)) # Len(s.eps)
      BY <1>2, <1>6
    <3> HIDE DEF s, e, r
    <3> QED
      BY <1>4, <3>1, CloseIs
  <2>2. j \in 0..(Len(e) - 1)
    BY <1>1, <1>2, <1>6
  <2> QED
    BY <2>1, <2>2 DEF Inside
<1> QED
  BY <1>5, <1>6

\* One more descriptor.
LEMMA ReadingStep ==
    ASSUME NEW settings \in Seq(ASetting), NEW body, NEW off, Layout(settings, body, off),
           NEW m \in Nat, m < Len(body), Len(body) \in Nat, NEW state,
           Between(settings, off, state, m) \/ Inside(settings, off, state, m),
           NEW next, next = Consume(state, body[m + 1])
    PROVE  Between(settings, off, next, m + 1) \/ Inside(settings, off, next, m + 1)
<1> DEFINE L == Len(settings)
<1>1. L \in Nat /\ \A k \in 1..L : settings[k] \in ASetting
  BY ElementOfSeq, LenProperties
<1>2. CASE Between(settings, off, state, m)
  <2>1. PICK i \in 0..L :
            /\ m = off[i]
            /\ state = [read |-> SubSeq(settings, 1, i), open |-> <<>>, eps |-> <<>>]
    BY <1>2 DEF Between
  <2> DEFINE k == i + 1
             s == settings[k]
  <2>2. k \in 1..L /\ k - 1 = i
    <3>1. i # L
      BY <2>1 DEF Layout
    <3> QED
      BY <1>1, <3>1
  <2> HIDE DEF k
  <2>3. body[m + 1] = InterfaceDesc(s)
    BY <2>1, <2>2 DEF Layout
  <2>4. s \in ASetting /\ s.eps \in Seq(DescribedEndpoints) /\ Len(s.eps) \in Nat
    BY <1>1, <2>2, SettingIs
  <2>5. SubSeq(s.eps, 1, 0) = <<>> /\ 0 \in 0..Len(s.eps)
    BY <2>4, SubSeqEmpty
  <2>6. next = Close([read |-> SubSeq(settings, 1, k - 1), open |-> <<InterfaceDesc(s)>>,
                      eps |-> SubSeq(s.eps, 1, 0)])
    <3> HIDE DEF s
    <3> QED
      BY <2>1, <2>2, <2>3, <2>5, ConsumeInterface
  <2>7. \/ Between(settings, off, next, off[k - 1] + 1 + 0)
        \/ Inside(settings, off, next, off[k - 1] + 1 + 0)
    BY <2>2, <2>5, <2>6, SettingStep
  <2>8. off[k - 1] + 1 + 0 = m + 1
    BY <2>1, <2>2
  <2> QED
    BY <2>7, <2>8
<1>3. CASE Inside(settings, off, state, m)
  <2>0. PICK k \in 1..L : \E i \in 0..(Len(settings[k].eps) - 1) :
            /\ m = off[k - 1] + 1 + i
            /\ state = [read |-> SubSeq(settings, 1, k - 1),
                        open |-> <<InterfaceDesc(settings[k])>>,
                        eps |-> SubSeq(settings[k].eps, 1, i)]
    BY <1>3 DEF Inside
  <2>1. PICK i \in 0..(Len(settings[k].eps) - 1) :
            /\ m = off[k - 1] + 1 + i
            /\ state = [read |-> SubSeq(settings, 1, k - 1),
                        open |-> <<InterfaceDesc(settings[k])>>,
                        eps |-> SubSeq(settings[k].eps, 1, i)]
    BY <2>0
  <2> DEFINE s == settings[k]
             e == s.eps
             j == i + 1
  <2>2. e \in Seq(DescribedEndpoints) /\ Len(e) \in Nat
    BY <1>1, SettingIs
  <2>3. j \in 1..Len(e) /\ j - 1 = i /\ j \in 0..Len(e)
    BY <2>2
  <2>4. off[k - 1] \in Nat
    <3>1. k - 1 \in 0..L
      BY <1>1
    <3> QED
      BY <3>1 DEF Layout
  <2> HIDE DEF j
  <2>5. m + 1 = off[k - 1] + 1 + j
    BY <2>1, <2>3, <2>4
  <2>6. body[m + 1] = EndpointDesc(e[j])
    BY <2>3, <2>5 DEF Layout
  <2>7. SubSeq(e, 1, j) = Append(SubSeq(e, 1, i), e[j])
    <3> HIDE DEF e
    <3> QED
      BY <2>2, <2>3, NextPrefix
  <2>8. next = Close([read |-> SubSeq(settings, 1, k - 1), open |-> <<InterfaceDesc(s)>>,
                      eps |-> SubSeq(e, 1, j)])
    <3>1. state = [read |-> SubSeq(settings, 1, k - 1), open |-> <<InterfaceDesc(s)>>,
                   eps |-> SubSeq(e, 1, i)]
      BY <2>1
    <3> HIDE DEF s, e
    <3>2. next = Consume([read |-> SubSeq(settings, 1, k - 1), open |-> <<InterfaceDesc(s)>>,
                          eps |-> SubSeq(e, 1, i)], EndpointDesc(e[j]))
      BY <2>6, <3>1
    <3>3. next = Close([read |-> SubSeq(settings, 1, k - 1), open |-> <<InterfaceDesc(s)>>,
                        eps |-> Append(SubSeq(e, 1, i), e[j])])
      BY <3>2, ConsumeEndpoint
    <3> QED
      BY <2>7, <3>3, Zenon
  <2>9. \/ Between(settings, off, next, off[k - 1] + 1 + j)
        \/ Inside(settings, off, next, off[k - 1] + 1 + j)
    BY <2>3, <2>8, SettingStep
  <2> QED
    BY <2>5, <2>9
<1> QED
  BY <1>2, <1>3

\* At any point of the body the gadget is at a setting.
LEMMA ReadingIsInOrder ==
    ASSUME NEW settings \in Seq(ASetting), NEW body \in Seq(Descs), NEW off,
           Layout(settings, body, off), NEW n \in 0..Len(body), NEW state,
           Reading(state, SubSeq(body, 1, n))
    PROVE  Between(settings, off, state[n], n) \/ Inside(settings, off, state[n], n)
<1> DEFINE descs == SubSeq(body, 1, n)
           InOrder(m) == Between(settings, off, state[m], m) \/ Inside(settings, off, state[m], m)
           P == {m \in 0..n : InOrder(m)}
<1>1. Len(body) \in Nat /\ n \in Nat /\ Len(descs) = n /\ \A m \in 1..n : descs[m] = body[m]
  BY LenProperties, PrefixIs
<1>2. /\ state[0] = Start
      /\ \A m \in 1..n : state[m] = Consume(state[m - 1], body[m])
  <2> HIDE DEF descs
  <2>1. Reading(state, descs)
    BY DEF descs
  <2> QED
    BY <1>1, <2>1 DEF Reading
<1>3. 0 \in P
  <2>1. Len(settings) \in Nat
    BY LenProperties
  <2>2. SubSeq(settings, 1, 0) = <<>>
    BY SubSeqEmpty
  <2>3. 0 = off[0] /\ 0 \in 0..Len(settings)
    BY <2>1 DEF Layout
  <2>4. state[0] = [read |-> SubSeq(settings, 1, 0), open |-> <<>>, eps |-> <<>>]
    BY <1>2, <2>2 DEF Start
  <2>5. Between(settings, off, state[0], 0)
    BY <2>3, <2>4 DEF Between
  <2> QED
    BY <1>1, <2>5
<1>4. ASSUME NEW m \in 0..(n - 1), m \in P PROVE m + 1 \in P
  <2> DEFINE l == m + 1
  <2>1. l \in 1..n /\ l - 1 = m /\ l \in 0..n /\ m \in Nat /\ m < Len(body)
    BY <1>1
  <2>2. state[l] = Consume(state[m], body[m + 1])
    <3> HIDE DEF l
    <3>1. state[l] = Consume(state[l - 1], body[l])
      BY <1>2, <2>1
    <3> QED
      BY <2>1, <3>1 DEF l
  <2>3. InOrder(m)
    BY <1>4
  <2>4. Between(settings, off, state[l], m + 1) \/ Inside(settings, off, state[l], m + 1)
    <3> HIDE DEF l
    <3> QED
      BY <1>1, <2>1, <2>2, <2>3, ReadingStep
  <2> QED
    BY <2>1, <2>4
<1>5. 0..n \subseteq P
  <2> HIDE DEF P
  <2> QED
    BY <1>1, <1>3, <1>4, Induct
<1> HIDE DEF InOrder
<1>6. InOrder(n)
  BY <1>1, <1>5
<1> QED
  BY <1>6 DEF InOrder

\* So what it has read is the first settings, and all of them at the end of the body.
LEMMA ReadingIsPrefix ==
    ASSUME NEW settings \in Seq(ASetting), NEW body \in Seq(Descs), NEW off,
           Layout(settings, body, off), NEW n \in 0..Len(body), NEW state,
           Between(settings, off, state, n) \/ Inside(settings, off, state, n)
    PROVE  /\ IsPrefix(state.read, settings)
           /\ n = Len(body) => state.read = settings
<1> DEFINE L == Len(settings)
<1>1. L \in Nat /\ Len(body) \in Nat
  BY LenProperties
<1>2. ASSUME NEW k \in 0..L, state.read = SubSeq(settings, 1, k)
      PROVE  IsPrefix(state.read, settings)
  <2>1. Len(SubSeq(settings, 1, k)) = k /\ SubSeq(settings, 1, k) \in Seq(ASetting)
    BY PrefixIs
  <2>2. SubSeq(state.read, 1, Len(state.read)) = state.read
    BY <1>2, <2>1, SubSeqFull
  <2>3. SubSeq(settings, 1, Len(state.read)) = state.read /\ Len(state.read) <= L
    BY <1>1, <1>2, <2>1
  <2> QED
    BY <2>2, <2>3 DEF IsPrefix
<1>3. CASE Between(settings, off, state, n)
  <2>1. PICK k \in 0..L : n = off[k] /\ state.read = SubSeq(settings, 1, k)
    BY <1>3 DEF Between
  <2>2. ASSUME n = Len(body) PROVE k = L
    <3> SUFFICES ASSUME k # L PROVE FALSE
      OBVIOUS
    <3> DEFINE i == k + 1
    <3>1. i \in 1..L /\ i - 1 = k /\ i \in 0..L
      BY <1>1
    <3> HIDE DEF i
    <3>2. settings[i] \in ASetting
      BY <3>1, ElementOfSeq
    <3>3. Len(settings[i].eps) \in Nat
      BY <3>2, SettingIs
    <3>4. off[i] = off[i - 1] + 1 + Len(settings[i].eps) /\ off[i] <= Len(body)
      BY <3>1 DEF Layout
    <3>5. off[i - 1] = Len(body)
      BY <2>1, <2>2, <3>1
    <3> DEFINE o == off[i]
               l == Len(settings[i].eps)
               b == Len(body)
    <3>6. o = b + 1 + l /\ o <= b /\ l \in Nat /\ b \in Nat
      BY <1>1, <3>3, <3>4, <3>5
    <3> HIDE DEF o, l, b
    <3> QED
      BY <3>6
  <2>3. n = Len(body) => state.read = settings
    BY <2>1, <2>2, SubSeqFull
  <2> QED
    BY <1>2, <2>1, <2>3
<1>4. CASE Inside(settings, off, state, n)
  <2>1. PICK k \in 1..L : \E j \in 0..(Len(settings[k].eps) - 1) :
            n = off[k - 1] + 1 + j /\ state.read = SubSeq(settings, 1, k - 1)
    BY <1>4 DEF Inside
  <2>2. PICK j \in 0..(Len(settings[k].eps) - 1) :
            n = off[k - 1] + 1 + j /\ state.read = SubSeq(settings, 1, k - 1)
    BY <2>1
  <2>3. k - 1 \in 0..L /\ k \in 0..L
    BY <1>1
  <2>4. settings[k] \in ASetting
    BY ElementOfSeq
  <2>5. Len(settings[k].eps) \in Nat
    BY <2>4, SettingIs
  <2>6. off[k] = off[k - 1] + 1 + Len(settings[k].eps) /\ off[k] <= Len(body) /\ off[k - 1] \in Nat
    BY <2>3 DEF Layout
  <2>7. n # Len(body)
    BY <1>1, <2>2, <2>5, <2>6
  <2> QED
    BY <1>2, <2>2, <2>3, <2>7
<1> QED
  BY <1>3, <1>4

-----------------------------------------------------------------------------
(* The packet, whole or cut *)

PacketDescs == {Header[1], Header[2], Header[3]} \cup Descs

\* The packet is the header and the body.
LEMMA BuildIs ==
    ASSUME NEW device \in Descriptions
    PROVE  /\ SettingsOf(device) \in Seq(ASetting)
           /\ Body(SettingsOf(device)) \in Seq(Descs)
           /\ Build(device) = Header \o Body(SettingsOf(device))
<1>1. SettingsOf(device) \in Seq(ASetting)
  BY SettingsType
<1> QED
  BY <1>1, BodyLayout DEF Build, Body

LEMMA HeaderIs ==
    /\ Header \in Seq(PacketDescs) /\ Len(Header) = 3 /\ DOMAIN Header = 1..3
<1>1. Len(Header) = 3 /\ DOMAIN Header = 1..3 /\ Header = <<Header[1], Header[2], Header[3]>>
  BY DEF Header
<1>2. Header[1] \in PacketDescs /\ Header[2] \in PacketDescs /\ Header[3] \in PacketDescs
  BY DEF PacketDescs
<1> DEFINE a == Header[1]
           b == Header[2]
           c == Header[3]
<1>3. <<a, b, c>> \in Seq(PacketDescs)
  <2> HIDE DEF a, b, c
  <2> SUFFICES ASSUME a \in PacketDescs, b \in PacketDescs, c \in PacketDescs
               PROVE  <<a, b, c>> \in Seq(PacketDescs)
    BY <1>2 DEF a, b, c
  <2> QED
    OBVIOUS
<1> QED
  BY <1>1, <1>3, Zenon

LEMMA PacketIs ==
    ASSUME NEW body \in Seq(Descs)
    PROVE  LET packet == Header \o body
           IN  /\ packet \in Seq(PacketDescs)
               /\ Len(packet) = 3 + Len(body) /\ DOMAIN packet = 1..(3 + Len(body))
               /\ \A i \in 1..3 : packet[i] = Header[i]
               /\ \A i \in 1..Len(body) : packet[3 + i] = body[i]
<1> DEFINE packet == Header \o body
           D == PacketDescs
           N == Len(body)
<1>1. N \in Nat
  BY LenProperties
<1>2. body \in Seq(D)
  <2>1. body \in [1..N -> Descs] /\ Descs \subseteq D
    BY LenProperties DEF PacketDescs
  <2>2. body \in [1..N -> D]
    BY <2>1
  <2> HIDE DEF D, N
  <2> QED
    BY <1>1, <2>2, SeqDef
<1> HIDE DEF D
<1>3. Header \in Seq(D) /\ Len(Header) = 3
  BY HeaderIs DEF D
<1>4. /\ packet \in Seq(D) /\ Len(packet) = Len(Header) + N
      /\ \A i \in 1..(Len(Header) + N) :
            packet[i] = IF i <= Len(Header) THEN Header[i] ELSE body[i - Len(Header)]
  BY <1>2, <1>3, ConcatProperties, Zenon
<1> HIDE DEF packet, N
<1>5. Len(packet) = 3 + N /\ DOMAIN packet = 1..(3 + N)
  BY <1>1, <1>3, <1>4, LenProperties
<1>6. ASSUME NEW i \in 1..3 PROVE packet[i] = Header[i]
  <2>1. i \in 1..(3 + N) /\ i <= 3
    BY <1>1
  <2> QED
    BY <1>3, <1>4, <2>1
<1>7. ASSUME NEW i \in 1..N PROVE packet[3 + i] = body[i]
  <2>1. 3 + i \in 1..(3 + N) /\ ~(3 + i <= 3) /\ (3 + i) - 3 = i
    BY <1>1
  <2> QED
    BY <1>3, <1>4, <2>1
<1> QED
  BY <1>4, <1>5, <1>6, <1>7 DEF packet, N, D

\* A cut of the packet that has the header is well-formed, and followed by the
\* beginning of the body.
LEMMA CutIs ==
    ASSUME NEW body \in Seq(Descs), NEW n \in 0..(3 + Len(body))
    PROVE  LET cut == SubSeq(Header \o body, 1, n)
           IN  /\ Len(Header \o body) = 3 + Len(body) /\ Len(body) \in Nat
               /\ n < 3 => Malformed(cut)
               /\ n >= 3 => /\ ~Malformed(cut)
                            /\ SubSeq(cut, Len(Header) + 1, Len(cut)) = SubSeq(body, 1, n - 3)
<1> DEFINE packet == Header \o body
           cut == SubSeq(packet, 1, n)
           D == PacketDescs
<1>1. Len(body) \in Nat /\ n \in Nat /\ \A i \in 1..Len(body) : body[i] \in Descs
  BY LenProperties, ElementOfSeq
<1>2. DOMAIN packet = 1..(3 + Len(body))
      /\ (\A i \in 1..3 : packet[i] = Header[i])
      /\ \A i \in 1..Len(body) : packet[3 + i] = body[i]
  BY PacketIs
<1>3. packet \in Seq(D) /\ Len(packet) = 3 + Len(body)
  BY PacketIs
<1> HIDE DEF packet, D
<1>4. cut \in Seq(D) /\ Len(cut) = n /\ \A i \in 1..n : cut[i] = packet[i]
  BY <1>3, PrefixIs
<1>5. DOMAIN cut = 1..n
  BY <1>4, LenProperties
<1> HIDE DEF cut
<1>6. ASSUME n < 3 PROVE Malformed(cut)
  <2>1. n + 1 \in 1..3 /\ n + 1 \notin 1..n
    BY <1>1, <1>6
  <2> QED
    BY <1>5, <2>1, HeaderIs DEF Malformed
<1>7. ASSUME n >= 3
      PROVE  ~Malformed(cut) /\ SubSeq(cut, Len(Header) + 1, Len(cut)) = SubSeq(body, 1, n - 3)
  <2>1. \A i \in 1..3 : i \in 1..n /\ i \in 1..(3 + Len(body)) /\ i <= 3
    BY <1>1, <1>7
  <2>2. ~Malformed(cut)
    BY <1>2, <1>4, <1>5, <2>1, HeaderIs DEF Malformed
  <2> DEFINE a == SubSeq(cut, 4, n)
             b == SubSeq(body, 1, n - 3)
  <2>3. b \in Seq(Descs) /\ Len(b) = n - 3 /\ \A i \in 1..(n - 3) : b[i] = body[i]
    <3>1. n - 3 \in 0..Len(body)
      BY <1>1, <1>7
    <3> QED
      BY <3>1, PrefixIs
  <2>4. ASSUME NEW i \in 4..n PROVE cut[i] = body[i - 3] /\ cut[i] \in Descs
    <3> DEFINE k == i - 3
    <3>1. i \in 1..n /\ k \in 1..Len(body) /\ 3 + k = i
      BY <1>1
    <3> HIDE DEF k
    <3>2. cut[i] = body[k] /\ body[k] \in Descs
      BY <1>1, <1>2, <1>4, <3>1
    <3> QED
      BY <3>2 DEF k
  <2>5. /\ a \in Seq(Descs)
        /\ Len(a) = IF 4 <= n THEN n - 4 + 1 ELSE 0
        /\ \A i \in 1..(n - 4 + 1) : a[i] = cut[4 + i - 1]
    BY <1>1, <2>4, SubSeqProperties
  <2>6. Len(a) = n - 3
    BY <1>1, <1>7, <2>5
  <2>7. ASSUME NEW i \in 1..(n - 3) PROVE a[i] = b[i]
    <3>1. i \in 1..(n - 4 + 1) /\ 4 + i - 1 \in 4..n /\ (4 + i - 1) - 3 = i
      BY <1>1
    <3>2. a[i] = cut[4 + i - 1] /\ cut[4 + i - 1] = body[(4 + i - 1) - 3]
      BY <2>4, <2>5, <3>1
    <3> QED
      BY <2>3, <3>1, <3>2
  <2>8. a = b
    <3> HIDE DEF a, b
    <3> QED
      BY <2>3, <2>5, <2>6, <2>7, SeqEqual
  <2> QED
    BY <1>4, <2>2, <2>8, HeaderIs
<1> QED
  BY <1>1, <1>3, <1>6, <1>7 DEF cut, packet

\* What parse_init_pkt reads in what build_init_pkt writes for a device are the
\* device's settings, complete and in order: the first ones if the packet is cut
\* (gadget.c:682-713, driver.c:1090-1160), all of them if it is whole.
THEOREM ParseReadsBuild ==
    ASSUME NEW device \in Descriptions
    PROVE  /\ Len(Build(device)) \in Nat
           /\ \A n \in 0..Len(Build(device)) :
                 IsPrefix(Parse(SubSeq(Build(device), 1, n)), SettingsOf(device))
           /\ Parse(SubSeq(Build(device), 1, Len(Build(device)))) = SettingsOf(device)
<1> DEFINE settings == SettingsOf(device)
           body == Body(settings)
           packet == Header \o body
<1>1. settings \in Seq(ASetting) /\ body \in Seq(Descs) /\ Build(device) = packet
  BY BuildIs
<1>2. PICK off : Layout(settings, body, off)
  BY <1>1, BodyLayout
<1>3. Len(body) \in Nat /\ Len(packet) = 3 + Len(body)
  <2> HIDE DEF body
  <2>1. Len(body) \in Nat
    BY <1>1, LenProperties
  <2>2. 0 \in 0..(3 + Len(body))
    BY <2>1
  <2> QED
    BY <1>1, <2>1, <2>2, CutIs
<1> HIDE DEF settings, body
<1>4. ASSUME NEW n \in 0..(3 + Len(body))
      PROVE  /\ IsPrefix(Parse(SubSeq(packet, 1, n)), settings)
             /\ n = 3 + Len(body) => Parse(SubSeq(packet, 1, n)) = settings
  <2> DEFINE cut == SubSeq(packet, 1, n)
             descs == SubSeq(cut, Len(Header) + 1, Len(cut))
  <2>1. CASE n < 3
    <3>1. Malformed(cut)
      BY <1>1, <2>1, CutIs
    <3>2. Parse(cut) = <<>>
      BY <3>1 DEF Parse
    <3>3. IsPrefix(<<>>, settings)
      <4>1. Len(settings) \in Nat /\ Len(<<>>) = 0
        BY <1>1, LenProperties
      <4>2. SubSeq(<<>>, 1, 0) = <<>> /\ SubSeq(settings, 1, 0) = <<>>
        BY SubSeqEmpty
      <4> QED
        BY <4>1, <4>2 DEF IsPrefix
    <3>4. n # 3 + Len(body)
      BY <1>3, <2>1
    <3> QED
      BY <3>2, <3>3, <3>4
  <2>2. CASE n >= 3
    <3> DEFINE m == n - 3
    <3>1. m \in 0..Len(body) /\ (n = 3 + Len(body) => m = Len(body))
      BY <1>3, <2>2
    <3>2. ~Malformed(cut) /\ descs = SubSeq(body, 1, m)
      BY <1>1, <2>2, CutIs
    <3>3. descs \in Seq(Descs) /\ Len(descs) = m
      <4> HIDE DEF m, descs
      <4> QED
        BY <1>1, <3>1, <3>2, PrefixIs
    <3>4. PICK state : Reading(state, descs) /\ Parse(cut) = state[m].read
      <4> HIDE DEF cut, m
      <4> QED
        BY <3>2, <3>3, ParseIs
    <3> HIDE DEF cut, descs, m
    <3>5. Between(settings, off, state[m], m) \/ Inside(settings, off, state[m], m)
      BY <1>1, <1>2, <3>1, <3>2, <3>4, ReadingIsInOrder
    <3>6. /\ IsPrefix(state[m].read, settings)
          /\ m = Len(body) => state[m].read = settings
      BY <1>1, <1>2, <3>1, <3>5, ReadingIsPrefix
    <3> QED
      BY <3>1, <3>4, <3>6 DEF cut
  <2> QED
    BY <1>3, <2>1, <2>2
<1>5. 3 + Len(body) \in Nat /\ 3 + Len(body) \in 0..(3 + Len(body))
  BY <1>3
<1> HIDE DEF packet
<1> QED
  BY <1>1, <1>3, <1>4, <1>5 DEF settings

-----------------------------------------------------------------------------
(* The size of the packet *)

\* The sum of a sequence, as the last of its partial sums.
LEMMA SumIs ==
    ASSUME NEW s \in Seq(Nat)
    PROVE  \E f \in [0..Len(s) -> Nat] :
              /\ f[0] = 0
              /\ \A n \in 1..Len(s) : f[n] = f[n - 1] + s[n]
              /\ Sum(s) = f[Len(s)]
<1> DEFINE N == Len(s)
           step == [p \in (1..N) \X Nat |-> p[2] + s[p[1]]]
           Solves(h) == h = [n \in 0..N |-> IF n = 0 THEN 0 ELSE h[n - 1] + s[n]]
           h == CHOOSE h : Solves(h)
<1>1. N \in Nat /\ \A n \in 1..N : s[n] \in Nat
  BY LenProperties, ElementOfSeq
<1>2. Sum(s) = h[N]
  BY DEF Sum
<1> HIDE DEF N
<1>3. step \in [(1..N) \X Nat -> Nat]
  BY <1>1
<1>4. PICK f \in [0..N -> Nat] : Recurs(f, 0, step, N)
  <2> HIDE DEF step
  <2> QED
    BY <1>1, <1>3, Recursion
<1>5. ASSUME NEW n \in 1..N PROVE f[n] = f[n - 1] + s[n]
  <2>1. n - 1 \in 0..N
    BY <1>1
  <2>2. f[n - 1] \in Nat
    BY <2>1
  <2>3. f[n] = step[<<n, f[n - 1]>>]
    <3> HIDE DEF step
    <3> QED
      BY <1>4 DEF Recurs
  <2> QED
    BY <2>2, <2>3
<1>6. f[0] = 0
  BY <1>4 DEF Recurs
<1> HIDE DEF step
<1>7. Solves(f)
  BY <1>1, <1>5, <1>6
<1>8. Solves(h)
  <2> HIDE DEF Solves
  <2> QED
    BY <1>7
<1> HIDE DEF h
<1>9. ASSUME NEW n \in 0..N PROVE h[n] = IF n = 0 THEN 0 ELSE h[n - 1] + s[n]
  BY <1>8
<1> HIDE DEF Solves
<1> DEFINE P == {n \in 0..N : h[n] = f[n]}
<1>10. 0 \in P
  BY <1>1, <1>6, <1>9
<1>11. ASSUME NEW n \in 0..(N - 1), n \in P PROVE n + 1 \in P
  <2> DEFINE m == n + 1
  <2>1. m \in 1..N /\ m \in 0..N /\ m # 0 /\ m - 1 = n
    BY <1>1
  <2> HIDE DEF m
  <2>2. h[m] = f[m]
    BY <1>5, <1>9, <1>11, <2>1
  <2> QED
    BY <2>1, <2>2 DEF m
<1>12. 0..N \subseteq P
  <2> HIDE DEF P
  <2> QED
    BY <1>1, <1>10, <1>11, Induct
<1>13. h[N] = f[N]
  BY <1>1, <1>12
<1> QED
  BY <1>2, <1>5, <1>6, <1>13 DEF N

\* The descriptors of a setting, with those of its first n endpoints, are as long as
\* the driver counts.
Exact(s, n) == s.len = InterfaceSize /\ \A j \in 1..n : s.eps[j].len = EndpointSize

\* The descriptors of a setting, from byte o on, have the bytes the driver counts
\* for them, or more.
LEMMA SettingSize ==
    ASSUME NEW s \in ASetting, NEW g \in [0..(1 + Len(s.eps)) -> Nat],
           g[1] = g[0] + s.len,
           \A j \in 1..Len(s.eps) : g[1 + j] = g[j] + s.eps[j].len
    PROVE  LET counted == InterfaceSize + EndpointSize * Len(s.eps)
           IN  /\ g[1 + Len(s.eps)] >= g[0] + counted
               /\ g[1 + Len(s.eps)] = g[0] + counted <=> Exact(s, Len(s.eps))
<1> DEFINE n == Len(s.eps)
           Fits(j) == /\ g[1 + j] >= g[0] + InterfaceSize + EndpointSize * j
                      /\ g[1 + j] = g[0] + InterfaceSize + EndpointSize * j <=> Exact(s, j)
           P == {j \in 0..n : Fits(j)}
<1>1. n \in Nat /\ \A j \in 1..n : s.eps[j].len \in 7..255
  <2>1. n \in Nat /\ \A j \in 1..n : s.eps[j] \in DescribedEndpoints
    BY SettingIs, ElementOfSeq
  <2>2. \A e \in DescribedEndpoints : e.len \in 7..255
    BY DEF DescribedEndpoints, EndpointSize
  <2> QED
    BY <2>1, <2>2
<1> HIDE DEF n
<1>2. g[0] \in Nat /\ \A j \in 0..n : g[1 + j] \in Nat
  <2>1. g \in [0..(1 + n) -> Nat]
    BY DEF n
  <2>2. 0 \in 0..(1 + n) /\ \A j \in 0..n : 1 + j \in 0..(1 + n)
    BY <1>1
  <2> QED
    BY <2>1, <2>2
<1>3. 0 \in P
  <2> DEFINE a == g[0]
             b == g[1]
             l == s.len
  <2>1. a \in Nat /\ b = a + l /\ l \in 9..255
    BY <1>2, SettingIs
  <2>2. Exact(s, 0) <=> l = 9
    BY DEF Exact, InterfaceSize
  <2>3. b >= a + 9 + 7 * 0 /\ (b = a + 9 + 7 * 0 <=> l = 9)
    <3> HIDE DEF a, b, l
    <3> QED
      BY <2>1
  <2>4. 1 + 0 = 1
    OBVIOUS
  <2>5. Fits(0)
    BY <2>2, <2>3, <2>4 DEF InterfaceSize, EndpointSize
  <2> QED
    BY <1>1, <2>5
<1>4. ASSUME NEW j \in 0..(n - 1), j \in P PROVE j + 1 \in P
  <2> DEFINE m == j + 1
             a == g[0]
             b == g[1 + j]
             c == g[1 + m]
             l == s.eps[m].len
  <2>1. m \in 1..n /\ m \in 0..n /\ j \in Nat /\ j \in 0..n /\ m \in Nat /\ 1 + j = m
    BY <1>1
  <2>2. a \in Nat /\ b \in Nat /\ c \in Nat /\ l \in 7..255
    BY <1>1, <1>2, <2>1
  <2>3. c = b + l
    <3>1. g[1 + m] = g[m] + s.eps[m].len
      BY <2>1 DEF n
    <3> QED
      BY <2>1, <3>1
  <2>4. b >= a + 9 + 7 * j /\ (b = a + 9 + 7 * j <=> Exact(s, j))
    BY <1>4 DEF InterfaceSize, EndpointSize
  <2>5. Exact(s, m) <=> Exact(s, j) /\ l = 7
    BY <2>1 DEF Exact, EndpointSize
  <2> HIDE DEF a, b, c, l
  <2>6. c >= a + 9 + 7 * (j + 1) /\ (c = a + 9 + 7 * (j + 1) <=> Exact(s, m))
    BY <2>1, <2>2, <2>3, <2>4, <2>5
  <2>7. Fits(m)
    BY <2>6 DEF a, c, InterfaceSize, EndpointSize
  <2> QED
    BY <2>1, <2>7
<1>5. 0..n \subseteq P
  <2> HIDE DEF P
  <2> QED
    BY <1>1, <1>3, <1>4, Induct
<1>6. Fits(n)
  BY <1>1, <1>5
<1>7. InterfaceSize \in Nat /\ EndpointSize * n \in Nat /\ 1 + n \in Nat
  BY <1>1 DEF InterfaceSize, EndpointSize
<1>8. g[0] + InterfaceSize + EndpointSize * n = g[0] + (InterfaceSize + EndpointSize * n)
  BY <1>2, <1>7
<1> QED
  BY <1>6, <1>8 DEF n

\* The bytes up to each descriptor, and those counted up to each setting.
Written(f, body) ==
    /\ f \in [0..Len(body) -> Nat]
    /\ \A i \in 1..Len(body) : f[i] = f[i - 1] + body[i].len

Counts(g, settings) ==
    /\ g \in [0..Len(settings) -> Nat] /\ g[0] = 0
    /\ \A k \in 1..Len(settings) :
          g[k] = g[k - 1] + (InterfaceSize + EndpointSize * Len(settings[k].eps))

\* So have those of all the settings.
LEMMA BodySize ==
    ASSUME NEW settings \in Seq(ASetting), NEW body, Len(body) \in Nat,
           NEW off, Layout(settings, body, off),
           NEW f, Written(f, body), NEW g, Counts(g, settings)
    PROVE  /\ f[Len(body)] >= f[0] + g[Len(settings)]
           /\ f[Len(body)] = f[0] + g[Len(settings)] <=>
                 \A k \in 1..Len(settings) : Exact(settings[k], Len(settings[k].eps))
<1> DEFINE L == Len(settings)
           N == Len(body)
           AllExact(k) == \A m \in 1..k : Exact(settings[m], Len(settings[m].eps))
           Fits(k) == /\ f[off[k]] >= f[0] + g[k]
                      /\ f[off[k]] = f[0] + g[k] <=> AllExact(k)
           P == {k \in 0..L : Fits(k)}
<1> f \in [0..N -> Nat] /\ g \in [0..L -> Nat] /\ g[0] = 0
  BY DEF Written, Counts
<1>1. L \in Nat /\ N \in Nat /\ \A k \in 1..L : settings[k] \in ASetting
  BY LenProperties, ElementOfSeq
<1>2. off \in [0..L -> Nat] /\ off[0] = 0 /\ off[L] = N /\ \A k \in 0..L : off[k] \in 0..N
  <2>1. off \in [0..L -> Nat] /\ off[0] = 0 /\ off[L] = N /\ \A k \in 0..L : off[k] <= N
    BY DEF Layout
  <2>2. \A k \in 0..L : off[k] \in Nat
    BY <2>1
  <2> QED
    BY <1>1, <2>1, <2>2
<1>3. f[0] \in Nat
  BY <1>1
<1>4. 0 \in P
  <2>1. f[off[0]] = f[0] + g[0]
    BY <1>2, <1>3
  <2>2. f[0] >= f[0] + 0 /\ g[0] = 0 /\ off[0] = 0
    BY <1>2, <1>3
  <2>3. AllExact(0)
    OBVIOUS
  <2> QED
    BY <1>1, <2>1, <2>2, <2>3
<1>5. ASSUME NEW k \in 0..(L - 1), k \in P PROVE k + 1 \in P
  <2> DEFINE m == k + 1
             s == settings[m]
             n == Len(s.eps)
             o == off[k]
             counted == InterfaceSize + EndpointSize * n
             e == [j \in 0..(1 + n) |-> f[o + j]]
  <2>1. m \in 1..L /\ m \in 0..L /\ k \in 0..L /\ m - 1 = k /\ m \in Nat
    BY <1>1
  <2>2. s \in ASetting /\ n \in Nat
    BY <1>1, <2>1, SettingIs
  <2>3. /\ off[m] = o + 1 + n
        /\ body[o + 1] = InterfaceDesc(s)
        /\ \A j \in 1..n : body[o + 1 + j] = EndpointDesc(s.eps[j])
    <3> HIDE DEF m
    <3> QED
      BY <2>1 DEF Layout
  <2>4. o \in 0..N /\ off[m] \in 0..N
    BY <1>2, <2>1
  <2>5. g[m] = g[k] + counted /\ g[k] \in Nat /\ counted \in Nat
    <3>1. g[m] = g[m - 1] + counted
      <4> HIDE DEF m
      <4> QED
        BY <2>1 DEF Counts
    <3>2. g[k] \in Nat
      BY <2>1
    <3>3. counted \in Nat
      <4> HIDE DEF n
      <4> QED
        BY <2>2 DEF InterfaceSize, EndpointSize
    <3> QED
      BY <2>1, <3>1, <3>2, <3>3
  <2> HIDE DEF m, s, n, o, counted
  <2>6. ASSUME NEW j \in 0..(1 + n) PROVE o + j \in 0..N
    BY <1>1, <2>2, <2>3, <2>4
  <2>7. e \in [0..(1 + n) -> Nat] /\ \A j \in 0..(1 + n) : e[j] = f[o + j]
    BY <2>6 DEF N
  <2>8. \A i \in 1..N : f[i] = f[i - 1] + body[i].len
    BY DEF N, Written
  <2> HIDE DEF e, N
  <2>9. e[1] = e[0] + s.len
    <3>1. 1 \in 0..(1 + n) /\ 0 \in 0..(1 + n) /\ o + 1 \in 1..N /\ (o + 1) - 1 = o /\ o + 0 = o
      BY <1>1, <2>2, <2>3, <2>4
    <3>2. f[o + 1] = f[(o + 1) - 1] + body[o + 1].len
      BY <2>8, <3>1
    <3>3. body[o + 1].len = s.len
      BY <2>3 DEF InterfaceDesc
    <3>4. e[1] = f[o + 1] /\ e[0] = f[o + 0]
      BY <2>7, <3>1
    <3> QED
      BY <3>1, <3>2, <3>3, <3>4
  <2>10. ASSUME NEW j \in 1..n PROVE e[1 + j] = e[j] + s.eps[j].len
    <3> DEFINE i == o + 1 + j
    <3>1. /\ 1 + j \in 0..(1 + n) /\ j \in 0..(1 + n) /\ i \in 1..N /\ i - 1 = o + j
          /\ o + (1 + j) = i
      BY <1>1, <2>2, <2>3, <2>4
    <3>2. body[i] = EndpointDesc(s.eps[j]) /\ EndpointDesc(s.eps[j]).len = s.eps[j].len
      BY <2>3 DEF EndpointDesc
    <3> HIDE DEF i
    <3>3. f[i] = f[i - 1] + body[i].len
      BY <2>8, <3>1
    <3>4. e[1 + j] = f[o + (1 + j)] /\ e[j] = f[o + j]
      BY <2>7, <3>1
    <3> QED
      BY <3>1, <3>2, <3>3, <3>4
  <2>11. /\ e[1 + n] >= e[0] + counted
         /\ e[1 + n] = e[0] + counted <=> Exact(s, n)
    BY <2>2, <2>7, <2>9, <2>10, SettingSize DEF n, counted
  <2>12. e[0] = f[o] /\ e[1 + n] = f[off[m]]
    <3>1. 0 \in 0..(1 + n) /\ 1 + n \in 0..(1 + n) /\ o + 0 = o /\ o + (1 + n) = o + 1 + n
      BY <2>2, <2>4
    <3>2. e[0] = f[o + 0] /\ e[1 + n] = f[o + (1 + n)]
      BY <2>7, <3>1
    <3> QED
      BY <2>3, <3>1, <3>2
  <2>13. f[o] >= f[0] + g[k] /\ (f[o] = f[0] + g[k] <=> AllExact(k))
    BY <1>5 DEF o
  <2>14. f[o] \in Nat /\ f[off[m]] \in Nat
    BY <2>4 DEF N
  <2>15. AllExact(m) <=> AllExact(k) /\ Exact(s, n)
    <3>1. \A i : i \in 1..m <=> i \in 1..k \/ i = m
      BY <2>1 DEF m
    <3> QED
      BY <3>1 DEF s, n
  <2> DEFINE a == f[0]
             b == f[o]
             c == f[off[m]]
             x == g[k]
             y == g[m]
  <2>16. a \in Nat /\ b \in Nat /\ c \in Nat /\ x \in Nat /\ counted \in Nat /\ y = x + counted
    BY <1>3, <2>5, <2>14
  <2>17. b >= a + x /\ c >= b + counted
    BY <2>11, <2>12, <2>13
  <2>18. (b = a + x <=> AllExact(k)) /\ (c = b + counted <=> Exact(s, n))
    BY <2>11, <2>12, <2>13
  <2> HIDE DEF a, b, c, x, y, AllExact
  <2>19. c >= a + y /\ (c = a + y <=> (b = a + x /\ c = b + counted))
    BY <2>16, <2>17
  <2>20. c = a + y <=> AllExact(m)
    BY <2>15, <2>18, <2>19, Zenon
  <2>21. Fits(m)
    BY <2>19, <2>20 DEF a, c, y
  <2> QED
    BY <2>1, <2>21 DEF m
<1>6. 0..L \subseteq P
  <2> HIDE DEF P
  <2> QED
    BY <1>1, <1>4, <1>5, Induct
<1>7. Fits(L)
  BY <1>1, <1>6
<1> QED
  BY <1>2, <1>7 DEF L, N

\* The lengths of the descriptors.
LEMMA DescLength ==
    ASSUME NEW d \in Descs
    PROVE  d.len \in Nat
<1>1. ASSUME NEW s \in ASetting PROVE InterfaceDesc(s).len \in Nat
  <2>1. s.len \in 9..255
    BY SettingIs
  <2> QED
    BY <2>1 DEF InterfaceDesc
<1>2. ASSUME NEW e \in DescribedEndpoints PROVE EndpointDesc(e).len \in Nat
  <2>1. e.len \in 7..255
    BY DEF DescribedEndpoints, EndpointSize
  <2> QED
    BY <2>1 DEF EndpointDesc
<1> QED
  BY <1>1, <1>2 DEF Descs

LEMMA HeaderLength ==
    Header[1].len = 4 /\ Header[2].len = 18 /\ Header[3].len = 9
  BY DEF Header

\* build_init_pkt never copies less than it allocates, and copies exactly that much
\* if and only if the descriptors of the device's interfaces and endpoints all have
\* the size it counts (driver.c:1108-1109, against bLength in 1132 and 1136).
THEOREM SizeIsAllocated ==
    ASSUME NEW device \in Descriptions
    PROVE  /\ Size(Build(device)) >= AllocatedSize(device)
           /\ Size(Build(device)) = AllocatedSize(device) <=>
                 \A s \in Range(SettingsOf(device)) :
                     s.len = InterfaceSize /\ \A e \in Range(s.eps) : e.len = EndpointSize
<1> DEFINE settings == SettingsOf(device)
           body == Body(settings)
           packet == Header \o body
           lens == [k \in DOMAIN packet |-> packet[k].len]
           counts == [k \in DOMAIN settings |-> InterfaceSize + EndpointSize * Len(settings[k].eps)]
           L == Len(settings)
           N == Len(body)
<1>1. settings \in Seq(ASetting) /\ body \in Seq(Descs) /\ Build(device) = packet
  BY BuildIs
<1>2. /\ L \in Nat /\ DOMAIN settings = 1..L /\ N \in Nat
      /\ \A k \in 1..L : settings[k] \in ASetting
      /\ \A i \in 1..N : body[i] \in Descs
  BY <1>1, LenProperties, ElementOfSeq
<1>3. PICK off : Layout(settings, body, off)
  BY <1>1, BodyLayout
<1>4. AllocatedSize(device) = 31 + Sum(counts)
  BY DEF AllocatedSize
<1>5. Size(packet) = Sum(lens)
  BY DEF Size
<1> HIDE DEF settings, body
<1>6. counts \in Seq(Nat) /\ Len(counts) = L
  <2>1. \A k \in 1..L : InterfaceSize + EndpointSize * Len(settings[k].eps) \in Nat
    <3>1. \A k \in 1..L : Len(settings[k].eps) \in Nat
      BY <1>2, SettingIs
    <3> QED
      BY <3>1 DEF InterfaceSize, EndpointSize
  <2>2. counts \in [1..L -> Nat]
    BY <1>2, <2>1
  <2> HIDE DEF counts, L
  <2> QED
    BY <1>2, <2>2, SeqDef, LenProperties
<1>7. \A k \in 1..L : counts[k] = InterfaceSize + EndpointSize * Len(settings[k].eps)
  BY <1>2
<1>8. /\ Len(packet) = 3 + N /\ DOMAIN packet = 1..(3 + N)
      /\ \A i \in 1..3 : packet[i] = Header[i]
      /\ \A i \in 1..N : packet[3 + i] = body[i]
  BY <1>1, PacketIs
<1> HIDE DEF packet
<1>9. lens \in Seq(Nat) /\ Len(lens) = 3 + N
  <2>1. \A d \in Descs : d.len \in Nat
    BY DescLength
  <2>2. ASSUME NEW i \in 1..(3 + N) PROVE packet[i].len \in Nat
    <3>1. CASE i \in 1..3
      BY <1>8, <3>1, HeaderLength
    <3>2. CASE i \notin 1..3
      <4> DEFINE j == i - 3
      <4>1. j \in 1..N /\ 3 + j = i
        BY <1>2, <3>2
      <4> HIDE DEF j
      <4> QED
        BY <1>2, <1>8, <2>1, <4>1
    <3> QED
      BY <3>1, <3>2
  <2>3. lens \in [1..(3 + N) -> Nat]
    BY <1>8, <2>2
  <2> HIDE DEF lens, N
  <2> QED
    BY <1>2, <2>3, SeqDef, LenProperties
<1>10. /\ lens[1] = 4 /\ lens[2] = 18 /\ lens[3] = 9
       /\ \A i \in 1..N : lens[3 + i] = body[i].len
  <2>1. \A i \in 1..(3 + N) : lens[i] = packet[i].len
    BY <1>8
  <2>2. /\ 1 \in 1..(3 + N) /\ 2 \in 1..(3 + N) /\ 3 \in 1..(3 + N)
        /\ 1 \in 1..3 /\ 2 \in 1..3 /\ 3 \in 1..3
        /\ \A i \in 1..N : 3 + i \in 1..(3 + N)
    BY <1>2
  <2> HIDE DEF lens
  <2> QED
    BY <1>8, <2>1, <2>2, HeaderLength, SMTT(30)
<1> HIDE DEF lens, counts
<1>11. PICK h \in [0..(3 + N) -> Nat] :
           /\ h[0] = 0
           /\ \A i \in 1..(3 + N) : h[i] = h[i - 1] + lens[i]
           /\ Sum(lens) = h[3 + N]
  BY <1>9, SumIs
<1>12. PICK g \in [0..L -> Nat] :
           /\ g[0] = 0
           /\ \A k \in 1..L : g[k] = g[k - 1] + counts[k]
           /\ Sum(counts) = g[L]
  BY <1>6, SumIs
<1> DEFINE f == [i \in 0..N |-> h[3 + i]]
<1>13. f \in [0..N -> Nat] /\ \A i \in 0..N : f[i] = h[3 + i]
  <2>1. \A i \in 0..N : 3 + i \in 0..(3 + N)
    BY <1>2
  <2> QED
    BY <1>11, <2>1
<1> HIDE DEF f
<1>14. f[0] = 31
  <2>1. /\ 1 \in 1..(3 + N) /\ 2 \in 1..(3 + N) /\ 3 \in 1..(3 + N)
        /\ 1 - 1 = 0 /\ 2 - 1 = 1 /\ 3 - 1 = 2
    BY <1>2
  <2>2. h[1] = h[0] + lens[1] /\ h[2] = h[1] + lens[2] /\ h[3] = h[2] + lens[3]
    BY <1>11, <2>1
  <2>3. h[3] = 31
    BY <1>10, <1>11, <2>2
  <2>4. f[0] = h[3 + 0] /\ 3 + 0 = 3
    BY <1>2, <1>13
  <2> QED
    BY <2>3, <2>4
<1>15. ASSUME NEW i \in 1..N PROVE f[i] = f[i - 1] + body[i].len
  <2>1. 3 + i \in 1..(3 + N) /\ (3 + i) - 1 = 3 + (i - 1) /\ i \in 0..N /\ i - 1 \in 0..N
    BY <1>2
  <2>2. h[3 + i] = h[(3 + i) - 1] + lens[3 + i]
    BY <1>11, <2>1
  <2>3. f[i] = h[3 + i] /\ f[i - 1] = h[3 + (i - 1)]
    BY <1>13, <2>1
  <2> QED
    BY <1>10, <2>1, <2>2, <2>3
<1>16. /\ f[N] >= 31 + g[L]
       /\ f[N] = 31 + g[L] <=> \A k \in 1..L : Exact(settings[k], Len(settings[k].eps))
  <2>1. Counts(g, settings)
    BY <1>7, <1>12 DEF Counts
  <2>2. Written(f, body)
    BY <1>13, <1>15 DEF Written
  <2>3. /\ f[N] >= f[0] + g[L]
        /\ f[N] = f[0] + g[L] <=> \A k \in 1..L : Exact(settings[k], Len(settings[k].eps))
    BY <1>1, <1>2, <1>3, <2>1, <2>2, BodySize, SMTT(30)
  <2> QED
    BY <1>14, <2>3, Zenon
<1>17. f[N] = h[3 + N]
  BY <1>2, <1>13
<1>18. (\A k \in 1..L : Exact(settings[k], Len(settings[k].eps)))
           <=> \A s \in Range(settings) :
                  s.len = InterfaceSize /\ \A e \in Range(s.eps) : e.len = EndpointSize
  <2>1. \A k \in 1..L : DOMAIN settings[k].eps = 1..Len(settings[k].eps)
    BY <1>2, SettingIs
  <2>2. ASSUME NEW k \in 1..L
        PROVE  Exact(settings[k], Len(settings[k].eps))
                   <=> /\ settings[k].len = InterfaceSize
                       /\ \A e \in Range(settings[k].eps) : e.len = EndpointSize
    <3> DEFINE E == settings[k].eps
    <3>1. DOMAIN E = 1..Len(E)
      BY <2>1
    <3>2. Exact(settings[k], Len(E)) <=>
              settings[k].len = InterfaceSize /\ \A j \in DOMAIN E : E[j].len = EndpointSize
      BY <3>1 DEF Exact
    <3>3. Range(E) = {E[j] : j \in DOMAIN E}
      BY DEF Range
    <3> HIDE DEF E
    <3>4. (\A e \in Range(E) : e.len = EndpointSize) <=> \A j \in DOMAIN E : E[j].len = EndpointSize
      BY <3>3
    <3> QED
      BY <3>2, <3>4 DEF E
  <2>3. Range(settings) = {settings[k] : k \in 1..L}
    BY <1>2 DEF Range
  <2> DEFINE AllCounted(s) ==
                 s.len = InterfaceSize /\ \A e \in Range(s.eps) : e.len = EndpointSize
  <2>4. \A k \in 1..L : Exact(settings[k], Len(settings[k].eps)) <=> AllCounted(settings[k])
    BY <2>2
  <2> HIDE DEF AllCounted
  <2>5. (\A k \in 1..L : AllCounted(settings[k])) <=> \A s \in Range(settings) : AllCounted(s)
    BY <2>3, Zenon
  <2>6. (\A k \in 1..L : Exact(settings[k], Len(settings[k].eps)))
            <=> \A s \in Range(settings) : AllCounted(s)
    BY <2>4, <2>5, Zenon
  <2> QED
    BY <2>6 DEF AllCounted
<1>19. Size(Build(device)) = f[N] /\ AllocatedSize(device) = 31 + g[L]
  BY <1>1, <1>4, <1>5, <1>11, <1>12, <1>17
<1> HIDE DEF L, N, f
<1> QED
  BY <1>16, <1>18, <1>19 DEF settings
=============================================================================
