------------------------- MODULE BuilderSettingsProofs -------------------------
(***************************************************************************)
(* Proofs about BuilderSettings for every set of protocols, keys,          *)
(* certificates and options and every bound on the protocol list.          *)
(*                                                                         *)
(* AlpnMatchesRequest is inductive together with TypeOK: only a            *)
(* set_application_protocol_preference step can make it relevant, and that *)
(* step returns Ok only after appending the whole list to an empty one.    *)
(* RejectedInputChangesNothing holds of every step by itself.              *)
(***************************************************************************)
EXTENDS BuilderSettings, SequenceTheorems, TLAPS

\* A bounded sequence is a sequence.
LEMMA BoundedSeqIsSeq ==
  ASSUME NEW S, NEW n \in Nat, NEW s \in BoundedSeq(S, n)
  PROVE  s \in Seq(S)
<1>1. PICK k \in 0 .. n : s \in [1 .. k -> S]
  BY DEF BoundedSeq
<1>2. QED
  BY <1>1

SInv == TypeOK /\ AlpnMatchesRequest

LEMMA SInvInit == Init => SInv
<1> SUFFICES ASSUME Init PROVE SInv
  OBVIOUS
<1>1. alpn \in Seq(Protocols) /\ asked \in Seq(Protocols)
  BY EmptySeq DEF Init
<1>2. opts \in [Options -> Values \cup {Default}]
  BY DEF Init
<1>3. last \in [op : Ops, res : Results]
  BY DEF Init, Ops, Results
<1>4. QED
  BY <1>1, <1>2, <1>3 DEF Init, SInv, TypeOK, AlpnMatchesRequest

\* The step of set_application_protocol_preference.
LEMMA SInvSetAlpn ==
  ASSUME SInv, NEW ps \in BoundedSeq(Protocols, MaxAlpn),
         SetApplicationProtocolPreference(ps)
  PROVE  SInv'
<1>1. ps \in Seq(Protocols)
  BY BoundedSeqIsSeq, SettingsAssumption
<1>2. CASE Return("alpn_set", "cerr") /\ UNCHANGED cvars
  BY <1>1, <1>2 DEF SetApplicationProtocolPreference, Return, cvars, SInv,
                    TypeOK, AlpnMatchesRequest, Ops, Results
<1>3. CASE \E n \in 0 .. Len(ps) :
             /\ \A i \in 1 .. n : ps[i] \notin LongProtocols
             /\ alpn' = SubSeq(ps, 1, n)
             /\ Return("alpn_set", IF n = Len(ps) THEN "ok"
                                   ELSE AppendOutcome(ps[n + 1], FALSE))
             /\ UNCHANGED <<ticketsOn, keys, opts, trust, certs>>
  <2>1. PICK n \in 0 .. Len(ps) :
             /\ alpn' = SubSeq(ps, 1, n)
             /\ Return("alpn_set", IF n = Len(ps) THEN "ok"
                                   ELSE AppendOutcome(ps[n + 1], FALSE))
             /\ UNCHANGED <<ticketsOn, keys, opts, trust, certs>>
    BY <1>3
  <2>2. alpn' \in Seq(Protocols)
    BY <1>1, <2>1, SubSeqProperties
  <2>3. last'.res \in Results
    BY <2>1 DEF Return, AppendOutcome, Results
  <2>4. TypeOK'
    BY <1>1, <2>1, <2>2, <2>3 DEF SetApplicationProtocolPreference, Return, SInv,
                                  TypeOK, Ops, Results
  <2>5. AlpnMatchesRequest'
    <3>1. CASE n = Len(ps)
      BY <1>1, <2>1, <3>1, SubSeqFull DEF SetApplicationProtocolPreference, Return,
                                          AlpnMatchesRequest
    <3>2. CASE n # Len(ps)
      BY <2>1, <3>2 DEF Return, AppendOutcome, AlpnMatchesRequest
    <3>3. QED
      BY <3>1, <3>2
  <2>6. QED
    BY <2>4, <2>5 DEF SInv
<1>4. QED
  BY <1>2, <1>3 DEF SetApplicationProtocolPreference

\* Every other setter returns with another `op`, so only TypeOK is at stake.
LEMMA SInvOther ==
  ASSUME SInv,
         \/ \E p \in Protocols : AppendApplicationProtocolPreference(p)
         \/ \E b \in BOOLEAN : EnableSessionTickets(b)
         \/ \E k \in KeyNames, len \in KeyLens, be \in BOOLEAN : AddSessionTicketKey(k, len, be)
         \/ \E o \in Options, v \in Values : SetTicketOption(o, v)
         \/ \E c \in TrustCerts, nul \in BOOLEAN : TrustPem(c, nul)
         \/ WipeTrustStore
         \/ \E c \in TrustCerts, nc, nk \in BOOLEAN : LoadPem(c, nc, nk)
  PROVE  SInv'
<1> USE DEF SInv, TypeOK, AlpnMatchesRequest, Return, Ops, Results
<1>1. CASE \E p \in Protocols : AppendApplicationProtocolPreference(p)
  <2>1. PICK p \in Protocols : AppendApplicationProtocolPreference(p)
    BY <1>1
  <2>2. asked' \in Seq(Protocols)
    BY <2>1, AppendProperties DEF AppendApplicationProtocolPreference
  <2>3. PICK cok \in BOOLEAN :
             /\ alpn' = IF AppendOutcome(p, cok) = "ok" THEN Append(alpn, p) ELSE alpn
             /\ Return("alpn_append", AppendOutcome(p, cok))
    BY <2>1 DEF AppendApplicationProtocolPreference
  <2>4. alpn' \in Seq(Protocols)
    BY <2>3, AppendProperties
  <2>5. last'.res \in Results
    BY <2>3 DEF AppendOutcome
  <2>6. QED
    BY <2>1, <2>2, <2>3, <2>4, <2>5 DEF AppendApplicationProtocolPreference
<1>2. CASE \E b \in BOOLEAN : EnableSessionTickets(b)
  BY <1>2 DEF EnableSessionTickets
<1>3. CASE \E k \in KeyNames, len \in KeyLens, be \in BOOLEAN : AddSessionTicketKey(k, len, be)
  <2>1. PICK k \in KeyNames, len \in KeyLens, be \in BOOLEAN : AddSessionTicketKey(k, len, be)
    BY <1>3
  <2>2. last'.op = "ticket_key"
    BY <2>1 DEF AddSessionTicketKey
  <2>3. ticketsOn' \in BOOLEAN
    BY <2>1 DEF AddSessionTicketKey
  <2>4. keys' \subseteq KeyNames
    <3>1. CASE UNCHANGED keys
      BY <3>1
    <3>2. CASE \E ok \in BOOLEAN : keys' = IF ok THEN keys \cup {k} ELSE keys
      BY <3>2
    <3>3. QED
      BY <2>1, <3>1, <3>2 DEF AddSessionTicketKey
  <2>5. QED
    BY <2>1, <2>2, <2>3, <2>4 DEF AddSessionTicketKey
<1>4. CASE \E o \in Options, v \in Values : SetTicketOption(o, v)
  BY <1>4 DEF SetTicketOption
<1>5. CASE \E c \in TrustCerts, nul \in BOOLEAN : TrustPem(c, nul)
  BY <1>5 DEF TrustPem
<1>6. CASE WipeTrustStore
  BY <1>6 DEF WipeTrustStore
<1>7. CASE \E c \in TrustCerts, nc, nk \in BOOLEAN : LoadPem(c, nc, nk)
  BY <1>7 DEF LoadPem
<1>8. QED
  BY <1>1, <1>2, <1>3, <1>4, <1>5, <1>6, <1>7

LEMMA SInvStep == SInv /\ [Next]_vars => SInv'
<1> SUFFICES ASSUME SInv, [Next]_vars PROVE SInv'
  OBVIOUS
<1>1. CASE UNCHANGED vars
  BY <1>1 DEF vars, cvars, SInv, TypeOK, AlpnMatchesRequest
<1>2. QED
  BY <1>1, SInvSetAlpn, SInvOther DEF Next

\* After set_application_protocol_preference returned Ok, the C config's
\* protocol list is exactly the one passed, in every reachable state.
THEOREM AlpnCorrect == Spec => [](TypeOK /\ AlpnMatchesRequest)
BY SInvInit, SInvStep, PTL DEF Spec, SInv

\* Every setter other than set_application_protocol_preference that returns
\* INVALID_INPUT (add_session_ticket_key, trust_pem, load_pem,
\* append_application_protocol_preference) checks its input before its
\* first C call, so the C config is left as it was.
THEOREM InputCheckedFirst == Spec => RejectedInputChangesNothing
<1>1. [Next]_vars => (last'.res = "invalid" /\ last'.op # "alpn_set" => UNCHANGED cvars)
  <2> SUFFICES ASSUME [Next]_vars, last'.res = "invalid", last'.op # "alpn_set"
               PROVE  UNCHANGED cvars
    OBVIOUS
  <2> USE DEF Return, cvars
  <2>1. CASE \E ps \in BoundedSeq(Protocols, MaxAlpn) : SetApplicationProtocolPreference(ps)
    <3>1. PICK ps \in BoundedSeq(Protocols, MaxAlpn) : SetApplicationProtocolPreference(ps)
      BY <2>1
    <3>2. \E r : last' = [op |-> "alpn_set", res |-> r]
      BY <3>1, Zenon DEF SetApplicationProtocolPreference
    <3>3. QED
      BY <3>2
  <2>2. CASE \E p \in Protocols : AppendApplicationProtocolPreference(p)
    BY <2>2 DEF AppendApplicationProtocolPreference, AppendOutcome
  <2>3. CASE \E b \in BOOLEAN : EnableSessionTickets(b)
    BY <2>3 DEF EnableSessionTickets
  <2>4. CASE \E k \in KeyNames, len \in KeyLens, be \in BOOLEAN : AddSessionTicketKey(k, len, be)
    BY <2>4 DEF AddSessionTicketKey
  <2>5. CASE \E o \in Options, v \in Values : SetTicketOption(o, v)
    BY <2>5 DEF SetTicketOption
  <2>6. CASE \E c \in TrustCerts, nul \in BOOLEAN : TrustPem(c, nul)
    BY <2>6 DEF TrustPem
  <2>7. CASE WipeTrustStore
    BY <2>7 DEF WipeTrustStore
  <2>8. CASE \E c \in TrustCerts, nc, nk \in BOOLEAN : LoadPem(c, nc, nk)
    BY <2>8 DEF LoadPem
  <2>9. CASE UNCHANGED vars
    BY <2>9 DEF vars
  <2>10. QED
    BY <2>1, <2>2, <2>3, <2>4, <2>5, <2>6, <2>7, <2>8, <2>9 DEF Next
<1>2. QED
  BY <1>1, PTL DEF Spec, RejectedInputChangesNothing

=============================================================================
