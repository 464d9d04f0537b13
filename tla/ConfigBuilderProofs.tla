------------------------- MODULE ConfigBuilderProofs -------------------------
(***************************************************************************)
(* Proofs about ConfigBuilder, for every set of chains, callback kinds and *)
(* handlers and every limit.                                               *)
(*                                                                         *)
(* NoDanglingChain is not inductive: a chain the application drops must    *)
(* not be one the C config borrowed, which holds because every borrowed    *)
(* chain was also pushed onto application_owned_certs.  OcspMatchesRequest *)
(* needs that enable_ocsp can only have succeeded where OCSP is supported. *)
(***************************************************************************)
EXTENDS ConfigBuilder, SequenceTheorems, TLAPS

\* The strengthening of the two Builder invariants that every step keeps.
BInv ==
  /\ TypeOK
  \* what C borrowed is also owned by the Context
  /\ cStore \cup cDefaults \subseteq Range(owned)
  \* enable_ocsp succeeded only where OCSP stapling is supported
  /\ enableOcsp => OcspSupported
  /\ OcspMatchesRequest

-----------------------------------------------------------------------------
(* Lemmas on the range of the Context's list of owned chains.              *)

LEMMA RangeAppend ==
  ASSUME NEW S, NEW s \in Seq(S), NEW x \in S
  PROVE  Range(Append(s, x)) = Range(s) \cup {x}
<1>1. Append(s, x) = s \o <<x>> /\ <<x>> \in Seq(S)
  BY AppendIsConcat
<1>2. Range(<<x>>) = {x}
  BY DEF Range
<1>3. Range(s \o <<x>>) = Range(s) \cup Range(<<x>>)
  BY <1>1, RangeConcatenation
<1>4. QED
  BY <1>1, <1>2, <1>3

\* The argument of set_default_chains is a sequence of chains.
LEMMA ChainSeqsAreSeqs ==
  ASSUME NEW cs \in ChainSeqs
  PROVE  cs \in Seq(Chains) /\ Len(cs) <= CHAINS_MAX_COUNT + 1
<1>1. PICK n \in 0 .. CHAINS_MAX_COUNT + 1 : cs \in [1 .. n -> Chains]
  BY DEF ChainSeqs
<1>2. QED
  BY <1>1, ConstantsAssumption

-----------------------------------------------------------------------------

LEMMA BInvInit == Init => BInv
<1> SUFFICES ASSUME Init PROVE BInv
  OBVIOUS
<1>1. TypeOK
  <2>1. owned \in Seq(Chains) /\ Len(owned) <= MaxOwned
    BY ConstantsAssumption, EmptySeq DEF Init
  <2>2. handler \in [Categories -> Handlers \cup {None}]
    BY DEF Init
  <2>3. /\ phase \in {"building", "built", "dropped"}
        /\ appHeld \subseteq Chains /\ cStore \subseteq Chains /\ cDefaults \subseteq Chains
        /\ cCallback \subseteq Categories
    BY DEF Init
  <2>4. /\ enableOcsp \in BOOLEAN /\ ticketsOn \in BOOLEAN /\ loadSystemCerts \in BOOLEAN
        /\ cStatus \in {"NONE", "OCSP"}
    BY DEF Init
  <2>5. QED
    BY <2>1, <2>2, <2>3, <2>4 DEF TypeOK
<1>2. Range(owned) = {}
  BY DEF Init, Range
<1>3. QED
  BY <1>1, <1>2 DEF Init, BInv, OcspMatchesRequest

\* Builder::load_chain keeps BInv, whether or not C kept the chain.
LEMMA BInvLoadChain ==
  ASSUME BInv, NEW c \in Chains, LoadChain(c)
  PROVE  BInv'
<1> USE DEF BInv
<1>1. PICK keep \in SUBSET {c}, ok \in BOOLEAN, retained \in BOOLEAN :
        /\ HandOver({c}, keep)
        /\ cStore' = IF retained THEN cStore \cup {c} ELSE cStore
        /\ owned' = Append(owned, c)
  BY DEF LoadChain
<1>2. owned' \in Seq(Chains) /\ Len(owned') <= MaxOwned
  <2>1. owned \in Seq(Chains) /\ Len(owned) < MaxOwned
    BY DEF LoadChain, TypeOK
  <2>2. QED
    BY <1>1, <2>1, AppendProperties, ConstantsAssumption
<1>3. Range(owned') = Range(owned) \cup {c}
  BY <1>1, RangeAppend DEF TypeOK
<1>4. appHeld' \subseteq Chains /\ cStore' \subseteq Chains
  BY <1>1 DEF HandOver, TypeOK
<1>5. cStore' \cup cDefaults' \subseteq Range(owned')
  BY <1>1, <1>3 DEF LoadChain
<1>6. QED
  BY <1>2, <1>4, <1>5 DEF LoadChain, TypeOK, OcspMatchesRequest

\* Builder::set_default_chains, refused, failed or done.
LEMMA BInvSetDefaultChains ==
  ASSUME BInv, NEW cs \in ChainSeqs, SetDefaultChains(cs)
  PROVE  BInv'
<1> USE DEF BInv
<1>1. cs \in Seq(Chains)
  BY ChainSeqsAreSeqs
<1>2. PICK keep \in SUBSET Range(cs) : HandOver(Range(cs), keep)
  BY DEF SetDefaultChains
<1>3. appHeld' \subseteq Chains
  BY <1>2 DEF HandOver, TypeOK
<1>4. CASE Len(cs) > CHAINS_MAX_COUNT
  BY <1>3, <1>4 DEF SetDefaultChains, TypeOK, OcspMatchesRequest
<1>5. CASE Len(cs) <= CHAINS_MAX_COUNT
  <2>0. ~(Len(cs) > CHAINS_MAX_COUNT)
    BY <1>1, <1>5, ConstantsAssumption
  <2>1. /\ owned' = owned \o cs
        /\ Len(owned) + Len(cs) <= MaxOwned
        /\ \E ok \in BOOLEAN : cDefaults' = IF ok THEN Range(cs) ELSE cDefaults
    BY <2>0 DEF SetDefaultChains
  <2>2. owned' \in Seq(Chains) /\ Len(owned') <= MaxOwned
    BY <1>1, <2>1, ConcatProperties DEF TypeOK
  <2>3. Range(owned') = Range(owned) \cup Range(cs)
    BY <1>1, <2>1, RangeConcatenation DEF TypeOK
  <2>4. Range(cs) \subseteq Chains
    BY <1>1, RangeOfSeq
  <2>5. cDefaults' \subseteq Range(owned') /\ cDefaults' \subseteq Chains
    BY <2>1, <2>3, <2>4 DEF TypeOK
  <2>6. QED
    BY <1>3, <2>2, <2>3, <2>5 DEF SetDefaultChains, TypeOK, OcspMatchesRequest
<1>6. QED
  BY <1>1, <1>4, <1>5, ConstantsAssumption

\* enable_ocsp, set_ocsp_data and trust_location, in either order.
LEMMA BInvOcsp ==
  ASSUME BInv, EnableOcsp \/ SetOcspData \/ TrustLocation
  PROVE  BInv'
<1> USE DEF BInv
<1>1. CASE EnableOcsp \/ SetOcspData
  <2>1. EnableOcsp
    BY <1>1 DEF SetOcspData
  <2>2. QED
    BY <2>1 DEF EnableOcsp, TypeOK, OcspMatchesRequest
<1>2. CASE TrustLocation
  <2>1. CASE enableOcsp
    <3>1. OcspSupported
      BY <2>1
    <3>2. cStatus' = "OCSP"
      BY <1>2, <2>1, <3>1 DEF TrustLocation
    <3>3. QED
      BY <1>2, <2>1, <3>1, <3>2 DEF TrustLocation, TypeOK, OcspMatchesRequest
  <2>2. CASE ~enableOcsp
    BY <1>2, <2>2 DEF TrustLocation, TypeOK, OcspMatchesRequest
  <2>3. QED
    BY <2>1, <2>2
<1>3. QED
  BY <1>1, <1>2

\* The remaining setters, build, and the application's drops of its chains.
LEMMA BInvOther ==
  ASSUME BInv,
         \/ \E b \in BOOLEAN : WithSystemCerts(b) \/ EnableSessionTickets(b)
         \/ \E cat \in Categories, h \in Handlers : SetCallback(cat, h)
         \/ Build
         \/ \E c \in Chains : AppDropChain(c)
  PROVE  BInv'
<1> USE DEF BInv
<1>1. CASE \E b \in BOOLEAN : WithSystemCerts(b) \/ EnableSessionTickets(b)
  BY <1>1 DEF WithSystemCerts, EnableSessionTickets, TypeOK, OcspMatchesRequest
<1>2. CASE \E cat \in Categories, h \in Handlers : SetCallback(cat, h)
  <2>1. PICK cat \in Categories, h \in Handlers : SetCallback(cat, h)
    BY <1>2
  <2>2. handler' \in [Categories -> Handlers \cup {None}]
    BY <2>1 DEF SetCallback, TypeOK
  <2>3. cCallback' \subseteq Categories /\ ticketsOn' \in BOOLEAN
    BY <2>1 DEF SetCallback, TypeOK
  <2>4. QED
    BY <2>1, <2>2, <2>3 DEF SetCallback, TypeOK, OcspMatchesRequest
<1>3. CASE Build
  <2>1. CASE UNCHANGED <<owned, cStore, cDefaults>>
    BY <1>3, <2>1 DEF Build, TypeOK, OcspMatchesRequest
  <2>2. CASE owned' = <<>> /\ cStore' = {} /\ cDefaults' = {}
    <3>1. owned' \in Seq(Chains) /\ Len(owned') <= MaxOwned
      BY <2>2, EmptySeq, ConstantsAssumption
    <3>2. QED
      BY <1>3, <2>2, <3>1 DEF Build, TypeOK, OcspMatchesRequest
  <2>3. QED
    BY <1>3, <2>1, <2>2 DEF Build
<1>4. CASE \E c \in Chains : AppDropChain(c)
  <2>1. Range(owned') = Range(owned)
    BY <1>4 DEF AppDropChain
  <2>2. QED
    BY <1>4, <2>1 DEF AppDropChain, TypeOK, OcspMatchesRequest
<1>5. QED
  BY <1>1, <1>2, <1>3, <1>4

LEMMA BInvStep == BInv /\ [Next]_vars => BInv'
<1> SUFFICES ASSUME BInv, [Next]_vars PROVE BInv'
  OBVIOUS
<1>1. CASE UNCHANGED vars
  BY <1>1 DEF vars, BInv, TypeOK, OcspMatchesRequest, Range
<1>2. QED
  BY <1>1, BInvLoadChain, BInvSetDefaultChains, BInvOcsp, BInvOther DEF Next

\* BInv holds in every reachable state of the staging phase.
THEOREM BuilderInvariant == Spec => []BInv
BY BInvInit, BInvStep, PTL DEF Spec

\* Whatever the C library reports and whenever the application drops its
\* chains, the C config never borrows freed chain memory, and OCSP stapling
\* is on exactly when enable_ocsp or set_ocsp_data asked for it.
THEOREM BuilderSafety == Spec => [](NoDanglingChain /\ OcspMatchesRequest)
<1>1. BInv => NoDanglingChain /\ OcspMatchesRequest
  BY DEF BInv, NoDanglingChain, Alive, Range
<1>2. QED
  BY <1>1, BuilderInvariant, PTL


\* OCSP stapling is on exactly when enable_ocsp or set_ocsp_data succeeded,
\* in whichever order they and trust_location are called.
THEOREM OcspAsRequested == Spec => []OcspMatchesRequest
BY BuilderSafety, PTL

=============================================================================
