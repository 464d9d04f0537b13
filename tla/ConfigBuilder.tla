---------------------------- MODULE ConfigBuilder ----------------------------
(***************************************************************************)
(* The staging phase of a config: `Builder` in                             *)
(* bindings/rust/extended/s2n-tls/src/config.rs and the `Context` side     *)
(* record it fills in, up to `Builder::build`.                             *)
(*                                                                         *)
(* The C library is the environment: every s2n_config_* call may fail, and *)
(* where the bindings say they cannot see what C did on failure, both      *)
(* outcomes are possible.  Certificate chains are reference counted: a     *)
(* chain's memory lives while the application or the Context's            *)
(* application_owned_certs holds a reference; the C config only borrows.   *)
(* After build the application may still drop its own references, which   *)
(* is when a chain the C config still points to would dangle.              *)
(***************************************************************************)
EXTENDS Naturals, Sequences, FiniteSets, Functions

CONSTANTS
  Chains,          \* CertificateChain objects the application has made
  Categories,      \* callback kinds stored in a Context slot
  SessionTicketCb, \* the category of set_session_ticket_callback
  Handlers,        \* handler objects the application can register
  CHAINS_MAX_COUNT, \* set_default_chains' limit (S2N_CERT_TYPE_COUNT)
  MaxOwned,        \* bound on Len(application_owned_certs), for TLC
  OcspSupported    \* whether the linked libcrypto supports OCSP stapling

ASSUME ConstantsAssumption ==
  /\ CHAINS_MAX_COUNT \in Nat \ {0}
  /\ MaxOwned \in Nat
  /\ OcspSupported \in BOOLEAN
  /\ SessionTicketCb \in Categories

\* An empty Context slot.
None == "none"

VARIABLES
  phase,       \* "building", "built", or "dropped" (Builder dropped on error)
  appHeld,     \* chains the application still holds a reference to
  owned,       \* Context::application_owned_certs
  cStore,      \* chains the C config borrowed through add_to_store
  cDefaults,   \* chains the C config borrowed as its default chains
  enableOcsp,  \* Builder::enable_ocsp
  cStatus,     \* the C config's status_request_type
  handler,     \* the Context's callback slots
  cCallback,   \* categories whose trampoline is registered with C
  ticketsOn,   \* session tickets enabled on the C config
  loadSystemCerts \* Builder::load_system_certs

vars == <<phase, appHeld, owned, cStore, cDefaults, enableOcsp, cStatus,
          handler, cCallback, ticketsOn, loadSystemCerts>>

\* The chains whose memory is still live.
Alive == appHeld \cup Range(owned)

\* The argument sequences set_default_chains can be given in the model.
ChainSeqs == UNION {[1 .. n -> Chains] : n \in 0 .. CHAINS_MAX_COUNT + 1}

Init ==
  /\ phase = "building"
  /\ appHeld = Chains
  /\ owned = <<>>
  /\ cStore = {}
  /\ cDefaults = {}
  /\ enableOcsp = FALSE
  /\ cStatus = "NONE"
  /\ handler = [c \in Categories |-> None]
  /\ cCallback = {}
  /\ ticketsOn = FALSE
  /\ loadSystemCerts = TRUE

\* Passing a chain by value hands one reference over; the application may
\* have kept a clone of it.
HandOver(give, keep) == appHeld' = appHeld \ (give \ keep)

\* Mutant of LoadChain: the chain is kept only when the C call succeeds.
LoadChain_PushOnSuccess(c) ==
  /\ phase = "building"
  /\ c \in appHeld
  /\ Len(owned) < MaxOwned
  /\ \E keep \in SUBSET {c}, ok \in BOOLEAN, retained \in BOOLEAN :
        /\ ok => retained
        /\ HandOver({c}, keep)
        /\ cStore' = IF retained THEN cStore \cup {c} ELSE cStore
        /\ owned' = IF ok THEN Append(owned, c) ELSE owned
  /\ UNCHANGED <<phase, cDefaults, enableOcsp, cStatus, handler, cCallback,
                 ticketsOn, loadSystemCerts>>

\* Builder::load_chain: s2n_config_add_cert_chain_and_key_to_store, then
\* the chain is pushed onto application_owned_certs whatever the result.
\* When the call fails, C may or may not have kept the pointer.
LoadChain(c) ==
  /\ phase = "building"
  /\ c \in appHeld
  /\ Len(owned) < MaxOwned
  /\ \E keep \in SUBSET {c}, ok \in BOOLEAN, retained \in BOOLEAN :
        /\ ok => retained
        /\ HandOver({c}, keep)
        /\ cStore' = IF retained THEN cStore \cup {c} ELSE cStore
        /\ owned' = Append(owned, c)
  /\ UNCHANGED <<phase, cDefaults, enableOcsp, cStatus, handler, cCallback,
                 ticketsOn, loadSystemCerts>>

\* Builder::set_default_chains: more than CHAINS_MAX_COUNT chains is an
\* error before anything is stored (the chains taken so far are dropped);
\* otherwise they extend application_owned_certs and then
\* s2n_config_set_cert_chain_and_key_defaults replaces the defaults or fails.
SetDefaultChains(cs) ==
  /\ phase = "building"
  /\ Range(cs) \subseteq appHeld
  /\ \E keep \in SUBSET Range(cs) : HandOver(Range(cs), keep)
  /\ IF Len(cs) > CHAINS_MAX_COUNT
       THEN UNCHANGED <<owned, cDefaults>>
       ELSE /\ Len(owned) + Len(cs) <= MaxOwned
            /\ owned' = owned \o cs
            /\ \E ok \in BOOLEAN :
                 cDefaults' = IF ok THEN Range(cs) ELSE cDefaults
  /\ UNCHANGED <<phase, cStore, enableOcsp, cStatus, handler, cCallback,
                 ticketsOn, loadSystemCerts>>

\* Builder::enable_ocsp: s2n_config_set_status_request_type(OCSP), which
\* fails without OCSP support; the flag is set only after it succeeds.
EnableOcsp ==
  /\ phase = "building"
  /\ OcspSupported
  /\ cStatus' = "OCSP"
  /\ enableOcsp' = TRUE
  /\ UNCHANGED <<phase, appHeld, owned, cStore, cDefaults, handler,
                 cCallback, ticketsOn, loadSystemCerts>>

\* Builder::set_ocsp_data: s2n_config_set_extension_data, then enable_ocsp.
\* The stapled data itself is not tracked; a failure of the first call
\* changes nothing that is.
SetOcspData == EnableOcsp

\* Mutant of TrustLocation: the reset to NONE ignores enable_ocsp.
TrustLocation_AlwaysReset ==
  /\ phase = "building"
  /\ cStatus' = "NONE"
  /\ UNCHANGED <<phase, appHeld, owned, cStore, cDefaults, enableOcsp,
                 handler, cCallback, ticketsOn, loadSystemCerts>>

\* Builder::trust_location: s2n_config_set_verification_ca_location, which
\* on success also sets the status request type to OCSP when supported
\* (NONE otherwise); then, unless enable_ocsp was asked for, it is reset to
\* NONE.  A failure of either call returns early.
TrustLocation ==
  /\ phase = "building"
  /\ LET afterC == IF OcspSupported THEN "OCSP" ELSE "NONE"
     IN  cStatus' = IF enableOcsp THEN afterC ELSE "NONE"
  /\ UNCHANGED <<phase, appHeld, owned, cStore, cDefaults, enableOcsp,
                 handler, cCallback, ticketsOn, loadSystemCerts>>

\* Builder::with_system_certs.
WithSystemCerts(b) ==
  /\ phase = "building"
  /\ loadSystemCerts' = b
  /\ UNCHANGED <<phase, appHeld, owned, cStore, cDefaults, enableOcsp,
                 cStatus, handler, cCallback, ticketsOn>>

\* Builder::enable_session_tickets: s2n_config_set_session_tickets_onoff.
EnableSessionTickets(b) ==
  /\ phase = "building"
  /\ ticketsOn' = b
  /\ UNCHANGED <<phase, appHeld, owned, cStore, cDefaults, enableOcsp,
                 cStatus, handler, cCallback, loadSystemCerts>>

\* The set_*_callback family: the handler is boxed into its Context slot,
\* replacing the one before, then the C trampoline is registered, which may
\* fail.  set_session_ticket_callback first enables session tickets and
\* returns early if that fails; set_connection_initializer has no C call.
SetCallback(cat, h) ==
  /\ phase = "building"
  /\ ticketsOn' = IF cat = SessionTicketCb THEN TRUE ELSE ticketsOn
  /\ handler' = [handler EXCEPT ![cat] = h]
  /\ \E registered \in BOOLEAN :
       cCallback' = IF registered THEN cCallback \cup {cat} ELSE cCallback
  /\ UNCHANGED <<phase, appHeld, owned, cStore, cDefaults, enableOcsp,
                 cStatus, loadSystemCerts>>

\* Builder::build, successful: the Config is handed out.  On an error of
\* s2n_config_load_system_certs the Builder is dropped, and with it the
\* Context and the C config.
Build ==
  /\ phase = "building"
  /\ \/ /\ phase' = "built"
        /\ UNCHANGED <<owned, cStore, cDefaults>>
     \/ /\ loadSystemCerts
        /\ phase' = "dropped"
        /\ owned' = <<>>
        /\ cStore' = {}
        /\ cDefaults' = {}
  /\ UNCHANGED <<appHeld, enableOcsp, cStatus, handler, cCallback, ticketsOn,
                 loadSystemCerts>>

\* The application drops one of its chain references, at any time.
AppDropChain(c) ==
  /\ c \in appHeld
  /\ appHeld' = appHeld \ {c}
  /\ UNCHANGED <<phase, owned, cStore, cDefaults, enableOcsp, cStatus,
                 handler, cCallback, ticketsOn, loadSystemCerts>>

Next ==
  \/ \E c \in Chains : LoadChain(c) \/ AppDropChain(c)
  \/ \E cs \in ChainSeqs : SetDefaultChains(cs)
  \/ EnableOcsp \/ SetOcspData \/ TrustLocation \/ Build
  \/ \E b \in BOOLEAN : WithSystemCerts(b) \/ EnableSessionTickets(b)
  \/ \E cat \in Categories, h \in Handlers : SetCallback(cat, h)

Spec == Init /\ [][Next]_vars

-----------------------------------------------------------------------------
(* Properties                                                              *)

TypeOK ==
  /\ phase \in {"building", "built", "dropped"}
  /\ appHeld \subseteq Chains
  /\ owned \in Seq(Chains) /\ Len(owned) <= MaxOwned
  /\ cStore \subseteq Chains
  /\ cDefaults \subseteq Chains
  /\ enableOcsp \in BOOLEAN
  /\ cStatus \in {"NONE", "OCSP"}
  /\ handler \in [Categories -> Handlers \cup {None}]
  /\ cCallback \subseteq Categories
  /\ ticketsOn \in BOOLEAN
  /\ loadSystemCerts \in BOOLEAN

\* No dangling certificate chain: every chain the C config borrowed, through
\* load_chain or set_default_chains and whether or not that call reported
\* an error, is still live memory, however the application drops its own
\* references afterwards.
NoDanglingChain == \A c \in cStore \cup cDefaults : c \in Alive

\* The C config staples OCSP exactly when the application asked for it
\* (enable_ocsp or set_ocsp_data): trust_location, whose C call turns OCSP
\* on as a side effect, neither leaves it on unasked nor turns it off.
OcspMatchesRequest == (cStatus = "OCSP") <=> enableOcsp

=============================================================================
