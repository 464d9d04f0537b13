---------------------------- MODULE BuilderSettings ----------------------------
(***************************************************************************)
(* The Builder setters of config.rs that keep no state in the Context but  *)
(* change the C config in more than one call, or check their input before  *)
(* calling C: the ALPN preference list, session ticket keys, the trust     *)
(* store, PEM certificates and the ticket-key options.  As in              *)
(* ConfigBuilder, every s2n_config_* call may succeed or fail, and a       *)
(* failed call leaves the C config as it was.  Each action records the     *)
(* outcome the setter returned in `last`.                                  *)
(***************************************************************************)
EXTENDS Naturals, Sequences

CONSTANTS
  Protocols,     \* application protocol names
  LongProtocols, \* those of 2^32 bytes or more, whose length is no u32
  KeyNames,    \* session ticket key names
  KeyLens,     \* key lengths in bytes the application may pass
  TrustCerts,  \* PEM certificates
  Options,     \* the ticket-key settings (lifetimes, serialization, ...)
  Values,      \* values of those settings
  MaxAlpn,     \* bound on the length of a protocol list
  U32Limit     \* 2^32: the first length a usize -> u32 conversion refuses

ASSUME SettingsAssumption ==
  /\ LongProtocols \subseteq Protocols
  /\ KeyLens \subseteq Nat
  /\ MaxAlpn \in Nat
  /\ U32Limit \in Nat

\* The minimum ticket key length: "at least 128 bits in strength".
MinKeyLen == 16

\* Lengths a usize -> u32 conversion accepts.
FitsU32(n) == n < U32Limit

\* An option never set keeps the C library's default.
Default == "default"

VARIABLES
  alpn,      \* the C config's protocol preference list
  asked,     \* the list the application's ALPN calls ask for
  ticketsOn, \* session tickets on in the C config
  keys,      \* names of the ticket crypto keys the C config holds
  opts,      \* the ticket-key settings of the C config
  trust,     \* certificates in the C config's trust store
  certs,     \* certificates loaded with load_pem
  last       \* the setter called last and what it returned

cvars == <<alpn, ticketsOn, keys, opts, trust, certs>>
vars == <<cvars, asked, last>>

Ops == {"none", "alpn_set", "alpn_append", "tickets", "ticket_key",
        "ticket_option", "trust_pem", "wipe_trust", "load_pem"}
Results == {"none", "ok", "invalid", "cerr"}

BoundedSeq(S, n) == UNION {[1 .. k -> S] : k \in 0 .. n}

Init ==
  /\ alpn = <<>>
  /\ asked = <<>>
  /\ ticketsOn = FALSE
  /\ keys = {}
  /\ opts = [o \in Options |-> Default]
  /\ trust = {}
  /\ certs = {}
  /\ last = [op |-> "none", res |-> "none"]

\* A setter that returned `res` after call `op`.
Return(op, res) == last' = [op |-> op, res |-> res]

\* What append_application_protocol_preference returns for protocol p when
\* its C call would succeed iff cok: the usize -> u32 conversion of the
\* length refuses a protocol of 2^32 bytes or more before C is called.
AppendOutcome(p, cok) ==
  IF p \in LongProtocols THEN "invalid" ELSE IF cok THEN "ok" ELSE "cerr"

\* Mutant of SetApplicationProtocolPreference: the list is not reset first.
SetApplicationProtocolPreference_NoReset(ps) ==
  /\ asked' = ps
  /\ \/ /\ Return("alpn_set", "cerr")
        /\ UNCHANGED cvars
     \/ \E n \in 0 .. Len(ps) :
          /\ \A i \in 1 .. n : ps[i] \notin LongProtocols
          /\ alpn' = alpn \o SubSeq(ps, 1, n)
          /\ Return("alpn_set", IF n = Len(ps) THEN "ok"
                                ELSE AppendOutcome(ps[n + 1], FALSE))
          /\ UNCHANGED <<ticketsOn, keys, opts, trust, certs>>

\* set_application_protocol_preference: the list is reset, then every
\* protocol appended in turn.  The first append that fails, in C or on the
\* length conversion, returns its error and leaves the protocols before it
\* in the list.
SetApplicationProtocolPreference(ps) ==
  /\ asked' = ps
  /\ \/ /\ Return("alpn_set", "cerr")
        /\ UNCHANGED cvars
     \/ \E n \in 0 .. Len(ps) :
          /\ \A i \in 1 .. n : ps[i] \notin LongProtocols
          /\ alpn' = SubSeq(ps, 1, n)
          /\ Return("alpn_set", IF n = Len(ps) THEN "ok"
                                ELSE AppendOutcome(ps[n + 1], FALSE))
          /\ UNCHANGED <<ticketsOn, keys, opts, trust, certs>>

\* append_application_protocol_preference
AppendApplicationProtocolPreference(p) ==
  /\ Len(asked) < MaxAlpn /\ Len(alpn) < MaxAlpn
  /\ asked' = Append(asked, p)
  /\ \E cok \in BOOLEAN :
       /\ alpn' = IF AppendOutcome(p, cok) = "ok" THEN Append(alpn, p) ELSE alpn
       /\ Return("alpn_append", AppendOutcome(p, cok))
  /\ UNCHANGED <<ticketsOn, keys, opts, trust, certs>>

\* enable_session_tickets
EnableSessionTickets(b) ==
  /\ \/ /\ ticketsOn' = b
        /\ Return("tickets", "ok")
     \/ /\ Return("tickets", "cerr")
        /\ UNCHANGED ticketsOn
  /\ UNCHANGED <<alpn, asked, keys, opts, trust, certs>>

\* Mutant of AddSessionTicketKey: tickets are enabled before the input
\* checks.
AddSessionTicketKey_EnableFirst(k, len, beforeEpoch) ==
  /\ \/ /\ ticketsOn' = TRUE
        /\ \/ /\ beforeEpoch \/ ~FitsU32(len) \/ len < MinKeyLen
              /\ Return("ticket_key", "invalid")
              /\ UNCHANGED keys
           \/ /\ ~beforeEpoch /\ FitsU32(len) /\ len >= MinKeyLen
              /\ \E ok \in BOOLEAN :
                   /\ keys' = IF ok THEN keys \cup {k} ELSE keys
                   /\ Return("ticket_key", IF ok THEN "ok" ELSE "cerr")
     \/ /\ Return("ticket_key", "cerr")
        /\ UNCHANGED <<ticketsOn, keys>>
  /\ UNCHANGED <<alpn, asked, opts, trust, certs>>

\* add_session_ticket_key: a key whose length is no u32, an intro_time
\* before the epoch or a key shorter than 16 bytes is refused; otherwise tickets are enabled and then the key
\* is added, and a failure of the second call leaves tickets enabled.
AddSessionTicketKey(k, len, beforeEpoch) ==
  /\ \/ /\ beforeEpoch \/ ~FitsU32(len) \/ len < MinKeyLen
        /\ Return("ticket_key", "invalid")
        /\ UNCHANGED <<ticketsOn, keys>>
     \/ /\ ~beforeEpoch /\ FitsU32(len) /\ len >= MinKeyLen
        /\ \/ /\ Return("ticket_key", "cerr")
              /\ UNCHANGED <<ticketsOn, keys>>
           \/ /\ ticketsOn' = TRUE
              /\ \E ok \in BOOLEAN :
                   /\ keys' = IF ok THEN keys \cup {k} ELSE keys
                   /\ Return("ticket_key", IF ok THEN "ok" ELSE "cerr")
  /\ UNCHANGED <<alpn, asked, opts, trust, certs>>

\* set_ticket_key_encrypt_decrypt_lifetime, set_ticket_key_decrypt_lifetime,
\* set_serialization_version, set_max_blinding_delay and
\* require_ticket_forward_secrecy: one C call each.
SetTicketOption(o, v) ==
  /\ \/ /\ opts' = [opts EXCEPT ![o] = v]
        /\ Return("ticket_option", "ok")
     \/ /\ Return("ticket_option", "cerr")
        /\ UNCHANGED opts
  /\ UNCHANGED <<alpn, asked, ticketsOn, keys, trust, certs>>

\* trust_pem: a certificate with an interior NUL byte is refused by
\* CString::new before C is called.
TrustPem(c, nul) ==
  /\ \/ /\ nul
        /\ Return("trust_pem", "invalid")
        /\ UNCHANGED trust
     \/ /\ ~nul
        /\ \E ok \in BOOLEAN :
             /\ trust' = IF ok THEN trust \cup {c} ELSE trust
             /\ Return("trust_pem", IF ok THEN "ok" ELSE "cerr")
  /\ UNCHANGED <<alpn, asked, ticketsOn, keys, opts, certs>>

\* wipe_trust_store
WipeTrustStore ==
  /\ \E ok \in BOOLEAN :
       /\ trust' = IF ok THEN {} ELSE trust
       /\ Return("wipe_trust", IF ok THEN "ok" ELSE "cerr")
  /\ UNCHANGED <<alpn, asked, ticketsOn, keys, opts, certs>>

\* load_pem: the certificate and then the key are converted to C strings,
\* either refusal returning before C is called.
LoadPem(c, nulCert, nulKey) ==
  /\ \/ /\ nulCert \/ nulKey
        /\ Return("load_pem", "invalid")
        /\ UNCHANGED certs
     \/ /\ ~nulCert /\ ~nulKey
        /\ \E ok \in BOOLEAN :
             /\ certs' = IF ok THEN certs \cup {c} ELSE certs
             /\ Return("load_pem", IF ok THEN "ok" ELSE "cerr")
  /\ UNCHANGED <<alpn, asked, ticketsOn, keys, opts, trust>>

Next ==
  \/ \E ps \in BoundedSeq(Protocols, MaxAlpn) : SetApplicationProtocolPreference(ps)
  \/ \E p \in Protocols : AppendApplicationProtocolPreference(p)
  \/ \E b \in BOOLEAN : EnableSessionTickets(b)
  \/ \E k \in KeyNames, len \in KeyLens, be \in BOOLEAN : AddSessionTicketKey(k, len, be)
  \/ \E o \in Options, v \in Values : SetTicketOption(o, v)
  \/ \E c \in TrustCerts, nul \in BOOLEAN : TrustPem(c, nul)
  \/ WipeTrustStore
  \/ \E c \in TrustCerts, nc, nk \in BOOLEAN : LoadPem(c, nc, nk)

Spec == Init /\ [][Next]_vars

-----------------------------------------------------------------------------

TypeOK ==
  /\ alpn \in Seq(Protocols) /\ asked \in Seq(Protocols)
  /\ ticketsOn \in BOOLEAN
  /\ keys \subseteq KeyNames
  /\ opts \in [Options -> Values \cup {Default}]
  /\ trust \subseteq TrustCerts /\ certs \subseteq TrustCerts
  /\ last \in [op : Ops, res : Results]

\* A setter that makes one C call, or one call after enabling tickets, and
\* returns Error::INVALID_INPUT (a short ticket key, an intro_time before the
\* epoch, a PEM with a NUL byte, a protocol too long for a u32) has left the
\* C config exactly as it was: its input is checked before any C call.
\* set_application_protocol_preference is not such a setter: it resets the
\* list and appends before it meets a protocol too long, so its
\* INVALID_INPUT leaves a prefix of the request in the list.
RejectedInputChangesNothing ==
  [][last'.res = "invalid" /\ last'.op # "alpn_set" => UNCHANGED cvars]_vars

\* After set_application_protocol_preference returned Ok, the C config
\* offers exactly the protocols of that call, in that order, whatever
\* list it held before.
AlpnMatchesRequest ==
  last = [op |-> "alpn_set", res |-> "ok"] => alpn = asked

=============================================================================
