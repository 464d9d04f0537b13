--------------------------- MODULE ConfigRefcount ---------------------------
(***************************************************************************)
(* The shared-ownership life cycle of one s2n_config as the Rust bindings  *)
(* manage it (bindings/rust/extended/s2n-tls/src/config.rs).               *)
(*                                                                         *)
(* A handle is one `Config` value: the one owned by a `Builder`, or one    *)
(* returned by `Builder::build` or `Config::clone`.  All handles of the    *)
(* config share the `Context` side record stored in the config's ctx slot, *)
(* whose `refcount: AtomicUsize` counts them.  `Drop for Config` is split  *)
(* at the only point another thread can interleave: after the atomic       *)
(* fetch_sub and before the branch on the value it returned.  Atomic       *)
(* read-modify-writes are linearizable steps; the memory-ordering fence is *)
(* not modelled here.                                                      *)
(***************************************************************************)
EXTENDS Naturals, FiniteSets

CONSTANTS
  Handles,        \* the Config values that can exist at one time
  UsizeModulus    \* 2^(bits of usize): AtomicUsize arithmetic wraps modulo it

\* The bindings never hold more Config values than fit in a usize.
ASSUME HandlesAssumption == IsFiniteSet(Handles) /\ Handles # {}
ASSUME UsizeAssumption == UsizeModulus \in Nat /\ Cardinality(Handles) < UsizeModulus

VARIABLES
  hstate,    \* hstate[h]: where the Config value h is in its life
  obs,       \* obs[h]: the count h's fetch_sub returned (Drop for Config, line 143)
  refcount,  \* Context::refcount
  ctx,       \* the boxed Context: "unallocated", "alive" or "freed"
  cfg,       \* the C s2n_config: "unallocated", "alive" or "freed"
  frees      \* how many times s2n_config_free has been called on it

vars == <<hstate, obs, refcount, ctx, cfg, frees>>

HandleStates == {"none", "builder", "live", "releasing", "dropped"}
Memory == {"unallocated", "alive", "freed"}

\* The handles that own a reference: the Builder's Config and every live Config.
Holders == {h \in Handles : hstate[h] \in {"builder", "live"}}

\* Handles inside Drop whose fetch_sub observed the last reference.
LastReleasers == {h \in Handles : hstate[h] = "releasing" /\ obs[h] = 1}

Init ==
  /\ hstate = [h \in Handles |-> "none"]
  /\ obs = [h \in Handles |-> 0]
  /\ refcount = 0
  /\ ctx = "unallocated"
  /\ cfg = "unallocated"
  /\ frees = 0

\* Builder::new: s2n_config_new_minimal, a default Context (refcount 1)
\* boxed and stored in the config's ctx slot; the Builder owns Config(b).
New(b) ==
  /\ cfg = "unallocated"
  /\ hstate[b] = "none"
  /\ hstate' = [hstate EXCEPT ![b] = "builder"]
  /\ refcount' = 1
  /\ ctx' = "alive"
  /\ cfg' = "alive"
  /\ UNCHANGED <<obs, frees>>

\* The first half of Drop for Config: context() reads the ctx slot, then
\* refcount.fetch_sub(1, Release) returns the previous count.
DropStart(h) ==
  /\ hstate[h] \in {"builder", "live"}
  /\ hstate' = [hstate EXCEPT ![h] = "releasing"]
  /\ obs' = [obs EXCEPT ![h] = refcount]
  /\ refcount' = (refcount + UsizeModulus - 1) % UsizeModulus
  /\ UNCHANGED <<ctx, cfg, frees>>

\* Builder::build: load the system trust store if asked to, and return the
\* Config.  When s2n_config_load_system_certs fails, `?` returns the error
\* and drops self, so the Builder's Config starts its Drop.
Build(b) ==
  /\ hstate[b] = "builder"
  /\ \/ /\ hstate' = [hstate EXCEPT ![b] = "live"]
        /\ UNCHANGED <<obs, refcount, ctx, cfg, frees>>
     \/ DropStart(b)

\* Mutant of Clone: the copy is made without the fetch_add (as a
\* Config::from_raw that is not followed by a clone would do).
Clone_NoIncrement(h, g) ==
  /\ hstate[h] = "live"
  /\ hstate[g] \in {"none", "dropped"}
  /\ hstate' = [hstate EXCEPT ![g] = "live"]
  /\ UNCHANGED <<obs, refcount, ctx, cfg, frees>>

\* Config::clone: context() reads the ctx slot, refcount.fetch_add(1,
\* Relaxed), and the copy Self(self.0) becomes a new live Config g (a
\* value not in use: never made, or already dropped).
Clone(h, g) ==
  /\ hstate[h] = "live"
  /\ hstate[g] \in {"none", "dropped"}
  /\ hstate' = [hstate EXCEPT ![g] = "live"]
  /\ refcount' = (refcount + 1) % UsizeModulus
  /\ UNCHANGED <<obs, ctx, cfg, frees>>

\* Mutant of DropReturn: the early return tests the count against 0, as
\* if fetch_sub returned the new value.
DropReturn_CheckZero(h) ==
  /\ hstate[h] = "releasing"
  /\ obs[h] # 0
  /\ hstate' = [hstate EXCEPT ![h] = "dropped"]
  /\ UNCHANGED <<obs, refcount, ctx, cfg, frees>>

\* The rest of Drop when the fetch_sub did not return 1: return at once.
DropReturn(h) ==
  /\ hstate[h] = "releasing"
  /\ obs[h] # 1
  /\ hstate' = [hstate EXCEPT ![h] = "dropped"]
  /\ UNCHANGED <<obs, refcount, ctx, cfg, frees>>

\* Mutant of DropFree: the `count != 1` early return is missing.
DropFree_NoGuard(h) ==
  /\ hstate[h] = "releasing"
  /\ hstate' = [hstate EXCEPT ![h] = "dropped"]
  /\ ctx' = "freed"
  /\ cfg' = "freed"
  /\ frees' = frees + 1
  /\ UNCHANGED <<obs, refcount>>

\* The rest of Drop when the fetch_sub returned 1: the Acquire fence,
\* Box::from_raw(context_mut()) dropped, then s2n_config_free.
DropFree(h) ==
  /\ hstate[h] = "releasing"
  /\ obs[h] = 1
  /\ hstate' = [hstate EXCEPT ![h] = "dropped"]
  /\ ctx' = "freed"
  /\ cfg' = "freed"
  /\ frees' = frees + 1
  /\ UNCHANGED <<obs, refcount>>

\* Every Config value of the config is gone: the program is done with it.
Terminated ==
  /\ cfg # "unallocated"
  /\ \A h \in Handles : hstate[h] \in {"none", "dropped"}
  /\ UNCHANGED vars

Next ==
  \/ \E b \in Handles : New(b) \/ Build(b)
  \/ \E h, g \in Handles : Clone(h, g)
  \/ \E h \in Handles : DropStart(h) \/ DropReturn(h) \/ DropFree(h)
  \/ Terminated

\* Once Drop has done its fetch_sub, the rest of Drop is straight-line code
\* of the dropping thread: it cannot be postponed for ever.
Fairness == \A h \in Handles : WF_vars(DropReturn(h)) /\ WF_vars(DropFree(h))

Spec == Init /\ [][Next]_vars /\ Fairness

-----------------------------------------------------------------------------
(* Properties                                                              *)

TypeOK ==
  /\ hstate \in [Handles -> HandleStates]
  /\ obs \in [Handles -> Nat]
  /\ refcount \in 0 .. UsizeModulus - 1
  /\ ctx \in Memory
  /\ cfg \in Memory
  /\ frees \in Nat

\* No use after free: every Config value that can still call context()
\* (the Builder's, a live one, or one in Drop about to free) finds both the
\* Context box and the s2n_config allocated, whatever the interleaving of
\* clones and drops on other threads.
NoUseAfterFree ==
  \A h \in Holders \cup LastReleasers : ctx = "alive" /\ cfg = "alive"

\* s2n_config_free (and the Context box drop) happens at most once.
FreedAtMostOnce == frees <= 1

\* No leak: once every Config value has entered Drop, the config is freed.
NoLeak ==
  (cfg = "alive" /\ Holders = {}) ~> (cfg = "freed")

=============================================================================
