------------------------------ MODULE Options ------------------------------
(***************************************************************************)
(* ServiceOptions and BackendOptions of src/core/options.go, reduced to    *)
(* the exported fields that decide what Validate does and what             *)
(* CompareStoreOptions tells apart:                                        *)
(*   host  - ServiceOptions.Host, "" when the store entry leaves it out    *)
(*   port  - ServiceOptions.Port (never 0 here: that only fails Validate   *)
(*           in both places alike)                                         *)
(*   proto - ServiceOptions.Protocol, standing for every field Validate    *)
(*           fills with a default (Protocol, LbMethod, Fallback,           *)
(*           FwdMethod, MaxWeight) and checks against a fixed set: ""     *)
(*           when left out, "sctp" for a value outside the set             *)
(* A backend's options are its port: BackendOptions.CompareStoreOptions    *)
(* looks at Host and Port only, and the host is fixed per backend id.      *)
(***************************************************************************)
EXTENDS Naturals

CONSTANTS
  Ports          \* ServiceOptions.Port / BackendOptions.Port values

SvcOpts == [host : {"", "h"}, port : Ports, proto : {"", "tcp", "sctp"}]

(* ServiceOptions.Validate(defaultHost): an empty Host with no default    *)
(* host returns ErrMissingEndpoint before any default is filled in;       *)
(* otherwise the defaults are filled in, and a value outside the known    *)
(* set returns ErrUnknownProtocol (or the flag and method errors it       *)
(* stands for). hasDefault is defaultHost != nil. Validate works in       *)
(* place, so the result carries the options as they are left, whether or *)
(* not it failed.                                                         *)
Validate(o, hasDefault) ==
  LET filled == [o EXCEPT !.proto = IF @ = "" THEN "tcp" ELSE @] IN
  IF o.host = "" /\ ~hasDefault
  THEN [err |-> TRUE, opt |-> o]
  ELSE [err |-> filled.proto = "sctp", opt |-> filled]

(* ServiceOptions.CompareStoreOptions: equal exported fields.             *)
CompareStoreOptions(a, b) ==
  /\ a.host = b.host
  /\ a.port = b.port
  /\ a.proto = b.proto

(* BackendOptions.CompareStoreOptions: equal Host and Port.               *)
CompareBackendOptions(a, b) == a = b
=============================================================================
