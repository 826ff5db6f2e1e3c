---------------------------- MODULE ServerConfig ----------------------------
(***************************************************************************)
(* The configuration of the API server (internal/apiserver/common/         *)
(* config.go) and what its start-up makes of it.  Pure operators.          *)
(*                                                                         *)
(* A configuration is what the flags, the YAML file and the file system    *)
(* give: file says whether the flags parse and the file can be read and    *)
(* parsed, port whether the port is given, cert and key whether each TLS   *)
(* file is unset, set but not there, or there, and pair whether the two    *)
(* are a usable key pair.                                                  *)
(***************************************************************************)
EXTENDS Integers

ServerConfigs ==
  [file : {"ok", "badFlags", "unreadable", "malformed"}, port : BOOLEAN,
   cert : {"unset", "missing", "there"}, key : {"unset", "missing", "there"},
   pair : BOOLEAN, batchTTLSeconds : Int]

\* loadFromFile, after the flags have named the file.
LoadFromFile(cfg) == cfg.file = "ok"

SSLEnabled(cfg) == cfg.cert # "unset" /\ cfg.key # "unset"

\* ServerConfig.Validate.  The TTL is not looked at: an absent one is zero.
ValidConfig(cfg) ==
  /\ cfg.port
  /\ cfg.cert = "unset" <=> cfg.key = "unset"
  /\ cfg.cert # "unset" => cfg.cert = "there" /\ cfg.key = "there"

\* Load: flags, file, validation.
LoadSucceeds(cfg) == LoadFromFile(cfg) /\ ValidConfig(cfg)

(* What Start does about TLS: serve with it, serve without it, or return   *)
(* an error for an unusable key pair or for one file without the other.    *)
TLSMode(cfg) ==
  IF SSLEnabled(cfg)
    THEN IF cfg.pair THEN "tls" ELSE "error"
    ELSE IF cfg.cert # "unset" \/ cfg.key # "unset" THEN "error" ELSE "plain"
=============================================================================
