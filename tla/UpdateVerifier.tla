--------------------------- MODULE UpdateVerifier ---------------------------
(***************************************************************************)
(* tools/update-verifier: the checks it makes of an approval, of installed *)
(* files and of a running service, in order.  The first that fails decides.*)
(* A check that tells about the surroundings blocks in either phase; one   *)
(* that tells about the candidate blames it after an installation and only *)
(* blocks before.  A check is named by what is looked at; several of them  *)
(* report the same code.                                                   *)
(***************************************************************************)
EXTENDS Integers, Sequences, FiniteSetsExt

Check(name, code, blocks) == [name |-> name, code |-> code, blocks |-> blocks]
Blocks(code) == Check(<<code>>, code, TRUE)
Blames(code) == Check(<<code>>, code, FALSE)

\* requestFailureResult: a request that is refused blocks, one that fails
\* blames with the code the caller gives.
Request(name, code) ==
  <<Check(<<name, "refused">>, "management_auth_failed", TRUE),
    Check(<<name, "fails">>, code, FALSE)>>

\* run: LoadApprovalFile with ParseApproval, LoadCredential, the base URL.
InputChecks ==
  LET codes == <<"approval_read_failed", "approval_untrusted", "approval_invalid",
                 "approval_schema_mismatch", "verifier_schema_mismatch",
                 "approval_abi_mismatch", "approval_rpc_mismatch",
                 "credential_directory_missing", "credential_read_failed",
                 "credential_invalid", "management_url_invalid">>
  IN [i \in DOMAIN codes |-> Blocks(codes[i])]

\* verify: files, core, plugin, then a self-test between two status requests.
ServiceChecks ==
  <<Blocks("artifact_read_failed"), Blames("architecture_mismatch"),
    Blames("cli_hash_mismatch"), Blames("plugin_hash_mismatch"),
    Blames("core_unavailable")>>
  \o Request("plugins", "management_unavailable")
  \o <<Blames("plugin_missing"), Blames("plugin_not_registered"),
       Blames("plugin_not_effective")>>
  \o Request("before", "runtime_unhealthy")
  \o Request("config", "management_unavailable")
  \o <<Check(<<"config_parse">>, "config_invalid", FALSE)>>
  \o Request("self_test", "self_test_failed")
  \o Request("after", "runtime_unhealthy")

\* EvaluateRuntime: the loop over the two statuses, with healthyTruth.
StatusChecks(s) ==
  <<Check(<<s, "version">>, "plugin_version_mismatch", FALSE),
    Check(<<s, "abi">>, "abi_mismatch", FALSE),
    Check(<<s, "rpc">>, "rpc_mismatch", FALSE),
    Check(<<s, "fixture">>, "fixture_mismatch", FALSE),
    Check(<<s, "truth">>, "runtime_unhealthy", FALSE),
    Check(<<s, "config">>, "config_invalid", FALSE)>>

RuntimeChecks ==
  <<Blames("plugin_version_mismatch"), Blocks("config_race"),
    Blocks("config_digest_mismatch")>>
  \o StatusChecks("before") \o StatusChecks("after")
  \o <<Blames("fixture_mismatch"), Check(<<"result">>, "self_test_failed", FALSE)>>

Checks == InputChecks \o ServiceChecks \o RuntimeChecks

Names  == {Checks[i].name : i \in DOMAIN Checks}

\* phaseFailure, blocked, compatible and the exit status of writeResult, when
\* the checks named in failing fail.
Verify(phase, failing) ==
  LET hits  == {i \in DOMAIN Checks : Checks[i].name \in failing}
      first == Checks[Min(hits)]
  IN  IF hits = {} THEN [rc |-> 0, code |-> "ok"]
      ELSE [rc   |-> IF phase = "preflight" \/ first.blocks THEN 2 ELSE 3,
            code |-> first.code]
=============================================================================
