---------------------------- MODULE RetryPolicy ----------------------------
(***************************************************************************)
(* The retry policies: what to do with a server's error, given what the    *)
(* error says and how often the request was retried.  A policy is its      *)
(* type; LOGGING decides as its child does and only writes about it, so it *)
(* is its child here.                                                      *)
(***************************************************************************)
EXTENDS Integers

RetryPolicies == {"DEFAULT", "DOWNGRADING", "FALLTHROUGH"}

WriteTypes == {"SIMPLE", "BATCH", "UNLOGGED_BATCH", "COUNTER", "BATCH_LOG", "CAS"}

Unknown == "UNKNOWN"

RetryDecision(type, cl, same_host) == [type |-> type, cl |-> cl, retry_current_host |-> same_host]
return_error == RetryDecision("RETURN_ERROR", Unknown, FALSE)
retry(cl) == RetryDecision("RETRY", cl, TRUE)
retry_next_host(cl) == RetryDecision("RETRY", cl, FALSE)
ignore == RetryDecision("IGNORE", Unknown, FALSE)

max_likely_to_work(received) ==
  CASE received >= 3 -> retry("THREE")
    [] received = 2 -> retry("TWO")
    [] received = 1 -> retry("ONE")
    [] OTHER -> return_error

DefaultReadTimeout(cl, received, required, data) ==
  IF received >= required /\ ~data THEN retry(cl) ELSE return_error

DowngradingReadTimeout(cl, received, required, data) ==
  CASE cl \in {"SERIAL", "LOCAL_SERIAL"} -> return_error
    [] cl \notin {"SERIAL", "LOCAL_SERIAL"} /\ received < required -> max_likely_to_work(received)
    [] OTHER -> IF data THEN return_error ELSE retry(cl)

on_read_timeout(policy, cl, received, required, data, num_retries) ==
  CASE policy = "FALLTHROUGH" \/ num_retries # 0 -> return_error
    [] policy = "DEFAULT" /\ num_retries = 0 -> DefaultReadTimeout(cl, received, required, data)
    [] policy = "DOWNGRADING" /\ num_retries = 0 ->
         DowngradingReadTimeout(cl, received, required, data)

DowngradingWriteTimeout(cl, received, write_type) ==
  CASE write_type \in {"SIMPLE", "BATCH"} -> IF received > 0 THEN ignore ELSE return_error
    [] write_type = "UNLOGGED_BATCH" -> max_likely_to_work(received)
    [] write_type = "BATCH_LOG" -> retry(cl)
    [] OTHER -> return_error

on_write_timeout(policy, cl, received, write_type, num_retries) ==
  CASE policy = "FALLTHROUGH" \/ num_retries # 0 -> return_error
    [] policy = "DEFAULT" /\ num_retries = 0 ->
         IF write_type = "BATCH_LOG" THEN retry(cl) ELSE return_error
    [] policy = "DOWNGRADING" /\ num_retries = 0 -> DowngradingWriteTimeout(cl, received, write_type)

on_unavailable(policy, cl, alive, num_retries) ==
  CASE policy = "FALLTHROUGH" \/ num_retries # 0 -> return_error
    [] policy = "DEFAULT" /\ num_retries = 0 -> retry_next_host(cl)
    [] policy = "DOWNGRADING" /\ num_retries = 0 -> max_likely_to_work(alive)
=============================================================================
