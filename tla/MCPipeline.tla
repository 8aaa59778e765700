------------------------------- MODULE MCPipeline -------------------------------
(* A small instance of Pipeline: its requests, setups and offers.              *)
EXTENDS Pipeline

MCRequests ==
  { [method |-> "GET", chunked |-> FALSE, length |-> "none"],
    [method |-> "HEAD", chunked |-> FALSE, length |-> "none"],
    [method |-> "POST", chunked |-> FALSE, length |-> "zero"],
    [method |-> "POST", chunked |-> FALSE, length |-> "some"] }

(* A tunnel, a forwarder, both behind no_proxy, and the authenticating          *)
(* forwarder with and without an authenticated browser and 401 compatibility.  *)
Built(required, output, added, compatible, listed) ==
  [requireAuth |-> required, outputProxy |-> output, addAuth |-> added,
   treat401 |-> compatible, noProxy |-> listed]

MCSetups ==
  { Built(TRUE, FALSE, FALSE, FALSE, FALSE), Built(FALSE, TRUE, FALSE, FALSE, FALSE),
    Built(FALSE, TRUE, TRUE, FALSE, TRUE), Built(TRUE, TRUE, TRUE, FALSE, FALSE),
    Built(FALSE, TRUE, TRUE, TRUE, FALSE) }

Offer(package, given) == [package |-> package, token |-> given]

MCOffers ==
  { <<Offer("NTLM", "none")>>, <<Offer("NTLM", "server")>>, <<Offer("NTLM", "bad")>>,
    <<Offer("Negotiate", "none"), Offer("NTLM", "none")>>,
    <<Offer("Negotiate", "server"), Offer("other", "none")>>,
    <<Offer("Kerberos", "none")>>, <<Offer("other", "none")>> }
=============================================================================
