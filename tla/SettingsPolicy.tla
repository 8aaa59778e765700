----------------------------- MODULE SettingsPolicy -----------------------------
(***************************************************************************)
(* What the settings mean to the running program: which clients an access   *)
(* control block admits (configuration/access_control.go), how much of a     *)
(* body a list of capture rules keeps (configuration/config.go) and which    *)
(* hosts a no_proxy list sends past the upstream proxy                      *)
(* (proxy/middlewares/no_proxy_router.go).                                  *)
(*                                                                         *)
(* Texts are members of small sets, and the tables below say how they are    *)
(* parsed: an entry of a network list covers a set of hosts, a MIME name     *)
(* has a type and a subtype, a no_proxy rule is one of four kinds.           *)
(***************************************************************************)
EXTENDS Naturals, Sequences, SequencesExt, FiniteSets

(***************************************************************************)
(* Clients.  A host has an IPv4 address, which a socket may also report in    *)
(* its IPv4-in-IPv6 form, and an IPv6 address of its own: the guest's is a    *)
(* unique local one, which is private, the neighbour's is link-local.         *)
(***************************************************************************)
Hosts == {"localhost", "guest", "neighbour", "stranger"}
AddressForms == {"plain", "in6", "v6"}
Addresses == Hosts \X AddressForms
LoopbackHosts == {"localhost"}
PrivateAddresses == ({"guest", "neighbour"} \X {"plain"}) \cup {<<"guest", "v6">>}
InterfaceAddresses == {"guest", "stranger"} \X {"plain", "v6"}   \* on a network of a local adapter

Modes == {"loopback", "lan", "interfaces", "allowlist", "open"}

(* Entries as typed.  Only an entry with a prefix length is a CIDR network.  *)
Entries == {"one", "one/32", "all/0", "six", "six/128", "mapped", "mapped/128", "junk"}

(* Prefix.Contains compares addresses of one length only, and a client is      *)
(* judged by its unmapped address: a network in the IPv4-in-IPv6 form, which    *)
(* ValidateAccessControl accepts, holds nobody.                               *)
EntryAddresses == [e \in Entries |->
  CASE e = "one/32"  -> {<<"neighbour", "plain">>}
    [] e = "six/128" -> {<<"neighbour", "v6">>}
    [] e = "all/0"   -> Hosts \X {"plain"}
    [] OTHER         -> {}]
IsPrefixEntry(e) == e \in {"one/32", "all/0", "six/128", "mapped/128"}

(* cleanNetworks: an address becomes the network that holds only itself.     *)
CleanEntry(e) ==
  CASE e = "one"    -> "one/32"
    [] e = "six"    -> "six/128"
    [] e = "mapped" -> "mapped/128"
    [] OTHER        -> e
CleanNetworks(networks) == [i \in DOMAIN networks |-> CleanEntry(networks[i])]

(* Mutant: without the legacy flag an absent mode stays absent.              *)
NormalizeLegacyOnly(access, remote) ==
  [mode |-> IF access.mode = "" /\ remote THEN "open" ELSE access.mode,
   networks |-> CleanNetworks(access.networks)]

(* NormalizeAccessControl: an absent mode follows the legacy flag.           *)
NormalizeAccessControl(access, remote) ==
  [mode |-> IF access.mode # "" THEN access.mode
            ELSE IF remote THEN "open" ELSE "loopback",
   networks |-> CleanNetworks(access.networks)]

(* ValidateAccessControl: the settings to keep, or a refusal.                *)
ValidateAccessControl(access) ==
  LET networks == CleanNetworks(access.networks) IN
  [ok |-> /\ access.mode \in Modes
          /\ access.mode = "allowlist" => networks # <<>>
          /\ \A i \in DOMAIN networks : IsPrefixEntry(networks[i]),
   access |-> [access EXCEPT !.networks = networks]]

(* NewAccessPolicy keeps the entries that parse and drops the others.        *)
PolicyPrefixes(access) ==
  {e \in Range(NormalizeAccessControl(access, FALSE).networks) : IsPrefixEntry(e)}

(* Unmap: an IPv4-in-IPv6 address is judged as its IPv4 address.             *)
Unmap(address) == IF address[2] = "in6" THEN <<address[1], "plain">> ELSE address

(* AllowsIP.  A mode nobody knows admits nobody.                             *)
AllowsIP(access, address) ==
  LET mode == NormalizeAccessControl(access, FALSE).mode
      ip   == Unmap(address)
  IN \/ mode = "open"
     \/ mode \in {"loopback", "lan", "interfaces", "allowlist"} /\ ip[1] \in LoopbackHosts
     \/ mode = "lan" /\ ip \in PrivateAddresses
     \/ mode = "interfaces" /\ ip \in InterfaceAddresses
     \/ mode = "allowlist" /\ \E e \in PolicyPrefixes(access) : ip \in EntryAddresses[e]

(* Mutant: the interfaces mode was forgotten.                                *)
ListenHostWithoutInterfaces(access) ==
  IF NormalizeAccessControl(access, FALSE).mode \in {"lan", "allowlist", "open"}
  THEN "0.0.0.0" ELSE "127.0.0.1"

(* The address a listener with this access control is opened on.             *)
ListenHost(access) ==
  IF NormalizeAccessControl(access, FALSE).mode \in {"lan", "interfaces", "allowlist", "open"}
  THEN "0.0.0.0" ELSE "127.0.0.1"

(* Where a client must be to reach a listener.  net.Listen("tcp", ...) of an    *)
(* unspecified address, also that of IPv4, takes every address of the machine   *)
(* in both families; 127.0.0.1 is reached from this machine over IPv4.          *)
Reaches(address, host) ==
  host = "127.0.0.1" => address[1] \in LoopbackHosts /\ address[2] # "v6"

-----------------------------------------------------------------------------
(* Capture limits. *)

MimeNames == {"text/html", "text/*", "*/*"}
MediaType == [n \in MimeNames |-> CASE n = "*/*" -> "*" [] OTHER -> "text"]
ContentTypes == {"text/html", "text/css", "image/png"}
MajorType == [c \in ContentTypes |-> IF c = "image/png" THEN "image" ELSE "text"]

DefaultCaptureSize == "500K"

ContentTypeMatches(rule, contentType) ==
  \/ rule = contentType
  \/ rule = "*/*"
  \/ rule = "text/*" /\ MediaType[rule] = MajorType[contentType]

(* DefaultLimitBytes; "" is an absent value, which is not the value zero.    *)
DefaultLimit(default) == IF default = "" THEN DefaultCaptureSize ELSE default

(* LimitForContentType: the first rule that matches decides.                 *)
LimitForContentType(rules, default, contentType) ==
  LET matching == SelectSeq(rules, LAMBDA r : ContentTypeMatches(r.name, contentType))
  IN IF matching = <<>> \/ Head(matching).size = ""
     THEN DefaultLimit(default) ELSE Head(matching).size

-----------------------------------------------------------------------------
(* Hosts that bypass the upstream proxy. *)

Rules == {"*", ".corp", "corp", "10/8"}
Targets == {"corp", "api.corp", "mycorp", "10.1", "site"}
SubdomainsOfCorp == {"api.corp"}
AddressesOf10 == {"10.1"}

(* One rule of the list: everything, a network, a suffix, or a name.         *)
RuleMatches(rule, target) ==
  \/ rule = "*"
  \/ rule = "10/8" /\ target \in AddressesOf10
  \/ rule \in {".corp", "corp"} /\ target \in {"corp"} \cup SubdomainsOfCorp

MatchesNoProxy(target, rules) == \E i \in DOMAIN rules : RuleMatches(rules[i], target)
=============================================================================
