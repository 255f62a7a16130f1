------------------------------ MODULE Discovery ------------------------------
(***************************************************************************)
(* Endpoints: how a server words them for the client that asks             *)
(* (opcua/session/server_runtime.cpp), how a client picks one              *)
(* (opcua/client/endpoint_selection.cpp, client_security.cpp), and the     *)
(* check that the list it picked from was the server's.                    *)
(*                                                                         *)
(* A URL is a record of its parts; scheme "" is a string without "://".    *)
(* An EndpointDescription keeps what is compared or rewritten.             *)
(***************************************************************************)
EXTENDS Integers, Sequences, FiniteSets, SequencesExt, TrustStore

(***************************************************************************)
(* URLs.                                                                   *)
(***************************************************************************)
WildcardHosts == {"", "0.0.0.0", "[::]"}
IsWildcardHost(host) == host \in WildcardHosts
UrlScheme(url) == url.scheme
AuthorityHost(url) == IF url.scheme = "" THEN "" ELSE url.host
NoUrl == [scheme |-> "", host |-> "", port |-> 0]

\* An opc.tcp URL with a host and, when it has a port, a number for it.
ParseOpcTcpUrl(url) == url.scheme = "opc.tcp" /\ url.host # "" /\ url.port >= 0

WithHost(url, host) == IF url.scheme = "" THEN url ELSE [url EXCEPT !.host = host]

RebaseWildcardHost(url, requested_host) ==
    IF IsWildcardHost(requested_host) \/ ~IsWildcardHost(AuthorityHost(url)) THEN url
    ELSE WithHost(url, requested_host)

ReachableEndpointUrl(url, requested) ==
    IF IsWildcardHost(AuthorityHost(requested)) THEN url
    ELSE IF UrlScheme(url) = UrlScheme(requested) THEN requested
    ELSE RebaseWildcardHost(url, AuthorityHost(requested))

\* The elements of a list that a loop keeps, in their order.
RankIn(kept, j) == Cardinality({k \in kept : k <= j})
AtPositions(list, kept) ==
    [i \in 1..Cardinality(kept) |-> list[CHOOSE j \in kept : RankIn(kept, j) = i]]

\* The dialled URL moves to the front of the description's own transport.
ReachableDiscoveryUrls(urls, requested) ==
    LET host == AuthorityHost(requested)
        rebased == [i \in DOMAIN urls |-> RebaseWildcardHost(urls[i], host)]
    IN  IF \/ IsWildcardHost(host)
           \/ \A i \in DOMAIN rebased : UrlScheme(rebased[i]) # UrlScheme(requested)
        THEN rebased
        ELSE <<requested>> \o AtPositions(rebased, {i \in DOMAIN rebased : rebased[i] # requested})

(***************************************************************************)
(* What the server answers.                                                *)
(***************************************************************************)
\* Lists of URLs and of EndpointDescriptions; security_level is a UInt8.
IsUrlList(urls) ==
    /\ urls \in Seq({urls[i] : i \in DOMAIN urls})
    /\ \A i \in DOMAIN urls : DOMAIN urls[i] = {"scheme", "host", "port"}

EndpointMembers ==
    {"endpoint_url", "security_mode", "security_policy_uri", "security_level",
     "server_certificate", "transport_profile_uri", "user_identity_tokens",
     "application_uri", "product_uri", "discovery_urls"}

IsEndpointList(endpoints) ==
    /\ endpoints \in Seq({endpoints[i] : i \in DOMAIN endpoints})
    /\ \A i \in DOMAIN endpoints : /\ DOMAIN endpoints[i] = EndpointMembers
                                    /\ endpoints[i].security_level \in 0..255
                                    /\ IsUrlList(endpoints[i].discovery_urls)

MatchesStringFilter(value, filter) == filter = {} \/ value \in filter

Reworded(endpoints, requested) ==
    [i \in DOMAIN endpoints |->
       [endpoints[i] EXCEPT !.endpoint_url = ReachableEndpointUrl(@, requested),
                            !.discovery_urls = ReachableDiscoveryUrls(@, requested)]]

ReachableEndpoints(endpoints, requested, profiles) ==
    Reworded(AtPositions(endpoints,
                {i \in DOMAIN endpoints :
                   MatchesStringFilter(endpoints[i].transport_profile_uri, profiles)}),
             requested)

HandleGetEndpoints(endpoints, request) ==
    ReachableEndpoints(endpoints, request.endpoint_url, request.profile_uris)

OwnDescription(endpoint, requested) ==
    [application_uri |-> endpoint.application_uri, product_uri |-> endpoint.product_uri,
     discovery_urls |-> ReachableDiscoveryUrls(endpoint.discovery_urls, requested)]

\* Defect: a registrant's URLs are handed on as registered.
RegistrantDescriptionVerbatim(registration, requested) ==
    [application_uri |-> registration.server_uri, product_uri |-> registration.product_uri,
     discovery_urls |-> registration.discovery_urls]

\* A registrant's URLs name another server: only a wildcard host is rebased.
RegistrantDescription(registration, requested) ==
    [application_uri |-> registration.server_uri, product_uri |-> registration.product_uri,
     discovery_urls |-> [i \in DOMAIN registration.discovery_urls |->
        RebaseWildcardHost(registration.discovery_urls[i], AuthorityHost(requested))]]

\* Own descriptions first, so that they win over a registrant of the same URI.
HandleFindServers(endpoints, registered, request) ==
    LET own == [i \in DOMAIN endpoints |->
                  OwnDescription(endpoints[i], request.endpoint_url)]
        others == [i \in DOMAIN registered |->
                     RegistrantDescription(registered[i], request.endpoint_url)]
        Wanted(s) == \/ MatchesStringFilter(s.application_uri, request.server_uris)
                     \/ MatchesStringFilter(s.product_uri, request.server_uris)
        all == own \o others
        first == {i \in DOMAIN all :
                    /\ Wanted(all[i])
                    /\ \A j \in 1..(i - 1) :
                         Wanted(all[j]) => all[j].application_uri # all[i].application_uri}
    IN  AtPositions(all, first)

\* One result per discoveryConfiguration entry; an entry of an unknown type
\* decodes to nothing.
ConfigurationResults(configuration) ==
    [i \in DOMAIN configuration |->
       IF configuration[i] = Missing THEN "Bad_NotSupported" ELSE "Good"]

ServerCapabilities(configuration) ==
    UNION {configuration[i].server_capabilities :
             i \in {i \in DOMAIN configuration : configuration[i] # Missing}}

(***************************************************************************)
(* What the client picks.                                                  *)
(***************************************************************************)
SecurityRank(mode) ==
    CASE mode = "SignAndEncrypt" -> 3 [] mode = "Sign" -> 2 [] mode = "None" -> 1 [] OTHER -> 0

DefaultCapabilities == {<<"Basic256Sha256", "SignAndEncrypt">>, <<"None", "None">>}
NoneOnlyCapabilities == {<<"None", "None">>}

IsSupported(capabilities, e) == <<e.security_policy_uri, e.security_mode>> \in capabilities

MatchesPreference(preference, e) ==
    /\ preference.mode = "Auto" \/ preference.mode = e.security_mode
    /\ preference.policy = "" \/ preference.policy = e.security_policy_uri

IsBetter(candidate, incumbent) ==
    LET c == SecurityRank(candidate.security_mode)
        i == SecurityRank(incumbent.security_mode)
    IN  c > i \/ (c = i /\ candidate.security_level > incumbent.security_level)

\* The scan keeps the first endpoint that no later one betters.
SelectEndpoint(endpoints, preference, capabilities) ==
    LET usable == {i \in DOMAIN endpoints : /\ IsSupported(capabilities, endpoints[i])
                                            /\ MatchesPreference(preference, endpoints[i])}
        best == {i \in usable : \A j \in usable :
                    IF j < i THEN IsBetter(endpoints[i], endpoints[j])
                    ELSE ~IsBetter(endpoints[j], endpoints[i])}
    IN  IF best = {} THEN Missing ELSE endpoints[CHOOSE i \in best : TRUE]

\* A trusted or an issuer directory is configured.
HasTrustStore(settings) == settings.trust_store

\* A trust store raises what Auto accepts.
ToSecurityPreference(settings) ==
    [mode |-> IF settings.mode = "Auto" /\ HasTrustStore(settings) THEN "SignAndEncrypt"
              ELSE settings.mode,
     policy |-> settings.policy]

\* The paths are configured; whether the files can be read shows later.
CapabilitiesFor(settings) ==
    IF settings.credentials = Missing THEN NoneOnlyCapabilities ELSE DefaultCapabilities

Unsecured == [security_policy_uri |-> "None", security_mode |-> "None",
              client_certificate |-> NoCertificate, server_certificate |-> NoCertificate]

\* ReadFile and the PEM parsers: an unreadable pair loads as NoCertificate.
ReadCredentials(settings) == settings.credentials

\* Defect: the certificate only has to parse.
BuildChannelSecurityUnvetted(endpoint, settings, files) ==
    IF endpoint.security_mode = "None" THEN Unsecured
    ELSE IF ~Parses(ReadCredentials(settings)) \/ ~Parses(endpoint.server_certificate)
         THEN Missing
    ELSE [security_policy_uri |-> endpoint.security_policy_uri,
          security_mode |-> endpoint.security_mode,
          client_certificate |-> ReadCredentials(settings),
          server_certificate |-> endpoint.server_certificate]

\* The server is authenticated here, against what the directories hold now.
BuildChannelSecurity(endpoint, settings, files) ==
    IF endpoint.security_mode = "None" THEN Unsecured
    ELSE IF \/ ~Parses(ReadCredentials(settings))
            \/ /\ HasTrustStore(settings)
               /\ ~Validate(CertificateTrustStore(files), endpoint.server_certificate)
            \/ ~Parses(endpoint.server_certificate)
         THEN Missing
    ELSE [security_policy_uri |-> endpoint.security_policy_uri,
          security_mode |-> endpoint.security_mode,
          client_certificate |-> ReadCredentials(settings),
          server_certificate |-> endpoint.server_certificate]

(***************************************************************************)
(* The re-check against the serverEndpoints of CreateSession.              *)
(***************************************************************************)
\* Defect: the URL takes part in the comparison.
SecurityEquivalentToTheLetter(a, b) ==
    /\ a.endpoint_url = b.endpoint_url
    /\ a.security_mode = b.security_mode
    /\ a.security_policy_uri = b.security_policy_uri
    /\ a.server_certificate = b.server_certificate
    /\ a.transport_profile_uri = b.transport_profile_uri
    /\ a.user_identity_tokens = b.user_identity_tokens

SecurityEquivalent(a, b) ==
    /\ a.security_mode = b.security_mode
    /\ a.security_policy_uri = b.security_policy_uri
    /\ a.server_certificate = b.server_certificate
    /\ a.transport_profile_uri = b.transport_profile_uri
    /\ a.user_identity_tokens = b.user_identity_tokens

\* Defect: every endpoint that was discovered must still be there; new ones
\* are welcome.
EndpointSetsStillThere(discovered, authoritative) ==
    \/ authoritative = <<>>
    \/ discovered = <<>>
    \/ \A i \in DOMAIN discovered : \E j \in DOMAIN authoritative :
          SecurityEquivalent(authoritative[j], discovered[i])

\* SecurityEquivalent is an equivalence, so pairing each entry with the first
\* unmatched equivalent one succeeds when every class is equally large.
EndpointSetsSecurityEquivalent(discovered, authoritative) ==
    \/ authoritative = <<>>
    \/ discovered = <<>>
    \/ /\ Len(discovered) = Len(authoritative)
       /\ \A i \in DOMAIN discovered :
            Cardinality({j \in DOMAIN discovered :
                           SecurityEquivalent(discovered[j], discovered[i])})
              = Cardinality({j \in DOMAIN authoritative :
                               SecurityEquivalent(authoritative[j], discovered[i])})
=============================================================================
