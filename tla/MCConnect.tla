------------------------------ MODULE MCConnect ------------------------------
(***************************************************************************)
(* Instances of Connect: certificates, server configurations and what the  *)
(* client is told to do.                                                   *)
(***************************************************************************)
EXTENDS Connect

Certificate(id, issuer, key) == [id |-> id, issuer |-> issuer, valid |-> TRUE, key |-> key]

ServerA == Certificate("server_a", "ca", 256)
ServerB == Certificate("server_b", "self", 256)
ServerLarge == Certificate("server_large", "ca", 512)
ClientCert == Certificate("client", "self", 256)
StrangerCert == Certificate("stranger", "self", 256)
LargeCert == Certificate("client_large", "self", 512)

Url(host) == [scheme |-> "opc.tcp", host |-> host, port |-> 4840]
HttpsUrl(host) == [scheme |-> "https", host |-> host, port |-> 443]

Endpoint(mode, level, certificate) ==
    [endpoint_url |-> Url("0.0.0.0"), security_mode |-> mode,
     security_policy_uri |-> IF mode = "None" THEN "None" ELSE "Basic256Sha256",
     security_level |-> level, server_certificate |-> certificate,
     transport_profile_uri |-> "uatcp", user_identity_tokens |-> {"anonymous", "username"},
     application_uri |-> "urn:server", product_uri |-> "product",
     discovery_urls |-> <<HttpsUrl(""), Url("0.0.0.0")>>]

Server(endpoints, certificate, allow_none, namespaces) ==
    [endpoints |-> endpoints, certificate |-> certificate, allow_none |-> allow_none,
     private_key |-> TRUE, accepts |-> {"client", "client_large"},
     namespaces |-> [unreadable |-> FALSE, array |-> namespaces],
     secure_register |-> FALSE]

\* Unsecured only; both, the secured endpoint second; the same under another
\* certificate; a peer that refuses None; keys of 4096 bits; an endpoint that
\* names a certificate the server does not own.
Plain == [Server(<<Endpoint("None", 0, ServerA)>>, ServerA, TRUE, <<"urn:plain">>)
            EXCEPT !.private_key = FALSE]
Both == Server(<<Endpoint("None", 0, ServerA), Endpoint("SignAndEncrypt", 1, ServerA)>>,
               ServerA, TRUE, <<"urn:both">>)
Renewed == [Server(<<Endpoint("None", 0, ServerB), Endpoint("SignAndEncrypt", 1, ServerB)>>,
                   ServerB, TRUE, <<"urn:renewed">>) EXCEPT !.namespaces.unreadable = TRUE,
                   !.secure_register = TRUE]
Strict == Server(<<Endpoint("SignAndEncrypt", 1, ServerA)>>, ServerA, FALSE, <<"urn:strict">>)
Large == Server(<<Endpoint("SignAndEncrypt", 1, ServerLarge)>>, ServerLarge, TRUE, <<>>)
Mixed == Server(<<Endpoint("None", 0, NoCertificate), Endpoint("SignAndEncrypt", 1, ServerB),
                  Endpoint("SignAndEncrypt", 2, ServerA)>>, ServerB, TRUE, <<"urn:mixed">>)

Settings(mode, policy, credentials, trust_store) ==
    [mode |-> mode, policy |-> policy, credentials |-> credentials,
     trust_store |-> trust_store]

Told(settings, user) ==
    [host |-> "", connection_string |-> Url("plant"), settings |-> settings, user |-> user,
     server_uris |-> {}, server_uri |-> "urn:gateway",
     discovery_urls |-> <<Url("0.0.0.0")>>, server_capabilities |-> {"DA"}]

Unsafe == Told(Settings("None", "", Missing, FALSE), "operator")
Opportunist == Told(Settings("Auto", "", ClientCert, FALSE), "")
Cautious == Told(Settings("Auto", "", ClientCert, TRUE), "operator")
Optimist == Told(Settings("Auto", "Basic256Sha256", ClientCert, FALSE), "")
Secured == Told(Settings("SignAndEncrypt", "", ClientCert, FALSE), "")
Heavy == Told(Settings("SignAndEncrypt", "", LargeCert, TRUE), "")
Unknown == Told(Settings("SignAndEncrypt", "", StrangerCert, TRUE), "")
Unreadable == Told(Settings("SignAndEncrypt", "", NoCertificate, FALSE), "")
Stranger == Told(Settings("Auto", "", Missing, FALSE), "stranger")
Misdialled == [Unsafe EXCEPT !.connection_string = HttpsUrl("plant")]
ByHost == [Unsafe EXCEPT !.connection_string = NoUrl, !.host = "plant",
                         !.server_uris = {"urn:gateway"}]

Directories(trusted, issuers, crls) ==
    [trusted |-> trusted, issuers |-> issuers, crls |-> crls,
     keeps_rejected |-> TRUE, rejected |-> {}]

\* A CA without a revocation list (and files that do not parse), one that has
\* revoked server_a, pinning only.
MCFiles == {Directories({NoCertificate}, {"ca"}, {NoCrl}),
            Directories({}, {"ca"}, {[issuer |-> "ca", revoked |-> {"server_a"}]}),
            [Directories({ServerA}, {}, {}) EXCEPT !.keeps_rejected = FALSE]}

MCServers == {Plain, Both, Renewed, Strict, Large, Mixed}
MCParameters == {Unsafe, Opportunist, Cautious, Optimist, Secured, Heavy, Unknown,
                 Unreadable, Stranger, Misdialled, ByHost}
=============================================================================
