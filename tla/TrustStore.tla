------------------------------ MODULE TrustStore ------------------------------
(***************************************************************************)
(* CertificateTrustStore (certificate_trust_store.cpp of the binary        *)
(* transport): what a peer loads from its PKI directories and when it      *)
(* accepts a certificate.                                                  *)
(*                                                                         *)
(* A certificate is a record: its id stands for the DER bytes and their    *)
(* thumbprint, issuer for the CA that signed it, valid for the validity    *)
(* period holding now, key for the RSA key size in bytes.  A directory is  *)
(* the set of its files, NoCertificate or NoCrl for one that does not      *)
(* parse; it is empty also when it does not exist or no path is given;     *)
(* keeps_rejected tells whether a rejected directory is configured.        *)
(* OpenSSL's chain building is external: one level, the CA itself in the   *)
(* store.                                                                  *)
(***************************************************************************)
EXTENDS Integers

Missing == [missing |-> TRUE]          \* nothing configured, nothing there
NoCertificate == [id |-> "", issuer |-> "", valid |-> FALSE, key |-> 0]
NoCrl == [issuer |-> "", revoked |-> {}]

(***************************************************************************)
(* Loading.  The store is built afresh for every channel, so it holds what *)
(* the directories held then.                                              *)
(***************************************************************************)
Parses(c) == c # NoCertificate

CertificateThumbprint(c) == c.id
CertificateTimeValid(c) == Parses(c) /\ c.valid

\* PEM or DER; the CRL of a file that is neither is missing.
LoadAnyCertificate(file) == {c \in {file} : Parses(c)}
LoadCrl(file) == {crl \in {file} : crl.issuer # ""}

LoadTrusted(files) ==
    {CertificateThumbprint(c) : c \in UNION {LoadAnyCertificate(f) : f \in files.trusted}}

\* Revocation is checked once a CRL was read; without a CA there is no store.
LoadIssuerStore(files) ==
    LET crls == UNION {LoadCrl(f) : f \in files.crls}
    IN  IF files.issuers = {} THEN Missing
        ELSE [authorities |-> files.issuers, crls |-> crls, crl_check |-> crls # {}]

CertificateTrustStore(files) ==
    [trusted_thumbprints |-> LoadTrusted(files), issuer_store |-> LoadIssuerStore(files)]

(***************************************************************************)
(* Validation.                                                             *)
(***************************************************************************)
\* X509_verify_cert over the issuer store: the CA is known and, when CRLs are
\* checked, has published one that does not list the certificate.
ChainVerifies(store, c) ==
    /\ store.issuer_store # Missing
    /\ c.issuer \in store.issuer_store.authorities
    /\ store.issuer_store.crl_check =>
         \E crl \in store.issuer_store.crls :
            crl.issuer = c.issuer /\ c.id \notin crl.revoked

Validate(store, c) ==
    /\ Parses(c)
    /\ CertificateTimeValid(c)
    /\ CertificateThumbprint(c) \in store.trusted_thumbprints \/ ChainVerifies(store, c)

\* What a refusal leaves in the rejected directory for the operator: the
\* certificate, when it parsed and a directory is configured.
WriteRejected(files, store, c) ==
    IF files.keeps_rejected /\ Parses(c) /\ ~Validate(store, c)
    THEN [files EXCEPT !.rejected = @ \cup {c}]
    ELSE files
=============================================================================
