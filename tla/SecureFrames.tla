----------------------------- MODULE SecureFrames -----------------------------
(***************************************************************************)
(* The bytes of a secured UA-TCP connection: the frame headers and the     *)
(* Hello / Acknowledge negotiation (opcua/transport/binary/protocol.cpp),  *)
(* the OpenSecureChannel bodies (secure_channel.cpp), and the padded,      *)
(* signed and encrypted chunks that both peers build and take apart        *)
(* (client_secure_channel.cpp, secure_channel.cpp, crypto.cpp).            *)
(*                                                                         *)
(* Abstractions.  A ciphertext is a sealed record only the right key opens, *)
(* a signature a record naming its signer and everything it covers.  What  *)
(* is kept exactly is the layout: every length, the padding and the size   *)
(* field, which the signature covers and the receiver computes again.      *)
(***************************************************************************)
EXTENDS Integers, Sequences

kRsaOaepSha1Overhead == 42
kHmacSha256TagSize == 32
kAesBlockSize == 16
MaxPadding == 255                  \* PaddingSize is one byte
SequenceHeaderSize == 8
SymmetricHeaderSize == 16
AsymmetricPrefixSize == 900        \* frame header, channel id, policy, certificate, thumbprint
PlainPrefixSize == 71              \* the same without certificates, for SecurityPolicy None

Bad == [bad |-> TRUE]              \* a StatusOr without a value
Broken(x) == x = Bad

(***************************************************************************)
(* Frames.  A frame begins with its message type, its chunk type and its   *)
(* size, whatever follows; len is the number of bytes it really has.       *)
(***************************************************************************)
kHeaderSize == 8
FieldSize == 4                     \* a UInt32, or the length of a String
TextSize == 20                     \* the characters of a URL or of a reason

TypeCodes ==
    [Hello |-> "HEL", Acknowledge |-> "ACK", Error |-> "ERR", ReverseHello |-> "RHE",
     SecureOpen |-> "OPN", SecureMessage |-> "MSG", SecureClose |-> "CLO"]
EncodeMessageType(type) == TypeCodes[type]
DecodeMessageType(code) == {t \in DOMAIN TypeCodes : TypeCodes[t] = code}

EncodeFrameHeader(type, size) ==
    [code |-> EncodeMessageType(type), chunk_type |-> "F", message_size |-> size]

EncodeWithHeader(type, fields, size) ==
    [header |-> EncodeFrameHeader(type, kHeaderSize + size), fields |-> fields,
     len |-> kHeaderSize + size]

DecodeFrameHeader(frame) ==
    LET header == frame.header
        types == DecodeMessageType(header.code)
    IN  IF frame.len < kHeaderSize \/ types = {} \/ header.message_size < kHeaderSize THEN Bad
        ELSE [message_type |-> CHOOSE t \in types : TRUE, chunk_type |-> header.chunk_type,
              message_size |-> header.message_size]

\* A frame of this type whose size field tells the truth.
IsFrame(frame, type) ==
    LET header == DecodeFrameHeader(frame)
    IN  /\ ~Broken(header)
        /\ header.message_type = type /\ header.message_size = frame.len

(***************************************************************************)
(* Hello, Acknowledge and Error.  TransportLimits has the same members.    *)
(***************************************************************************)
Least(a, b) == IF a < b THEN a ELSE b

HelloMessage(limits, url) == [limits |-> limits, endpoint_url |-> url]

EncodeHelloMessage(message) ==
    EncodeWithHeader("Hello",
        <<message.limits.protocol_version, message.limits.receive_buffer_size,
          message.limits.send_buffer_size, message.limits.max_message_size,
          message.limits.max_chunk_count, message.endpoint_url>>,
        6 * FieldSize + TextSize)

LimitsOf(fields) ==
    [protocol_version |-> fields[1], receive_buffer_size |-> fields[2],
     send_buffer_size |-> fields[3], max_message_size |-> fields[4],
     max_chunk_count |-> fields[5]]

DecodeHelloMessage(frame) ==
    IF ~IsFrame(frame, "Hello") \/ Len(frame.fields) # 6 THEN Bad
    ELSE HelloMessage(LimitsOf(frame.fields), frame.fields[6])

EncodeAcknowledgeMessage(limits) ==
    EncodeWithHeader("Acknowledge",
        <<limits.protocol_version, limits.receive_buffer_size, limits.send_buffer_size,
          limits.max_message_size, limits.max_chunk_count>>, 5 * FieldSize)

DecodeAcknowledgeMessage(frame) ==
    IF ~IsFrame(frame, "Acknowledge") \/ Len(frame.fields) # 5 THEN Bad
    ELSE LimitsOf(frame.fields)

EncodeErrorMessage(error) ==
    EncodeWithHeader("Error", <<error, "reason">>, 2 * FieldSize + TextSize)

DecodeErrorMessage(frame) ==
    IF ~IsFrame(frame, "Error") \/ Len(frame.fields) # 2 THEN Bad
    ELSE [error |-> frame.fields[1]]

\* Bad stands for the ErrorMessage the server answers with.
NegotiateHello(hello, limits) ==
    IF hello.limits.receive_buffer_size = 0 \/ hello.limits.send_buffer_size = 0 THEN Bad
    ELSE [limits EXCEPT
            !.protocol_version = Least(hello.limits.protocol_version, @),
            !.receive_buffer_size = Least(@, hello.limits.send_buffer_size),
            !.send_buffer_size = Least(@, hello.limits.receive_buffer_size)]

(***************************************************************************)
(* OpenSecureChannel bodies.  A response carries its service result as     *)
(* good or bad only.                                                       *)
(***************************************************************************)
RequestHeaderSize == 29
ResponseHeaderSize == 24

\* The bytes a body has left behind its type and its header.
ReadRequestHeader(body) == body.len - 4 - RequestHeaderSize
ReadResponseHeader(body) == body.len - 4 - ResponseHeaderSize

EncodeOpenRequest(mode, nonce) ==
    [type |-> "OpenSecureChannelRequest", security_mode |-> mode, client_nonce |-> nonce,
     len |-> 4 + RequestHeaderSize + 4 + 4 + 4 + 4 + nonce.len + 4]

\* The fields must use up the body exactly.
DecodeOpenRequest(body) ==
    IF \/ body.type # "OpenSecureChannelRequest"
       \/ ReadRequestHeader(body) # 4 + 4 + 4 + 4 + body.client_nonce.len + 4
    THEN Bad ELSE body

EncodeOpenResponse(result, channel, token, nonce) ==
    [type |-> "OpenSecureChannelResponse", service_result |-> result = "Good",
     channel_id |-> channel, token_id |-> token, server_nonce |-> nonce,
     len |-> 4 + ResponseHeaderSize + 4 + 4 + 4 + 8 + 4 + 4 + nonce.len]

DecodeOpenResponse(body) ==
    IF \/ body.type # "OpenSecureChannelResponse"
       \/ ReadResponseHeader(body) # 4 + 4 + 4 + 8 + 4 + 4 + body.server_nonce.len
    THEN Bad ELSE body

(***************************************************************************)
(* Keys.                                                                   *)
(***************************************************************************)
\* P_SHA256 as an injective function of secret and seed; the three keys are
\* consecutive slices of its output.
DeriveBasic256Sha256Keys(secret, seed) ==
    [signing_key |-> <<secret, seed, 0>>, encrypting_key |-> <<secret, seed, 32>>,
     initialization_vector |-> <<secret, seed, 64>>]

RsaPkcs1Sha256Sign(certificate, data) ==
    [by |-> certificate.id, len |-> certificate.key, over |-> data]

RsaPkcs1Sha256Verify(certificate, data, signature) ==
    signature = [by |-> certificate.id, len |-> certificate.key, over |-> data]

HmacSha256(key, data) == [by |-> key, len |-> kHmacSha256TagSize, over |-> data]

\* Each block of key - 42 plaintext bytes becomes one block of key bytes.
RsaOaepEncrypt(certificate, plaintext) ==
    LET plain_block == certificate.key - kRsaOaepSha1Overhead
    IN  [for |-> certificate.id, plaintext |-> plaintext,
         len |-> ((plaintext.len + plain_block - 1) \div plain_block) * certificate.key]

RsaOaepDecrypt(certificate, sealed) ==
    IF sealed.for # certificate.id \/ sealed.len % certificate.key # 0 THEN Bad
    ELSE sealed.plaintext

AesCbcEncrypt(keys, plaintext) ==
    IF plaintext.len % kAesBlockSize # 0 THEN Bad
    ELSE [for |-> <<keys.encrypting_key, keys.initialization_vector>>,
          plaintext |-> plaintext, len |-> plaintext.len]

AesCbcDecrypt(keys, sealed) ==
    IF \/ sealed.len % kAesBlockSize # 0
       \/ sealed.for # <<keys.encrypting_key, keys.initialization_vector>>
    THEN Bad ELSE sealed.plaintext

(***************************************************************************)
(* Chunks.  A plaintext is sequence header, body, padding, the padding     *)
(* size and the signature; taking one apart starts from its end.           *)
(***************************************************************************)
PaddingFor(unpadded, block) == (block - (unpadded % block)) % block

Plaintext(request_id, body, padding, signature) ==
    [request_id |-> request_id, body |-> body, padding |-> padding, signature |-> signature,
     len |-> SequenceHeaderSize + body.len + padding + 1 + signature.len]

Covered(header, prefix, p) ==
    [header |-> header, prefix |-> prefix, request_id |-> p.request_id, body |-> p.body, padding |-> p.padding]

\* Where the body ends when the signature is taken to be `signature_size` bytes.
BodySize(p, signature_size) ==
    p.len - signature_size - 1 - p.padding - SequenceHeaderSize

\* The OPN chunk: signed with the sender's key, encrypted to the receiver's.
BuildAsymmetricFrame(own, peer, policy, request_id, body) ==
    LET plain_block == peer.key - kRsaOaepSha1Overhead
        unpadded == SequenceHeaderSize + body.len + 1 + own.key
        padding == PaddingFor(unpadded, plain_block)
        predicted == AsymmetricPrefixSize + ((unpadded + padding) \div plain_block) * peer.key
        prefix == [security_policy_uri |-> policy,
                   sender_certificate |-> own, receiver_certificate_thumbprint |-> peer.id]
        covered == [header |-> EncodeFrameHeader("SecureOpen", predicted), prefix |-> prefix,
                    request_id |-> request_id, body |-> body, padding |-> padding]
        sealed == RsaOaepEncrypt(peer, Plaintext(request_id, body, padding,
                                                 RsaPkcs1Sha256Sign(own, covered)))
    IN  IF padding > MaxPadding THEN Bad
        ELSE [header |-> EncodeFrameHeader("SecureOpen", AsymmetricPrefixSize + sealed.len),
              prefix |-> prefix, sealed |-> sealed, len |-> AsymmetricPrefixSize + sealed.len]

DecodeAsymmetricFrame(own, peer, frame) ==
    LET p == RsaOaepDecrypt(own, frame.sealed)
    IN  IF Broken(p) THEN Bad
        ELSE IF \/ p.len < peer.key + 1
                \/ ~RsaPkcs1Sha256Verify(peer, Covered(frame.header, frame.prefix, p), p.signature)
                \/ BodySize(p, peer.key) # p.body.len
             THEN Bad
        ELSE [request_id |-> p.request_id, body |-> p.body]

\* MSG and CLO chunks under the symmetric keys.
BuildSymmetricFrame(type, keys, channel, token, request_id, body) ==
    LET padding == PaddingFor(SequenceHeaderSize + body.len + 1 + kHmacSha256TagSize,
                              kAesBlockSize)
        payload == SequenceHeaderSize + body.len + padding + 1
        predicted == SymmetricHeaderSize + payload + kHmacSha256TagSize
        prefix == [channel_id |-> channel, token_id |-> token]
        covered == [header |-> EncodeFrameHeader(type, predicted), prefix |-> prefix,
                    request_id |-> request_id, body |-> body, padding |-> padding]
        sealed == AesCbcEncrypt(keys, Plaintext(request_id, body, padding,
                                                HmacSha256(keys.signing_key, covered)))
    IN  IF Broken(sealed) THEN Bad
        ELSE [header |-> EncodeFrameHeader(type, SymmetricHeaderSize + sealed.len),
              prefix |-> prefix, sealed |-> sealed, len |-> SymmetricHeaderSize + sealed.len]

DecodeSymmetricFrame(keys, channel, token, frame) ==
    LET p == AesCbcDecrypt(keys, frame.sealed)
    IN  IF \/ frame.prefix.channel_id # channel
           \/ frame.prefix.token_id # token
           \/ Broken(p)
        THEN Bad
        ELSE IF \/ p.signature # HmacSha256(keys.signing_key, Covered(frame.header, frame.prefix, p))
                \/ BodySize(p, kHmacSha256TagSize) # p.body.len
             THEN Bad
        ELSE [request_id |-> p.request_id, body |-> p.body]

(***************************************************************************)
(* SecurityPolicy None: a body in the clear.  The security header of an    *)
(* OPN chunk names the policy, that of any other chunk the token.          *)
(***************************************************************************)
EncodeSecureConversationMessage(type, channel, security, request_id, body) ==
    LET prefix == IF type = "SecureOpen" THEN PlainPrefixSize ELSE SymmetricHeaderSize
        size == prefix + SequenceHeaderSize + body.len
    IN  [header |-> EncodeFrameHeader(type, size), channel_id |-> channel,
         prefix |-> security, plain |-> [request_id |-> request_id, body |-> body],
         len |-> size]

DecodeSecureConversationMessage(frame, type) ==
    IF ~IsFrame(frame, type) THEN Bad
    ELSE [secure_channel_id |-> frame.channel_id, security |-> frame.prefix,
          request_id |-> frame.plain.request_id, body |-> frame.plain.body]
=============================================================================
