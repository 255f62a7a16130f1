---------------------- MODULE SecureConversationProofs ----------------------
(***************************************************************************)
(* Proofs about SecureConversation, for every set of requests and every    *)
(* number of renewals: the two ends of a channel stay in step.             *)
(* ConversationInvariant says which frames can be on their way while the   *)
(* client is where it is, and which token and keys each of them names.     *)
(***************************************************************************)
EXTENDS SecureConversation, TLAPS

(***************************************************************************)
(* Frames in order: what a read, a write and a loss leave of them.         *)
(***************************************************************************)
Shape(q) == Len(q) \in Nat /\ DOMAIN q = 1 .. Len(q)

Pushed(q, f, p) ==
    /\ Shape(q) /\ Shape(p)
    /\ Len(p) = Len(q) + 1
    /\ \A i \in DOMAIN q : p[i] = q[i]
    /\ p[Len(q) + 1] = f

Popped(q, p) ==
    /\ Shape(q) /\ Shape(p)
    /\ Len(q) = Len(p) + 1
    /\ \A i \in DOMAIN p : p[i] = q[i + 1]

Cut(q, p) ==
    /\ Shape(q) /\ Shape(p)
    /\ Len(p) <= Len(q)
    /\ \A i \in DOMAIN p : p[i] = q[i]

\* The first frame is a frame.
LEMMA HeadIsFrame ==
    ASSUME NEW q \in Seq(Frames), q # <<>>
    PROVE  /\ Head(q) \in Frames
           /\ Head(q).token \in Nat
           /\ Head(q).keys \in Nat \X Nat
           /\ Head(q).keys[1] \in Nat
           /\ Head(q).keys[2] \in Nat
           /\ Head(q).id \in Requests \cup {Nobody}
<1>1. Head(q) \in Frames
  OBVIOUS
<1>. QED
  BY <1>1 DEF Frames, KeyPairs

\* What is behind the first frame are frames.
LEMMA TailIsFrames ==
    ASSUME NEW q \in Seq(Frames), q # <<>>
    PROVE  Tail(q) \in Seq(Frames)
  OBVIOUS

\* A write puts its frame behind the others.
LEMMA AppendPushes ==
    ASSUME NEW q \in Seq(Frames), NEW f \in Frames
    PROVE  Pushed(q, f, Append(q, f))
  BY DEF Pushed, Shape

\* A read takes the first frame.
LEMMA TailPops ==
    ASSUME NEW q \in Seq(Frames), q # <<>>
    PROVE  Popped(q, Tail(q)) /\ q[1] = Head(q)
  BY DEF Popped, Shape

(***************************************************************************)
(* The invariant.                                                          *)
(***************************************************************************)
\* What the other parts need of TypeOK.
LEMMA ConversationFacts ==
    ASSUME ConversationInvariant
    PROVE  /\ Shape(up) /\ Shape(down)
           /\ policy \in {"None", "Basic256Sha256"}
           /\ client \in {"idle", "connecting", "opening", "open", "renewing",
                         "closed"}
           /\ pending \subseteq outstanding
           /\ client = "renewing" <=> sender # Nobody
           /\ s_token \in Nat \ {0}
           /\ stolen \in BOOLEAN /\ loud \in BOOLEAN /\ rejected \in BOOLEAN
           /\ Nobody \notin Requests
           /\ dropped \subseteq {"MSG", "CLO"}
           /\ outstanding \subseteq Requests
           /\ unsent \subseteq Requests
           /\ \A i \in DOMAIN down :
                 down[i].type \in {"HEL", "ACK", OpenIssue, OpenRenew, "MSG",
                                   "CLO"}
<1>1. \A i \in DOMAIN down : down[i] \in Frames
  BY DEF ConversationInvariant, TypeOK
<1>2. \A i \in DOMAIN down :
         down[i].type \in {"HEL", "ACK", OpenIssue, OpenRenew, "MSG", "CLO"}
  BY <1>1 DEF Frames
<1>. QED
  BY <1>2, ConversationAssumption
  DEF ConversationInvariant, TypeOK, Shape, Policies

\* Two ends that have not met.
LEMMA InitEstablishesInvariant ==
    ASSUME Init PROVE ConversationInvariant
<1>1. <<>> \in Seq(Frames) /\ <<0, 0>> \in KeyPairs
  BY DEF KeyPairs
<1>2. /\ policy \in Policies
      /\ allowed \subseteq Policies
      /\ up \in Seq(Frames) /\ down \in Seq(Frames)
      /\ c_keys \in KeyPairs /\ s_keys \in KeyPairs
  BY <1>1 DEF Init, NoKeys
<1>3. /\ s_opened \in BOOLEAN
      /\ loud \in BOOLEAN /\ stolen \in BOOLEAN /\ rejected \in BOOLEAN
  BY DEF Init
<1>4. /\ c_token \in Nat /\ c_nonce \in Nat
      /\ renewals \in 0 .. MaxRenewals
      /\ s_token \in Nat \ {0} /\ s_previous \in Nat /\ s_nonce \in Nat
  BY ConversationAssumption DEF Init
<1>5. /\ client = "idle" /\ sender = Nobody /\ unsent = Requests
      /\ outstanding = {} /\ pending = {} /\ server = "reading"
      /\ serving = {} /\ dropped = {}
  BY DEF Init
<1>6. TypeOK
  BY <1>2, <1>3, <1>4, <1>5 DEF TypeOK
<1>7. OnePlace /\ Traffic
  BY ConversationAssumption DEF Init, OnePlace, Traffic, Messages, Opens
<1>8. Handshake /\ InStep
  BY DEF Init, Handshake, InStep, Messages, Opens
<1>9. QuietRenewalsAreSafe /\ RequestsUnderstood /\ ResponsesUnderstood
  BY DEF Init, QuietRenewalsAreSafe, RequestsUnderstood, ResponsesUnderstood
<1>. QED
  BY <1>6, <1>7, <1>8, <1>9 DEF ConversationInvariant

\* Every step of the client, of the server and of the network keeps it.
LEMMA StepKeepsInvariant ==
    ASSUME ConversationInvariant, [Next]_vars
    PROVE  ConversationInvariant'
<1>1. ASSUME Connect
      PROVE  ConversationInvariant'
  <2>. DEFINE f == Hello
  <2>1. f \in Frames
    BY ConversationAssumption, ConversationFacts
    DEF ConversationInvariant, TypeOK, Frames, Frame, KeyPairs, NoKeys,
        OpenIssue, OpenRenew, Hello
  <2>2. /\ f.type = "HEL"
    BY <1>1 DEF Frame, Hello
  <2>3. TypeOK'
    BY <1>1, <2>1, HeadIsFrame, TailIsFrames, ConversationAssumption
    DEF ConversationInvariant, TypeOK, Policies, Connect, Hello, config_vars,
        caller_vars, token_vars, channel_vars, server_vars
  <2>4. /\ Pushed(up, f, up')
    BY <1>1, <2>3, <2>1, ConversationFacts
    DEF Connect, Hello, Pushed, Shape, IsOpen, OpenIssue, OpenRenew, TypeOK,
        ConversationInvariant
  <2>. HIDE DEF f
  <2>5. /\ client = "idle"
        /\ client' = "connecting"
        /\ UNCHANGED <<config_vars, caller_vars, token_vars, renewals, loud,
                         stolen, rejected, server_vars, down>>
    BY <1>1, ConversationFacts
    DEF Connect, Hello, IsOpen, OpenIssue, OpenRenew, TypeOK
  <2>6. /\ \A i \in Messages(up') :
             \/ i \in Messages(up) /\ up'[i] = up[i]
             \/ i = Len(up) + 1 /\ up'[i] = f /\ f.type = "MSG"
    BY ConversationFacts, <2>2, <2>4, <2>5 DEF Messages, Pushed, Shape
  <2>7. OnePlace'
    BY ConversationFacts, <2>2, <2>4, <2>6, <2>5
    DEF ConversationInvariant, OnePlace, Messages, Traffic, IsOpen, OpenIssue,
        OpenRenew, config_vars, caller_vars, token_vars, channel_vars,
        server_vars
  <2>8. Traffic'
    BY ConversationFacts, <2>2, <2>4, <2>5
    DEF ConversationInvariant, OnePlace, Traffic, Handshake, Opens, IsOpen,
        OpenIssue, OpenRenew, Pushed, Shape, config_vars, caller_vars,
        token_vars, channel_vars, server_vars
  <2>9. (~stolen => Handshake)'
    BY ConversationFacts, <2>2, <2>4, <2>5
    DEF ConversationInvariant, Traffic, Handshake, InStep, NoKeys, Opens,
        IsOpen, OpenIssue, OpenRenew, Pushed, Shape, config_vars, caller_vars,
        token_vars, channel_vars, server_vars
  <2>10. (~stolen => InStep)'
    BY ConversationFacts, <2>2, <2>4, <2>5
    DEF ConversationInvariant, OnePlace, Messages, Traffic, Handshake, InStep,
        NoKeys, Opens, IsOpen, OpenIssue, OpenRenew, Pushed, Shape, config_vars,
        caller_vars, token_vars, channel_vars, server_vars
  <2>11. /\ QuietRenewalsAreSafe'
         /\ RequestsUnderstood'
         /\ ResponsesUnderstood'
    BY ConversationFacts, <2>2, <2>4, <2>5
    DEF ConversationInvariant, QuietRenewalsAreSafe, RequestsUnderstood,
        ResponsesUnderstood, OnePlace, Messages, Traffic, Handshake, InStep,
        Opens, IsOpen, OpenIssue, OpenRenew, Pushed, Shape, config_vars,
        caller_vars, token_vars, channel_vars, server_vars
  <2>. QED
    BY <2>3, <2>7, <2>8, <2>9, <2>10, <2>11 DEF ConversationInvariant
<1>2. ASSUME Acknowledged
      PROVE  ConversationInvariant'
  <2>. DEFINE f == Frame(OpenIssue, 0, <<c_nonce', 0>>, Nobody)
  <2>1. /\ c_nonce' \in Nat
    BY <1>2, HeadIsFrame, ConversationAssumption
    DEF ConversationInvariant, TypeOK, OnePlace, Messages, OpenIssue, OpenRenew,
        Acknowledged, WriteOpen, NextNonce
  <2>2. f \in Frames
    BY <2>1, ConversationAssumption, ConversationFacts
    DEF ConversationInvariant, TypeOK, Frames, Frame, KeyPairs, NoKeys,
        OpenIssue, OpenRenew
  <2>3. /\ f.type = OpenIssue
        /\ f.keys[1] = c_nonce'
    BY <1>2 DEF Frame
  <2>4. TypeOK'
    BY <1>2, <2>1, <2>2, HeadIsFrame, TailIsFrames, ConversationAssumption
    DEF ConversationInvariant, TypeOK, Policies, Acknowledged, WriteOpen,
        NextNonce, config_vars, caller_vars, channel_vars, server_vars
  <2>5. /\ Popped(down, down')
        /\ down[1].type = "ACK"
        /\ Pushed(up, f, up')
    BY <1>2, <2>4, <2>2, ConversationFacts
    DEF Acknowledged, WriteOpen, NextNonce, Pushed, Popped, Shape, IsOpen,
        OpenIssue, OpenRenew, TypeOK, ConversationInvariant
  <2>. HIDE DEF f
  <2>6. /\ client = "connecting"
        /\ client' = "opening"
        /\ policy = "None" => c_nonce' = c_nonce
        /\ UNCHANGED <<config_vars, caller_vars, c_token, c_keys, renewals,
                         loud, stolen, rejected, server_vars>>
    BY <1>2, <2>1, ConversationFacts
    DEF Acknowledged, WriteOpen, NextNonce, IsOpen, OpenIssue, OpenRenew, TypeOK
  <2>7. /\ \A i \in Messages(up') :
             \/ i \in Messages(up) /\ up'[i] = up[i]
             \/ i = Len(up) + 1 /\ up'[i] = f /\ f.type = "MSG"
        /\ \A i \in Messages(down') :
             i \in Nat /\ i > 0 /\ i + 1 \in Messages(down) /\ down'[i] = down[i
                + 1]
        /\ 1 \in DOMAIN down
    BY ConversationFacts, <2>3, <2>5, <2>6 DEF Messages, Pushed, Popped, Shape
  <2>8. OnePlace'
    BY ConversationFacts, <2>3, <2>5, <2>7, <2>6
    DEF ConversationInvariant, OnePlace, Messages, Traffic, IsOpen, OpenIssue,
        OpenRenew, config_vars, caller_vars, channel_vars, server_vars
  <2>9. Traffic'
    BY ConversationFacts, <2>3, <2>5, <2>6
    DEF ConversationInvariant, OnePlace, Traffic, Handshake, Opens, IsOpen,
        OpenIssue, OpenRenew, Pushed, Popped, Shape, config_vars, caller_vars,
        channel_vars, server_vars
  <2>10. (~stolen => Handshake)'
    BY ConversationFacts, <2>3, <2>5, <2>6
    DEF ConversationInvariant, Traffic, Handshake, InStep, NoKeys, Opens,
        IsOpen, OpenIssue, OpenRenew, Pushed, Popped, Shape, config_vars,
        caller_vars, channel_vars, server_vars
  <2>11. (~stolen => InStep)'
    BY ConversationFacts, <2>3, <2>5, <2>6
    DEF ConversationInvariant, OnePlace, Messages, Traffic, Handshake, InStep,
        NoKeys, Opens, IsOpen, OpenIssue, OpenRenew, Pushed, Popped, Shape,
        config_vars, caller_vars, channel_vars, server_vars
  <2>12. /\ QuietRenewalsAreSafe'
         /\ RequestsUnderstood'
         /\ ResponsesUnderstood'
    BY ConversationFacts, <2>3, <2>5, <2>6
    DEF ConversationInvariant, QuietRenewalsAreSafe, RequestsUnderstood,
        ResponsesUnderstood, OnePlace, Messages, Traffic, Handshake, InStep,
        Opens, IsOpen, OpenIssue, OpenRenew, Pushed, Popped, Shape, config_vars,
        caller_vars, channel_vars, server_vars
  <2>. QED
    BY <2>4, <2>8, <2>9, <2>10, <2>11, <2>12 DEF ConversationInvariant
<1>3. ASSUME NEW r \in Requests, Send(r)
      PROVE  ConversationInvariant'
  <2>. DEFINE f == Frame("MSG", c_token, c_keys, r)
  <2>1. f \in Frames
    BY ConversationAssumption, ConversationFacts
    DEF ConversationInvariant, TypeOK, Frames, Frame, KeyPairs, NoKeys,
        OpenIssue, OpenRenew
  <2>2. /\ f.type = "MSG"
        /\ f.token = c_token
        /\ f.keys = c_keys
        /\ f.id = r
    BY <1>3 DEF Frame
  <2>3. TypeOK'
    BY <1>3, <2>1, HeadIsFrame, TailIsFrames, ConversationAssumption
    DEF ConversationInvariant, TypeOK, Policies, Send, Write, config_vars,
        token_vars, channel_vars, server_vars
  <2>4. /\ Pushed(up, f, up')
    BY <1>3, <2>3, <2>1, ConversationFacts
    DEF Send, Write, Pushed, Shape, IsOpen, OpenIssue, OpenRenew, TypeOK,
        ConversationInvariant
  <2>. HIDE DEF f
  <2>5. /\ client = "open"
        /\ r \in unsent
        /\ unsent' = unsent \ {r}
        /\ outstanding' = outstanding \cup {r}
        /\ UNCHANGED <<config_vars, client, sender, token_vars, renewals, loud,
                         stolen, rejected, server_vars, down>>
    BY <1>3, ConversationFacts
    DEF Send, Write, IsOpen, OpenIssue, OpenRenew, TypeOK
  <2>6. /\ \A i \in Messages(up') :
             \/ i \in Messages(up) /\ up'[i] = up[i]
             \/ i = Len(up) + 1 /\ up'[i] = f /\ f.type = "MSG"
    BY ConversationFacts, <2>2, <2>4, <2>5 DEF Messages, Pushed, Shape
  <2>7. OnePlace'
    BY ConversationFacts, <2>2, <2>4, <2>6, <2>5
    DEF ConversationInvariant, OnePlace, Messages, Traffic, IsOpen, OpenIssue,
        OpenRenew, config_vars, token_vars, channel_vars, server_vars
  <2>8. Traffic'
    BY ConversationFacts, <2>2, <2>4, <2>5
    DEF ConversationInvariant, OnePlace, Traffic, Handshake, Opens, IsOpen,
        OpenIssue, OpenRenew, Pushed, Shape, config_vars, token_vars,
        channel_vars, server_vars
  <2>9. (~stolen => Handshake)'
    BY ConversationFacts, <2>2, <2>4, <2>5
    DEF ConversationInvariant, Traffic, Handshake, InStep, NoKeys, Opens,
        IsOpen, OpenIssue, OpenRenew, Pushed, Shape, config_vars, token_vars,
        channel_vars, server_vars
  <2>10. (~stolen => InStep)'
    BY ConversationFacts, <2>2, <2>4, <2>5
    DEF ConversationInvariant, OnePlace, Messages, Traffic, Handshake, InStep,
        NoKeys, Opens, IsOpen, OpenIssue, OpenRenew, Pushed, Shape, config_vars,
        token_vars, channel_vars, server_vars
  <2>11. /\ QuietRenewalsAreSafe'
         /\ RequestsUnderstood'
         /\ ResponsesUnderstood'
    BY ConversationFacts, <2>2, <2>4, <2>5
    DEF ConversationInvariant, QuietRenewalsAreSafe, RequestsUnderstood,
        ResponsesUnderstood, OnePlace, Messages, Traffic, Handshake, InStep,
        Opens, IsOpen, OpenIssue, OpenRenew, Pushed, Shape, config_vars,
        token_vars, channel_vars, server_vars
  <2>. QED
    BY <2>3, <2>7, <2>8, <2>9, <2>10, <2>11 DEF ConversationInvariant
<1>4. ASSUME NEW r \in Requests, Renew(r)
      PROVE  ConversationInvariant'
  <2>. DEFINE f == Frame(OpenRenew, 0, <<c_nonce', 0>>, Nobody)
  <2>1. /\ c_nonce' \in Nat
    BY <1>4, HeadIsFrame, ConversationAssumption
    DEF ConversationInvariant, TypeOK, OnePlace, Messages, OpenIssue, OpenRenew,
        Renew, WriteOpen, NextNonce
  <2>2. f \in Frames
    BY <2>1, ConversationAssumption, ConversationFacts
    DEF ConversationInvariant, TypeOK, Frames, Frame, KeyPairs, NoKeys,
        OpenIssue, OpenRenew
  <2>3. /\ f.type = OpenRenew
        /\ f.keys[1] = c_nonce'
    BY <1>4 DEF Frame
  <2>4. TypeOK'
    BY <1>4, <2>1, <2>2, HeadIsFrame, TailIsFrames, ConversationAssumption
    DEF ConversationInvariant, TypeOK, Policies, Renew, WriteOpen, NextNonce,
        config_vars, channel_vars, server_vars
  <2>5. /\ Pushed(up, f, up')
    BY <1>4, <2>4, <2>2, ConversationFacts
    DEF Renew, WriteOpen, NextNonce, Pushed, Shape, IsOpen, OpenIssue,
        OpenRenew, TypeOK, ConversationInvariant
  <2>. HIDE DEF f
  <2>6. /\ pending = {}
        /\ client = "open"
        /\ r \in unsent
        /\ client' = "renewing"
        /\ sender' = r
        /\ unsent' = unsent \ {r}
        /\ policy = "None" => c_nonce' = c_nonce
        /\ loud' \in BOOLEAN
        /\ loud => loud'
        /\ ~loud' => outstanding = {}
        /\ UNCHANGED <<config_vars, outstanding, pending, c_token, c_keys,
                         stolen, rejected, server_vars, down>>
    BY <1>4, <2>1, ConversationFacts
    DEF Renew, WriteOpen, NextNonce, IsOpen, OpenIssue, OpenRenew, TypeOK
  <2>7. /\ \A i \in Messages(up') :
             \/ i \in Messages(up) /\ up'[i] = up[i]
             \/ i = Len(up) + 1 /\ up'[i] = f /\ f.type = "MSG"
    BY ConversationFacts, <2>3, <2>5, <2>6 DEF Messages, Pushed, Shape
  <2>8. OnePlace'
    BY ConversationFacts, <2>3, <2>5, <2>7, <2>6
    DEF ConversationInvariant, OnePlace, Messages, Traffic, IsOpen, OpenIssue,
        OpenRenew, config_vars, channel_vars, server_vars
  <2>9. Traffic'
    BY ConversationFacts, <2>3, <2>5, <2>6
    DEF ConversationInvariant, OnePlace, Traffic, Handshake, Opens, IsOpen,
        OpenIssue, OpenRenew, Pushed, Shape, config_vars, channel_vars,
        server_vars
  <2>10. (~stolen => Handshake)'
    BY ConversationFacts, <2>3, <2>5, <2>6
    DEF ConversationInvariant, Traffic, Handshake, InStep, NoKeys, Opens,
        IsOpen, OpenIssue, OpenRenew, Pushed, Shape, config_vars, channel_vars,
        server_vars
  <2>11. (~stolen => InStep)'
    BY ConversationFacts, <2>3, <2>5, <2>6
    DEF ConversationInvariant, OnePlace, Messages, Traffic, Handshake, InStep,
        NoKeys, Opens, IsOpen, OpenIssue, OpenRenew, Pushed, Shape, config_vars,
        channel_vars, server_vars
  <2>12. /\ QuietRenewalsAreSafe'
         /\ RequestsUnderstood'
         /\ ResponsesUnderstood'
    BY ConversationFacts, <2>3, <2>5, <2>6
    DEF ConversationInvariant, QuietRenewalsAreSafe, RequestsUnderstood,
        ResponsesUnderstood, OnePlace, Messages, Traffic, Handshake, InStep,
        Opens, IsOpen, OpenIssue, OpenRenew, Pushed, Shape, config_vars,
        channel_vars, server_vars
  <2>. QED
    BY <2>4, <2>8, <2>9, <2>10, <2>11, <2>12 DEF ConversationInvariant
<1>5. ASSUME Opened
      PROVE  ConversationInvariant'
  <2>1. TypeOK'
    BY <1>5, HeadIsFrame, TailIsFrames, ConversationAssumption
    DEF ConversationInvariant, TypeOK, Policies, Opened, AdoptToken,
        config_vars, caller_vars, channel_vars, server_vars, KeyPairs
  <2>2. /\ Popped(down, down')
        /\ IsOpen(down[1])
    BY <1>5, <2>1, ConversationFacts
    DEF Opened, AdoptToken, Popped, Shape, IsOpen, OpenIssue, OpenRenew, TypeOK,
        ConversationInvariant
  <2>3. /\ client = "opening"
        /\ client' = "open"
        /\ c_token' = down[1].token
        /\ c_keys' = <<c_nonce, down[1].keys[2]>>
        /\ UNCHANGED <<config_vars, caller_vars, c_nonce, renewals, loud,
                         stolen, rejected, server_vars, up>>
    BY <1>5, ConversationFacts
    DEF Opened, AdoptToken, IsOpen, OpenIssue, OpenRenew, TypeOK
  <2>4. /\ \A i \in Messages(down') :
             i \in Nat /\ i > 0 /\ i + 1 \in Messages(down) /\ down'[i] = down[i
                + 1]
        /\ 1 \in DOMAIN down
    BY ConversationFacts, <2>2, <2>3 DEF Messages, Popped, Shape
  <2>5. /\ \A i \in DOMAIN up : up[i].type \notin {"HEL", "ACK", "CLO"}
        /\ \A i \in DOMAIN down : down[i].type \notin {"HEL", "ACK", "CLO"}
    BY <2>3 DEF ConversationInvariant, Traffic
  <2>6. /\ \A i \in DOMAIN up' : up'[i].type \notin {"HEL", "ACK", "CLO"}
        /\ \A i \in DOMAIN down' : down'[i].type \notin {"HEL", "ACK", "CLO"}
    BY <2>2, <2>3, <2>5 DEF Popped, Shape
  <2>7. client' = "open"
    BY <2>3
  <2>8. OnePlace'
    BY ConversationFacts, <2>2, <2>4, <2>3
    DEF ConversationInvariant, OnePlace, Messages, Traffic, IsOpen, OpenIssue,
        OpenRenew, config_vars, caller_vars, channel_vars, server_vars
  <2>9. Traffic'
    BY <2>6, <2>7 DEF Traffic
  <2>10. (~stolen => Handshake)'
    BY ConversationFacts, <2>2, <2>3
    DEF ConversationInvariant, Traffic, Handshake, InStep, NoKeys, Opens,
        IsOpen, OpenIssue, OpenRenew, Popped, Shape, config_vars, caller_vars,
        channel_vars, server_vars
  <2>11. (~stolen => InStep)'
    BY ConversationFacts, <2>2, <2>3
    DEF ConversationInvariant, OnePlace, Messages, Traffic, Handshake, InStep,
        NoKeys, Opens, IsOpen, OpenIssue, OpenRenew, Popped, Shape, config_vars,
        caller_vars, channel_vars, server_vars
  <2>12. /\ QuietRenewalsAreSafe'
         /\ RequestsUnderstood'
         /\ ResponsesUnderstood'
    BY ConversationFacts, <2>2, <2>3
    DEF ConversationInvariant, QuietRenewalsAreSafe, RequestsUnderstood,
        ResponsesUnderstood, OnePlace, Messages, Traffic, Handshake, InStep,
        Opens, IsOpen, OpenIssue, OpenRenew, Popped, Shape, config_vars,
        caller_vars, channel_vars, server_vars
  <2>. QED
    BY <2>1, <2>8, <2>9, <2>10, <2>11, <2>12 DEF ConversationInvariant
<1>6. ASSUME RenewalReads, IsOpen(Head(down))
      PROVE  ConversationInvariant'
  <2>. DEFINE f == Frame("MSG", c_token', c_keys', sender)
  <2>1. /\ client = "renewing"
        /\ down # <<>>
        /\ client' = "open"
        /\ sender' = Nobody
        /\ down' = Tail(down)
        /\ IsOpen(Head(down))
        /\ c_token' = Head(down).token
        /\ c_keys' = <<c_nonce, Head(down).keys[2]>>
        /\ up' = Append(up, f)
        /\ outstanding' = outstanding \cup {sender}
        /\ pending' = pending \cup ({sender} \ Splitters)
        /\ UNCHANGED <<config_vars, unsent, c_nonce, renewals, loud, stolen,
                         rejected, server_vars>>
    BY <1>6 DEF RenewalReads, AdoptToken, Write, OpenIssue, OpenRenew
  <2>2. /\ c_token' \in Nat
        /\ c_keys' \in Nat \X Nat
        /\ sender \in Requests
    BY <2>1, HeadIsFrame, ConversationAssumption
    DEF ConversationInvariant, TypeOK, OnePlace, Messages, OpenIssue, OpenRenew,
        Frame
  <2>3. f \in Frames
    BY <2>2, ConversationAssumption, ConversationFacts
    DEF ConversationInvariant, TypeOK, Frames, Frame, KeyPairs, NoKeys,
        OpenIssue, OpenRenew
  <2>4. /\ f.type = "MSG"
        /\ f.token = c_token'
        /\ f.keys = c_keys'
        /\ f.id = sender
    BY <2>1 DEF Frame
  <2>. HIDE DEF f
  <2>5. /\ up' \in Seq(Frames)
        /\ down' \in Seq(Frames)
        /\ c_keys' \in KeyPairs
    BY <2>1, <2>2, <2>3, TailIsFrames
    DEF ConversationInvariant, TypeOK, KeyPairs
  <2>6. /\ outstanding' \subseteq Requests
        /\ pending' \subseteq outstanding'
    BY <2>1, <2>2 DEF ConversationInvariant, TypeOK
  <2>7. TypeOK'
    BY <2>1, <2>2, <2>5, <2>6, ConversationAssumption
    DEF ConversationInvariant, TypeOK, config_vars, channel_vars, server_vars
  <2>8. Popped(down, down')
    BY <2>1, TailPops DEF TypeOK, ConversationInvariant
  <2>9. IsOpen(down[1])
    BY <2>1, TailPops
    DEF TypeOK, ConversationInvariant, Opens, IsOpen, OpenIssue, OpenRenew
  <2>10. Pushed(up, f, up')
    BY <2>1, <2>3, AppendPushes DEF TypeOK, ConversationInvariant
  <2>11. /\ Popped(down, down')
         /\ IsOpen(down[1])
         /\ Pushed(up, f, up')
    BY <2>8, <2>9, <2>10
  <2>12. /\ client = "renewing"
         /\ client' = "open"
         /\ sender' = Nobody
         /\ sender \in Requests
         /\ c_token' = down[1].token
         /\ c_keys' = <<c_nonce, down[1].keys[2]>>
         /\ outstanding' = outstanding \cup {sender}
         /\ UNCHANGED <<config_vars, unsent, c_nonce, renewals, loud, stolen,
                          rejected, server_vars>>
    BY <2>1, <2>11, <2>2, ConversationFacts
    DEF Frame, IsOpen, OpenIssue, OpenRenew, TypeOK
  <2>13. /\ \A i \in Messages(up') :
              \/ i \in Messages(up) /\ up'[i] = up[i]
              \/ i = Len(up) + 1 /\ up'[i] = f /\ f.type = "MSG"
         /\ \A i \in Messages(down') :
              i \in Nat /\ i > 0 /\ i + 1 \in Messages(down) /\ down'[i] =
                 down[i + 1]
         /\ 1 \in DOMAIN down
    BY ConversationFacts, <2>4, <2>11, <2>12 DEF Messages, Pushed, Popped, Shape
  <2>14. /\ \A i \in Opens(up') :
              \/ i \in Opens(up) /\ up'[i] = up[i]
              \/ i = Len(up) + 1 /\ up'[i] = f /\ IsOpen(f)
         /\ \A i \in Opens(up) : i \in Opens(up')
         /\ \A i \in Opens(up) \cup Messages(up) : i \in Nat /\ i < Len(up) + 1
         /\ IsOpen(f) => Len(up) + 1 \in Opens(up')
    BY ConversationFacts, <2>4, <2>11, <2>12
    DEF Opens, Messages, Pushed, Popped, Shape
  <2>15. /\ \A i \in Opens(down') :
              i \in Nat /\ i > 0 /\ i + 1 \in Opens(down) /\ down'[i] = down[i +
                 1]
         /\ \A i \in Opens(down) : i \in Nat /\ (i = 1 \/ i - 1 \in
            Opens(down'))
    BY <2>11 DEF Opens, Popped, Shape
  <2>16. /\ \A i \in DOMAIN up : up[i].type \notin {"HEL", "ACK", "CLO"}
         /\ \A i \in DOMAIN down : down[i].type \notin {"HEL", "ACK", "CLO"}
    BY <2>12 DEF ConversationInvariant, Traffic
  <2>17. 1 \in Opens(down)
    BY <2>11 DEF Opens, Popped, Shape
  <2>18. ~stolen => /\ up = <<>>
                    /\ down[1].token = s_token
                    /\ s_keys = <<c_nonce, down[1].keys[2]>>
                    /\ s_opened
                    /\ \A j \in Opens(down) : j = 1
    BY <2>17 DEF ConversationInvariant, Handshake
  <2>19. ~stolen => Opens(down') = {}
    BY <2>15, <2>18
  <2>20. ~stolen => /\ up = <<>>
                    /\ Opens(down') = {}
                    /\ c_token' = s_token
                    /\ c_keys' = s_keys
                    /\ s_opened
    BY <2>12, <2>18, <2>19
  <2>21. ~stolen => \A i \in Messages(down') : down'[i].token = s_token /\
     down'[i].keys = s_keys
    BY <2>12, <2>13, <2>17 DEF ConversationInvariant, InStep, Messages
  <2>22. ~stolen => /\ Opens(up') = {}
                    /\ \A i \in DOMAIN up' : up'[i] = f
    BY <2>20, <2>11, <2>4 DEF Opens, Pushed, Shape, IsOpen, OpenIssue, OpenRenew
  <2>23. s_token # 0 /\ s_token' = s_token /\ s_keys' = s_keys /\ s_opened' =
     s_opened /\ policy' = policy /\ c_nonce' = c_nonce /\ stolen' = stolen
    BY <2>12, ConversationFacts DEF server_vars, channel_vars, config_vars
  <2>24. /\ \A i \in DOMAIN up' : up'[i].type \notin {"HEL", "ACK", "CLO"}
         /\ \A i \in DOMAIN down' : down'[i].type \notin {"HEL", "ACK", "CLO"}
    BY <2>4, <2>11, <2>16 DEF Pushed, Popped, Shape
  <2>25. OnePlace'
    BY ConversationFacts, <2>4, <2>11, <2>13, <2>12
    DEF ConversationInvariant, OnePlace, Messages, Traffic, IsOpen, OpenIssue,
        OpenRenew, config_vars, channel_vars, server_vars
  <2>26. Traffic'
    BY <2>12, <2>24 DEF Traffic
  <2>27. (~stolen => Handshake)'
    BY <2>20, <2>22, <2>23 DEF Handshake
  <2>28. (~stolen => InStep)'
    BY <2>4, <2>12, <2>20, <2>21, <2>22, <2>23
    DEF ConversationInvariant, InStep, Messages
  <2>29. /\ QuietRenewalsAreSafe'
         /\ RequestsUnderstood'
         /\ ResponsesUnderstood'
    BY ConversationFacts, <2>4, <2>11, <2>12
    DEF ConversationInvariant, QuietRenewalsAreSafe, RequestsUnderstood,
        ResponsesUnderstood, OnePlace, Messages, Traffic, Handshake, InStep,
        Opens, IsOpen, OpenIssue, OpenRenew, Pushed, Popped, Shape, config_vars,
        channel_vars, server_vars
  <2>. QED
    BY <2>7, <2>25, <2>26, <2>27, <2>28, <2>29 DEF ConversationInvariant
<1>7. ASSUME RenewalReads, ~IsOpen(Head(down))
      PROVE  ConversationInvariant'
  <2>1. /\ client = "renewing"
        /\ down # <<>>
        /\ client' = "open"
        /\ sender' = Nobody
        /\ down' = Tail(down)
        /\ ~IsOpen(Head(down))
        /\ stolen' = TRUE
        /\ UNCHANGED <<config_vars, unsent, outstanding, pending, token_vars,
                         renewals, loud, rejected, server_vars, up>>
    BY <1>7
    DEF RenewalReads, AdoptToken, Write, OpenIssue, OpenRenew, token_vars
  <2>2. TypeOK'
    BY <2>1, HeadIsFrame, TailIsFrames, ConversationAssumption
    DEF ConversationInvariant, TypeOK, Policies, Frame, config_vars, token_vars,
        channel_vars, server_vars, KeyPairs
  <2>3. /\ Popped(down, down')
        /\ ~IsOpen(down[1])
    BY <2>1, <2>2, ConversationFacts
    DEF Frame, Popped, Shape, IsOpen, OpenIssue, OpenRenew, TypeOK,
        ConversationInvariant
  <2>4. /\ client = "renewing"
        /\ client' = "open"
        /\ sender' = Nobody
        /\ stolen' = TRUE
        /\ UNCHANGED <<config_vars, unsent, outstanding, token_vars, renewals,
                         loud, rejected, server_vars, up>>
    BY <2>1, <2>3, ConversationFacts
    DEF Frame, IsOpen, OpenIssue, OpenRenew, TypeOK
  <2>5. /\ \A i \in Messages(down') :
             i \in Nat /\ i > 0 /\ i + 1 \in Messages(down) /\ down'[i] = down[i
                + 1]
        /\ 1 \in DOMAIN down
    BY ConversationFacts, <2>3, <2>4 DEF Messages, Popped, Shape
  <2>6. OnePlace'
    BY ConversationFacts, <2>3, <2>5, <2>4
    DEF ConversationInvariant, OnePlace, Messages, Traffic, IsOpen, OpenIssue,
        OpenRenew, config_vars, token_vars, channel_vars, server_vars
  <2>7. Traffic'
    BY ConversationFacts, <2>3, <2>4
    DEF ConversationInvariant, OnePlace, Traffic, Handshake, Opens, IsOpen,
        OpenIssue, OpenRenew, Popped, Shape, config_vars, token_vars,
        channel_vars, server_vars
  <2>8. (~stolen => Handshake)'
    BY ConversationFacts, <2>3, <2>4
    DEF ConversationInvariant, Traffic, Handshake, InStep, NoKeys, Opens,
        IsOpen, OpenIssue, OpenRenew, Popped, Shape, config_vars, token_vars,
        channel_vars, server_vars
  <2>9. (~stolen => InStep)'
    BY ConversationFacts, <2>3, <2>4
    DEF ConversationInvariant, OnePlace, Messages, Traffic, Handshake, InStep,
        NoKeys, Opens, IsOpen, OpenIssue, OpenRenew, Popped, Shape, config_vars,
        token_vars, channel_vars, server_vars
  <2>10. /\ QuietRenewalsAreSafe'
         /\ RequestsUnderstood'
         /\ ResponsesUnderstood'
    BY ConversationFacts, <2>3, <2>4
    DEF ConversationInvariant, QuietRenewalsAreSafe, RequestsUnderstood,
        ResponsesUnderstood, OnePlace, Messages, Traffic, Handshake, InStep,
        Opens, IsOpen, OpenIssue, OpenRenew, Popped, Shape, config_vars,
        token_vars, channel_vars, server_vars
  <2>. QED
    BY <2>2, <2>6, <2>7, <2>8, <2>9, <2>10 DEF ConversationInvariant
<1>8. ASSUME NEW r \in Requests, Receive(r)
      PROVE  ConversationInvariant'
  <2>1. TypeOK'
    BY <1>8, HeadIsFrame, TailIsFrames, ConversationAssumption
    DEF ConversationInvariant, TypeOK, Policies, Receive, config_vars,
        token_vars, channel_vars, server_vars
  <2>2. /\ client \in {"open", "renewing"}
        /\ UNCHANGED <<config_vars, client, sender, unsent, outstanding,
                         token_vars, renewals, loud, stolen, rejected,
                         server_vars, up, down>>
    BY <1>8, ConversationFacts DEF Receive, IsOpen, OpenIssue, OpenRenew, TypeOK
  <2>3. OnePlace'
    BY ConversationFacts, <2>2
    DEF ConversationInvariant, OnePlace, Messages, Traffic, IsOpen, OpenIssue,
        OpenRenew, config_vars, token_vars, channel_vars, server_vars
  <2>4. Traffic'
    BY ConversationFacts, <2>2
    DEF ConversationInvariant, OnePlace, Traffic, Handshake, Opens, IsOpen,
        OpenIssue, OpenRenew, config_vars, token_vars, channel_vars, server_vars
  <2>5. (~stolen => Handshake)'
    BY ConversationFacts, <2>2
    DEF ConversationInvariant, Traffic, Handshake, InStep, NoKeys, Opens,
        IsOpen, OpenIssue, OpenRenew, config_vars, token_vars, channel_vars,
        server_vars
  <2>6. (~stolen => InStep)'
    BY ConversationFacts, <2>2
    DEF ConversationInvariant, OnePlace, Messages, Traffic, Handshake, InStep,
        NoKeys, Opens, IsOpen, OpenIssue, OpenRenew, config_vars, token_vars,
        channel_vars, server_vars
  <2>7. /\ QuietRenewalsAreSafe'
        /\ RequestsUnderstood'
        /\ ResponsesUnderstood'
    BY ConversationFacts, <2>2
    DEF ConversationInvariant, QuietRenewalsAreSafe, RequestsUnderstood,
        ResponsesUnderstood, OnePlace, Messages, Traffic, Handshake, InStep,
        Opens, IsOpen, OpenIssue, OpenRenew, config_vars, token_vars,
        channel_vars, server_vars
  <2>. QED
    BY <2>1, <2>3, <2>4, <2>5, <2>6, <2>7 DEF ConversationInvariant
<1>9. ASSUME ReadResponse, Decodes(Head(down))
      PROVE  ConversationInvariant'
  <2>1. /\ client \in {"open", "renewing"}
        /\ pending # {}
        /\ down # <<>>
        /\ down' = Tail(down)
        /\ UNCHANGED <<config_vars, client, sender, unsent, token_vars,
                         renewals, loud, server_vars, up>>
        /\ Decodes(Head(down))
        /\ outstanding' = outstanding \ {Head(down).id}
        /\ pending' = pending \ {Head(down).id}
        /\ UNCHANGED <<stolen, rejected>>
    BY <1>9 DEF ReadResponse, OpenIssue, OpenRenew, token_vars
  <2>2. TypeOK'
    BY <2>1, HeadIsFrame, TailIsFrames, ConversationAssumption
    DEF ConversationInvariant, TypeOK, Policies, Frame, config_vars, token_vars,
        channel_vars, server_vars
  <2>3. /\ Popped(down, down')
        /\ down[1].type = "MSG"
    BY <2>1, <2>2, ConversationFacts
    DEF Decodes, Popped, Shape, TypeOK, ConversationInvariant
  <2>4. /\ client \in {"open", "renewing"}
        /\ outstanding' = outstanding \ {down[1].id}
        /\ UNCHANGED <<config_vars, client, sender, unsent, token_vars,
                         renewals, loud, stolen, rejected, server_vars, up>>
    BY <2>1, <2>3, ConversationFacts
    DEF Frame, Decodes, IsOpen, OpenIssue, OpenRenew, TypeOK
  <2>5. /\ \A i \in Messages(down') :
             i \in Nat /\ i > 0 /\ i + 1 \in Messages(down) /\ down'[i] = down[i
                + 1]
        /\ 1 \in DOMAIN down
        /\ 1 \in Messages(down)
    BY ConversationFacts, <2>3, <2>4 DEF Messages, Popped, Shape
  <2>6. /\ \A i \in Opens(down') :
             i \in Nat /\ i > 0 /\ i + 1 \in Opens(down) /\ down'[i] = down[i +
                1]
        /\ \A i \in Opens(down) : i \in Nat /\ (i = 1 \/ i - 1 \in Opens(down'))
    BY ConversationFacts, <2>3, <2>4 DEF Opens, Messages, Popped, Shape
  <2>7. ~IsOpen(down[1])
    BY <2>3 DEF IsOpen, OpenIssue, OpenRenew
  <2>8. /\ 1 \notin Opens(down)
        /\ Opens(down') = {} <=> Opens(down) = {}
        /\ \A i \in Messages(down') : (\E j \in Opens(down') : j < i) <=> (\E j
           \in Opens(down) : j < i + 1)
    BY <2>5, <2>6, <2>7 DEF Opens
  <2>9. /\ UNCHANGED <<policy, client, c_token, c_keys, c_nonce, loud, stolen,
                   up>>
         /\ UNCHANGED <<s_opened, s_token, s_previous, s_keys>>
         /\ outstanding' \subseteq outstanding
    BY <2>4 DEF config_vars, token_vars, server_vars, channel_vars
  <2>10. /\ \A i \in DOMAIN up : up[i].type \notin {"HEL", "ACK", "CLO"}
         /\ \A i \in DOMAIN down : down[i].type \notin {"HEL", "ACK", "CLO"}
    BY <2>4 DEF ConversationInvariant, Traffic
  <2>11. /\ \A i \in DOMAIN up' : up'[i].type \notin {"HEL", "ACK", "CLO"}
         /\ \A i \in DOMAIN down' : down'[i].type \notin {"HEL", "ACK", "CLO"}
    BY <2>3, <2>9, <2>10 DEF Popped, Shape
  <2>12. ~stolen => InStep
    BY DEF ConversationInvariant
  <2>13. OnePlace'
    BY <2>4, <2>5
    DEF ConversationInvariant, OnePlace, config_vars, token_vars, channel_vars,
        server_vars
  <2>14. Traffic'
    BY <2>4, <2>9, <2>11 DEF ConversationInvariant, Traffic
  <2>15. (~stolen => Handshake)'
    BY ConversationFacts, <2>3, <2>5, <2>4, <2>6
    DEF ConversationInvariant, Traffic, Handshake, InStep, NoKeys, IsOpen,
        OpenIssue, OpenRenew, Popped, Shape, config_vars, token_vars,
        channel_vars, server_vars
  <2>16. (~stolen => InStep)'
    BY <2>5, <2>8, <2>9, <2>12 DEF InStep, Messages, Opens
  <2>17. /\ QuietRenewalsAreSafe'
         /\ RequestsUnderstood'
         /\ ResponsesUnderstood'
    BY ConversationFacts, <2>3, <2>4
    DEF ConversationInvariant, QuietRenewalsAreSafe, RequestsUnderstood,
        ResponsesUnderstood, OnePlace, Messages, Traffic, Handshake, InStep,
        Decodes, Opens, IsOpen, OpenIssue, OpenRenew, Popped, Shape,
        config_vars, token_vars, channel_vars, server_vars
  <2>. QED
    BY <2>2, <2>13, <2>14, <2>15, <2>16, <2>17 DEF ConversationInvariant
<1>10. ASSUME ReadResponse, ~Decodes(Head(down))
      PROVE  ConversationInvariant'
  <2>1. /\ client \in {"open", "renewing"}
        /\ pending # {}
        /\ down # <<>>
        /\ down' = Tail(down)
        /\ UNCHANGED <<config_vars, client, sender, unsent, token_vars,
                         renewals, loud, server_vars, up>>
        /\ ~Decodes(Head(down))
        /\ pending' = {}
        /\ stolen' = (stolen \/ IsOpen(Head(down)))
        /\ rejected' = (rejected \/ ~IsOpen(Head(down)))
        /\ UNCHANGED outstanding
    BY <1>10 DEF ReadResponse, OpenIssue, OpenRenew, token_vars
  <2>2. TypeOK'
    BY <2>1, HeadIsFrame, TailIsFrames, ConversationAssumption
    DEF ConversationInvariant, TypeOK, Policies, Frame, config_vars, token_vars,
        channel_vars, server_vars
  <2>3. /\ Popped(down, down')
        /\ ~Decodes(down[1])
    BY <2>1, <2>2, ConversationFacts
    DEF Frame, Popped, Shape, IsOpen, OpenIssue, OpenRenew, TypeOK,
        ConversationInvariant
  <2>4. /\ client \in {"open", "renewing"}
        /\ pending # {}
        /\ stolen' = (stolen \/ IsOpen(down[1]))
        /\ rejected' = (rejected \/ ~IsOpen(down[1]))
        /\ UNCHANGED <<config_vars, client, sender, unsent, outstanding,
                         token_vars, renewals, loud, server_vars, up>>
    BY <2>1, <2>3, ConversationFacts
    DEF Frame, Decodes, IsOpen, OpenIssue, OpenRenew, TypeOK
  <2>5. /\ \A i \in Messages(down') :
             i \in Nat /\ i > 0 /\ i + 1 \in Messages(down) /\ down'[i] = down[i
                + 1]
        /\ 1 \in DOMAIN down
    BY ConversationFacts, <2>3, <2>4 DEF Messages, Popped, Shape
  <2>6. /\ \A i \in Opens(down') :
             i \in Nat /\ i > 0 /\ i + 1 \in Opens(down) /\ down'[i] = down[i +
                1]
        /\ \A i \in Opens(down) : i \in Nat /\ (i = 1 \/ i - 1 \in Opens(down'))
    BY ConversationFacts, <2>3, <2>4 DEF Opens, Messages, Popped, Shape
  <2>7. /\ 1 \in DOMAIN down
        /\ down[1].type = "MSG" \/ IsOpen(down[1])
        /\ \A j \in Opens(down) : ~(j < 1)
    BY ConversationFacts, <2>3, <2>4, <2>5
    DEF ConversationInvariant, Traffic, Opens, IsOpen, Shape
  <2>8. stolen'
    BY ConversationFacts, <2>3, <2>4, <2>7
    DEF ConversationInvariant, InStep, Messages, Decodes
  <2>9. OnePlace'
    BY ConversationFacts, <2>3, <2>5, <2>4
    DEF ConversationInvariant, OnePlace, Traffic, IsOpen, OpenIssue, OpenRenew,
        config_vars, token_vars, channel_vars, server_vars
  <2>10. Traffic'
    BY ConversationFacts, <2>3, <2>4
    DEF ConversationInvariant, OnePlace, Traffic, Handshake, Opens, IsOpen,
        OpenIssue, OpenRenew, Popped, Shape, config_vars, token_vars,
        channel_vars, server_vars
  <2>11. (~stolen => Handshake)'
    BY <2>8
  <2>12. (~stolen => InStep)'
    BY <2>8
  <2>13. /\ QuietRenewalsAreSafe'
         /\ RequestsUnderstood'
         /\ ResponsesUnderstood'
    BY ConversationFacts, <2>3, <2>4
    DEF ConversationInvariant, QuietRenewalsAreSafe, RequestsUnderstood,
        ResponsesUnderstood, OnePlace, Messages, Traffic, Handshake, InStep,
        Decodes, Opens, IsOpen, OpenIssue, OpenRenew, Popped, Shape,
        config_vars, token_vars, channel_vars, server_vars
  <2>. QED
    BY <2>2, <2>9, <2>10, <2>11, <2>12, <2>13 DEF ConversationInvariant
<1>11. ASSUME Close
      PROVE  ConversationInvariant'
  <2>. DEFINE f == Frame("CLO", c_token, c_keys, Nobody)
  <2>1. f \in Frames
    BY ConversationAssumption, ConversationFacts
    DEF ConversationInvariant, TypeOK, Frames, Frame, KeyPairs, NoKeys,
        OpenIssue, OpenRenew
  <2>2. /\ f.type = "CLO"
        /\ f.token = c_token
    BY <1>11 DEF Frame
  <2>3. TypeOK'
    BY <1>11, <2>1, HeadIsFrame, TailIsFrames, ConversationAssumption
    DEF ConversationInvariant, TypeOK, Policies, Close, config_vars, token_vars,
        channel_vars, server_vars
  <2>4. /\ Pushed(up, f, up')
        /\ down' = <<>>
    BY <1>11, <2>3, <2>1, ConversationFacts
    DEF Close, Pushed, Shape, IsOpen, OpenIssue, OpenRenew, TypeOK,
        ConversationInvariant
  <2>. HIDE DEF f
  <2>5. /\ client \in {"open", "renewing"}
        /\ client' = "closed"
        /\ sender' = Nobody
        /\ UNCHANGED <<config_vars, unsent, outstanding, token_vars, renewals,
                         loud, stolen, rejected, server_vars>>
    BY <1>11, ConversationFacts DEF Close, IsOpen, OpenIssue, OpenRenew, TypeOK
  <2>6. /\ \A i \in Messages(up') :
             \/ i \in Messages(up) /\ up'[i] = up[i]
             \/ i = Len(up) + 1 /\ up'[i] = f /\ f.type = "MSG"
        /\ Messages(down') = {}
    BY ConversationFacts, <2>2, <2>4, <2>5 DEF Messages, Pushed, Shape
  <2>7. OnePlace'
    BY ConversationFacts, <2>2, <2>4, <2>6, <2>5
    DEF ConversationInvariant, OnePlace, Messages, Traffic, IsOpen, OpenIssue,
        OpenRenew, config_vars, token_vars, channel_vars, server_vars
  <2>8. Traffic'
    BY ConversationFacts, <2>2, <2>4, <2>5
    DEF ConversationInvariant, OnePlace, Traffic, Handshake, Opens, IsOpen,
        OpenIssue, OpenRenew, Pushed, Shape, config_vars, token_vars,
        channel_vars, server_vars
  <2>9. (~stolen => Handshake)'
    BY ConversationFacts, <2>2, <2>4, <2>5
    DEF ConversationInvariant, Traffic, Handshake, InStep, NoKeys, Opens,
        IsOpen, OpenIssue, OpenRenew, Pushed, Shape, config_vars, token_vars,
        channel_vars, server_vars
  <2>10. (~stolen => InStep)'
    BY ConversationFacts, <2>2, <2>4, <2>5
    DEF ConversationInvariant, OnePlace, Messages, Traffic, Handshake, InStep,
        NoKeys, Opens, IsOpen, OpenIssue, OpenRenew, Pushed, Shape, config_vars,
        token_vars, channel_vars, server_vars
  <2>11. /\ QuietRenewalsAreSafe'
         /\ RequestsUnderstood'
         /\ ResponsesUnderstood'
    BY ConversationFacts, <2>2, <2>4, <2>5
    DEF ConversationInvariant, QuietRenewalsAreSafe, RequestsUnderstood,
        ResponsesUnderstood, OnePlace, Messages, Traffic, Handshake, InStep,
        Opens, IsOpen, OpenIssue, OpenRenew, Pushed, Shape, config_vars,
        token_vars, channel_vars, server_vars
  <2>. QED
    BY <2>3, <2>7, <2>8, <2>9, <2>10, <2>11 DEF ConversationInvariant
<1>12. ASSUME Disconnect
      PROVE  ConversationInvariant'
  <2>1. TypeOK'
    BY <1>12, HeadIsFrame, TailIsFrames, ConversationAssumption
    DEF ConversationInvariant, TypeOK, Policies, Disconnect, config_vars,
        token_vars, channel_vars, server_vars
  <2>2. /\ Cut(up, up')
        /\ down' = <<>>
    BY <1>12, <2>1, ConversationFacts
    DEF Disconnect, Cut, Shape, IsOpen, OpenIssue, OpenRenew, TypeOK,
        ConversationInvariant
  <2>3. /\ client # "closed"
        /\ client' = "closed"
        /\ sender' = Nobody
        /\ UNCHANGED <<config_vars, unsent, outstanding, token_vars, renewals,
                         loud, stolen, rejected, server_vars>>
    BY <1>12, ConversationFacts
    DEF Disconnect, IsOpen, OpenIssue, OpenRenew, TypeOK
  <2>4. /\ \A i \in Messages(up') : i \in Messages(up) /\ up'[i] = up[i]
        /\ Messages(down') = {}
    BY ConversationFacts, <2>2, <2>3 DEF Messages, Cut, Shape
  <2>5. OnePlace'
    BY ConversationFacts, <2>2, <2>4, <2>3
    DEF ConversationInvariant, OnePlace, Messages, Traffic, IsOpen, OpenIssue,
        OpenRenew, config_vars, token_vars, channel_vars, server_vars
  <2>6. Traffic'
    BY ConversationFacts, <2>2, <2>3
    DEF ConversationInvariant, OnePlace, Traffic, Handshake, Opens, IsOpen,
        OpenIssue, OpenRenew, Cut, Shape, config_vars, token_vars, channel_vars,
        server_vars
  <2>7. (~stolen => Handshake)'
    BY ConversationFacts, <2>2, <2>3
    DEF ConversationInvariant, Traffic, Handshake, InStep, NoKeys, Opens,
        IsOpen, OpenIssue, OpenRenew, Cut, Shape, config_vars, token_vars,
        channel_vars, server_vars
  <2>8. (~stolen => InStep)'
    BY ConversationFacts, <2>2, <2>3
    DEF ConversationInvariant, OnePlace, Messages, Traffic, Handshake, InStep,
        NoKeys, Opens, IsOpen, OpenIssue, OpenRenew, Cut, Shape, config_vars,
        token_vars, channel_vars, server_vars
  <2>9. /\ QuietRenewalsAreSafe'
        /\ RequestsUnderstood'
        /\ ResponsesUnderstood'
    BY ConversationFacts, <2>2, <2>3
    DEF ConversationInvariant, QuietRenewalsAreSafe, RequestsUnderstood,
        ResponsesUnderstood, OnePlace, Messages, Traffic, Handshake, InStep,
        Opens, IsOpen, OpenIssue, OpenRenew, Cut, Shape, config_vars,
        token_vars, channel_vars, server_vars
  <2>. QED
    BY <2>1, <2>5, <2>6, <2>7, <2>8, <2>9 DEF ConversationInvariant
<1>13. ASSUME EndOfStream
      PROVE  ConversationInvariant'
  <2>1. TypeOK'
    BY <1>13, HeadIsFrame, TailIsFrames, ConversationAssumption
    DEF ConversationInvariant, TypeOK, Policies, EndOfStream, config_vars,
        token_vars, channel_vars, server_vars
  <2>2. /\ down = <<>>
        /\ client' = "closed"
        /\ client # "idle"
        /\ sender' = Nobody
        /\ UNCHANGED <<config_vars, unsent, outstanding, token_vars, renewals,
                         loud, stolen, rejected, server_vars, up, down>>
    BY <1>13, ConversationFacts
    DEF EndOfStream, IsOpen, OpenIssue, OpenRenew, TypeOK
  <2>3. OnePlace'
    BY ConversationFacts, <2>2
    DEF ConversationInvariant, OnePlace, Messages, Traffic, IsOpen, OpenIssue,
        OpenRenew, config_vars, token_vars, channel_vars, server_vars
  <2>4. Traffic'
    BY ConversationFacts, <2>2
    DEF ConversationInvariant, OnePlace, Traffic, Handshake, Opens, IsOpen,
        OpenIssue, OpenRenew, config_vars, token_vars, channel_vars, server_vars
  <2>5. (~stolen => Handshake)'
    BY ConversationFacts, <2>2
    DEF ConversationInvariant, Traffic, Handshake, InStep, NoKeys, Opens,
        IsOpen, OpenIssue, OpenRenew, config_vars, token_vars, channel_vars,
        server_vars
  <2>6. (~stolen => InStep)'
    BY ConversationFacts, <2>2
    DEF ConversationInvariant, OnePlace, Messages, Traffic, Handshake, InStep,
        NoKeys, Opens, IsOpen, OpenIssue, OpenRenew, config_vars, token_vars,
        channel_vars, server_vars
  <2>7. /\ QuietRenewalsAreSafe'
        /\ RequestsUnderstood'
        /\ ResponsesUnderstood'
    BY ConversationFacts, <2>2
    DEF ConversationInvariant, QuietRenewalsAreSafe, RequestsUnderstood,
        ResponsesUnderstood, OnePlace, Messages, Traffic, Handshake, InStep,
        Opens, IsOpen, OpenIssue, OpenRenew, config_vars, token_vars,
        channel_vars, server_vars
  <2>. QED
    BY <2>1, <2>3, <2>4, <2>5, <2>6, <2>7 DEF ConversationInvariant
<1>14. ASSUME HandleHello, client = "closed"
      PROVE  ConversationInvariant'
  <2>1. TypeOK'
    BY <1>14, HeadIsFrame, TailIsFrames, ConversationAssumption
    DEF ConversationInvariant, TypeOK, Policies, HandleHello, Process, Written,
        Acknowledge, config_vars, caller_vars, token_vars, client_vars,
        channel_vars
  <2>2. /\ Popped(up, up')
        /\ up[1].type = "HEL"
    BY <1>14, <2>1, ConversationFacts
    DEF HandleHello, Process, Written, Acknowledge, Popped, Shape, IsOpen,
        OpenIssue, OpenRenew, TypeOK, ConversationInvariant
  <2>3. /\ UNCHANGED <<config_vars, client_vars, server, channel_vars, serving,
                   dropped, down>>
        /\ client = "closed"
    BY <1>14, ConversationFacts
    DEF HandleHello, Process, Written, Acknowledge, IsOpen, OpenIssue,
        OpenRenew, TypeOK
  <2>4. /\ \A i \in Messages(up') :
             i \in Nat /\ i > 0 /\ i + 1 \in Messages(up) /\ up'[i] = up[i + 1]
        /\ 1 \in DOMAIN up
    BY ConversationFacts, <2>2, <2>3 DEF Messages, Popped, Shape
  <2>5. OnePlace'
    BY ConversationFacts, <2>2, <2>4, <2>3
    DEF ConversationInvariant, OnePlace, Messages, Traffic, IsOpen, OpenIssue,
        OpenRenew, config_vars, caller_vars, token_vars, client_vars,
        channel_vars
  <2>6. Traffic'
    BY ConversationFacts, <2>2, <2>3
    DEF ConversationInvariant, OnePlace, Traffic, Handshake, Opens, IsOpen,
        OpenIssue, OpenRenew, Popped, Shape, config_vars, caller_vars,
        token_vars, client_vars, channel_vars
  <2>7. (~stolen => Handshake)'
    BY ConversationFacts, <2>2, <2>3
    DEF ConversationInvariant, Traffic, Handshake, InStep, NoKeys, Opens,
        IsOpen, OpenIssue, OpenRenew, Popped, Shape, config_vars, caller_vars,
        token_vars, client_vars, channel_vars
  <2>8. (~stolen => InStep)'
    BY ConversationFacts, <2>2, <2>3
    DEF ConversationInvariant, OnePlace, Messages, Traffic, Handshake, InStep,
        NoKeys, Opens, IsOpen, OpenIssue, OpenRenew, Popped, Shape, config_vars,
        caller_vars, token_vars, client_vars, channel_vars
  <2>9. /\ QuietRenewalsAreSafe'
        /\ RequestsUnderstood'
        /\ ResponsesUnderstood'
    BY ConversationFacts, <2>2, <2>3
    DEF ConversationInvariant, QuietRenewalsAreSafe, RequestsUnderstood,
        ResponsesUnderstood, OnePlace, Messages, Traffic, Handshake, InStep,
        Opens, IsOpen, OpenIssue, OpenRenew, Popped, Shape, config_vars,
        caller_vars, token_vars, client_vars, channel_vars
  <2>. QED
    BY <2>1, <2>5, <2>6, <2>7, <2>8, <2>9 DEF ConversationInvariant
<1>15. ASSUME HandleHello, client # "closed"
      PROVE  ConversationInvariant'
  <2>. DEFINE f == Acknowledge
  <2>1. /\ up # <<>>
        /\ up' = Tail(up)
        /\ Head(up).type = "HEL"
        /\ down' = Append(down, f)
        /\ client # "closed"
        /\ UNCHANGED <<config_vars, client_vars, server, channel_vars, serving,
                         dropped>>
    BY <1>15 DEF HandleHello, Process, Written, OpenIssue, OpenRenew, token_vars
  <2>2. f \in Frames
    BY ConversationAssumption, ConversationFacts
    DEF ConversationInvariant, TypeOK, Frames, Frame, KeyPairs, NoKeys,
        OpenIssue, OpenRenew, Acknowledge
  <2>3. /\ f.type = "ACK"
    BY <2>1 DEF Frame, Acknowledge
  <2>. HIDE DEF f
  <2>4. TypeOK'
    BY <2>1, <2>2, HeadIsFrame, TailIsFrames, ConversationAssumption
    DEF ConversationInvariant, TypeOK, Policies, Frame, config_vars,
        caller_vars, token_vars, client_vars, channel_vars
  <2>5. Popped(up, up')
    BY <2>1, TailPops DEF TypeOK, ConversationInvariant
  <2>6. up[1].type = "HEL"
    BY <2>1, TailPops DEF TypeOK, ConversationInvariant
  <2>7. Pushed(down, f, down')
    BY <2>1, <2>2, AppendPushes DEF TypeOK, ConversationInvariant
  <2>8. /\ Popped(up, up')
        /\ up[1].type = "HEL"
        /\ Pushed(down, f, down')
    BY <2>5, <2>6, <2>7
  <2>9. /\ UNCHANGED <<config_vars, client_vars, server, channel_vars, serving,
                   dropped>>
        /\ client # "closed"
    BY <2>1, <2>8, ConversationFacts
    DEF Frame, IsOpen, OpenIssue, OpenRenew, TypeOK
  <2>10. /\ \A i \in Messages(up') :
              i \in Nat /\ i > 0 /\ i + 1 \in Messages(up) /\ up'[i] = up[i + 1]
         /\ 1 \in DOMAIN up
         /\ \A i \in Messages(down') :
              \/ i \in Messages(down) /\ down'[i] = down[i]
              \/ i = Len(down) + 1 /\ down'[i] = f /\ f.type = "MSG"
    BY ConversationFacts, <2>3, <2>8, <2>9 DEF Messages, Pushed, Popped, Shape
  <2>11. /\ UNCHANGED <<client, outstanding, loud>>
         /\ client # "closed"
    BY <2>9 DEF client_vars, caller_vars
  <2>12. /\ Len(up) = 1
         /\ down = <<>>
         /\ client = "connecting"
    BY <2>8, <2>11 DEF ConversationInvariant, Traffic, Popped, Shape
  <2>13. /\ up' = <<>>
         /\ Len(down') = 1
         /\ \A i \in DOMAIN down' : down'[i] = f
    BY <2>4, <2>8, <2>12 DEF Popped, Pushed, Shape, TypeOK
  <2>14. OnePlace'
    BY ConversationFacts, <2>3, <2>8, <2>10, <2>9
    DEF ConversationInvariant, OnePlace, Messages, Traffic, IsOpen, OpenIssue,
        OpenRenew, config_vars, caller_vars, token_vars, client_vars,
        channel_vars
  <2>15. Traffic'
    BY <2>3, <2>11, <2>12, <2>13
    DEF ConversationInvariant, Traffic, Opens, IsOpen, OpenIssue, OpenRenew
  <2>16. (~stolen => Handshake)'
    BY ConversationFacts, <2>3, <2>8, <2>9
    DEF ConversationInvariant, Traffic, Handshake, InStep, NoKeys, Opens,
        IsOpen, OpenIssue, OpenRenew, Pushed, Popped, Shape, config_vars,
        caller_vars, token_vars, client_vars, channel_vars
  <2>17. (~stolen => InStep)'
    BY ConversationFacts, <2>3, <2>8, <2>9
    DEF ConversationInvariant, OnePlace, Messages, Traffic, Handshake, InStep,
        NoKeys, Opens, IsOpen, OpenIssue, OpenRenew, Pushed, Popped, Shape,
        config_vars, caller_vars, token_vars, client_vars, channel_vars
  <2>18. /\ QuietRenewalsAreSafe'
         /\ RequestsUnderstood'
         /\ ResponsesUnderstood'
    BY ConversationFacts, <2>3, <2>8, <2>9
    DEF ConversationInvariant, QuietRenewalsAreSafe, RequestsUnderstood,
        ResponsesUnderstood, OnePlace, Messages, Traffic, Handshake, InStep,
        Opens, IsOpen, OpenIssue, OpenRenew, Pushed, Popped, Shape, config_vars,
        caller_vars, token_vars, client_vars, channel_vars
  <2>. QED
    BY <2>4, <2>14, <2>15, <2>16, <2>17, <2>18 DEF ConversationInvariant
<1>16. ASSUME HandleOpenNone, Head(up).type = OpenRenew, client = "closed"
      PROVE  ConversationInvariant'
  <2>1. /\ up # <<>>
        /\ up' = Tail(up)
        /\ Head(up).type = OpenRenew
        /\ policy = "None"
        /\ s_previous' = s_token
        /\ s_token' = s_token + 1
        /\ s_opened' = TRUE
        /\ client = "closed"
        /\ UNCHANGED down
        /\ UNCHANGED <<config_vars, client_vars, server, s_keys, s_nonce,
                         serving, dropped>>
    BY <1>16
    DEF HandleOpenNone, Process, Written, OpenIssue, OpenRenew, token_vars
  <2>2. TypeOK'
    BY <2>1, HeadIsFrame, TailIsFrames, ConversationAssumption
    DEF ConversationInvariant, TypeOK, Policies, Frame, config_vars,
        caller_vars, token_vars, client_vars, KeyPairs
  <2>3. /\ Popped(up, up')
        /\ up[1].type = OpenRenew
    BY <2>1, <2>2, ConversationFacts
    DEF Frame, Popped, Shape, IsOpen, OpenIssue, OpenRenew, TypeOK,
        ConversationInvariant
  <2>4. /\ policy = "None"
        /\ s_opened' = TRUE
        /\ s_previous' = s_token
        /\ s_token' = s_token + 1
        /\ UNCHANGED <<config_vars, client_vars, server, s_keys, s_nonce,
                         serving, dropped>>
        /\ client = "closed"
        /\ UNCHANGED down
    BY <2>1, <2>3, ConversationFacts
    DEF Frame, IsOpen, OpenIssue, OpenRenew, TypeOK
  <2>5. /\ \A i \in Messages(up') :
             i \in Nat /\ i > 0 /\ i + 1 \in Messages(up) /\ up'[i] = up[i + 1]
        /\ 1 \in DOMAIN up
    BY ConversationFacts, <2>3, <2>4 DEF Messages, Popped, Shape
  <2>6. /\ 1 \in Opens(up)
        /\ down' = <<>>
        /\ s_opened'
        /\ client' = "closed"
        /\ Len(up) = Len(up') + 1
        /\ \A i \in DOMAIN up' : i \in Nat /\ i > 0 /\ i + 1 \in DOMAIN up /\
           up'[i] = up[i + 1]
    BY <2>3, <2>4
    DEF ConversationInvariant, Traffic, Opens, Popped, Shape, client_vars,
        IsOpen, OpenIssue, OpenRenew
  <2>7. ~stolen => \A i \in DOMAIN up' : up'[i].type = "CLO" /\ i = Len(up')
    BY <2>3, <2>6 DEF ConversationInvariant, Handshake, Traffic, Popped, Shape
  <2>8. ~stolen => Opens(up') = {} /\ Messages(up') = {} /\ Messages(down') = {}
    BY <2>6, <2>7 DEF Opens, Messages, IsOpen, OpenIssue, OpenRenew
  <2>9. /\ UNCHANGED <<policy, c_nonce, s_keys, stolen>>
        /\ s_previous' = s_token
    BY <2>4 DEF config_vars, client_vars, token_vars
  <2>10. ~stolen => \A i \in DOMAIN up' : policy = "None" => up'[i].token =
     s_token
    BY <2>6, <2>7 DEF ConversationInvariant, InStep
  <2>11. OnePlace'
    BY ConversationFacts, <2>3, <2>5, <2>4
    DEF ConversationInvariant, OnePlace, Messages, Traffic, IsOpen, OpenIssue,
        OpenRenew, config_vars, caller_vars, token_vars, client_vars
  <2>12. Traffic'
    BY ConversationFacts, <2>3, <2>4
    DEF ConversationInvariant, OnePlace, Traffic, Handshake, Opens, IsOpen,
        OpenIssue, OpenRenew, Popped, Shape, config_vars, caller_vars,
        token_vars, client_vars
  <2>13. (~stolen => Handshake)'
    BY ConversationFacts, <2>3, <2>4
    DEF ConversationInvariant, Traffic, Handshake, InStep, NoKeys, Opens,
        IsOpen, OpenIssue, OpenRenew, Popped, Shape, config_vars, caller_vars,
        token_vars, client_vars
  <2>14. (~stolen => InStep)'
    BY <2>6, <2>8, <2>9, <2>10, ConversationFacts
    DEF ConversationInvariant, InStep
  <2>15. /\ QuietRenewalsAreSafe'
         /\ RequestsUnderstood'
         /\ ResponsesUnderstood'
    BY ConversationFacts, <2>3, <2>4
    DEF ConversationInvariant, QuietRenewalsAreSafe, RequestsUnderstood,
        ResponsesUnderstood, OnePlace, Messages, Traffic, Handshake, InStep,
        Opens, IsOpen, OpenIssue, OpenRenew, Popped, Shape, config_vars,
        caller_vars, token_vars, client_vars
  <2>. QED
    BY <2>2, <2>11, <2>12, <2>13, <2>14, <2>15 DEF ConversationInvariant
<1>17. ASSUME HandleOpenNone, Head(up).type = OpenRenew, client # "closed"
      PROVE  ConversationInvariant'
  <2>. DEFINE f == OpenResponse(Head(up), s_token', 0)
  <2>1. /\ up # <<>>
        /\ up' = Tail(up)
        /\ Head(up).type = OpenRenew
        /\ policy = "None"
        /\ s_previous' = s_token
        /\ s_token' = s_token + 1
        /\ s_opened' = TRUE
        /\ client # "closed"
        /\ down' = Append(down, f)
        /\ UNCHANGED <<config_vars, client_vars, server, s_keys, s_nonce,
                         serving, dropped>>
    BY <1>17
    DEF HandleOpenNone, Process, Written, OpenIssue, OpenRenew, token_vars
  <2>2. /\ Head(up).type \in {OpenIssue, OpenRenew}
        /\ Head(up).keys[1] \in Nat
        /\ s_token' \in Nat
    BY <2>1, HeadIsFrame, ConversationAssumption
    DEF ConversationInvariant, TypeOK, OnePlace, Messages, OpenIssue, OpenRenew,
        Frame
  <2>3. f \in Frames
    BY <2>2, ConversationAssumption, ConversationFacts
    DEF ConversationInvariant, TypeOK, Frames, Frame, KeyPairs, NoKeys,
        OpenIssue, OpenRenew, OpenResponse
  <2>4. /\ f.type = OpenRenew
        /\ f.token = s_token'
        /\ f.keys[2] = 0
    BY <2>1 DEF Frame, OpenResponse
  <2>. HIDE DEF f
  <2>5. TypeOK'
    BY <2>1, <2>2, <2>3, HeadIsFrame, TailIsFrames, ConversationAssumption
    DEF ConversationInvariant, TypeOK, Policies, Frame, config_vars,
        caller_vars, token_vars, client_vars, KeyPairs
  <2>6. /\ Popped(up, up')
        /\ up[1].type = OpenRenew
        /\ up[1] = Head(up)
        /\ Pushed(down, f, down')
    BY <2>1, <2>5, <2>3, ConversationFacts
    DEF Frame, Pushed, Popped, Shape, IsOpen, OpenIssue, OpenRenew, TypeOK,
        ConversationInvariant
  <2>7. /\ policy = "None"
        /\ s_opened' = TRUE
        /\ s_previous' = s_token
        /\ UNCHANGED <<config_vars, client_vars, server, s_keys, s_nonce,
                         serving, dropped>>
        /\ client # "closed"
    BY <2>1, <2>6, <2>2, ConversationFacts
    DEF Frame, IsOpen, OpenIssue, OpenRenew, TypeOK
  <2>8. /\ \A i \in Messages(up') :
             i \in Nat /\ i > 0 /\ i + 1 \in Messages(up) /\ up'[i] = up[i + 1]
        /\ 1 \in DOMAIN up
        /\ \A i \in Messages(down') :
             \/ i \in Messages(down) /\ down'[i] = down[i]
             \/ i = Len(down) + 1 /\ down'[i] = f /\ f.type = "MSG"
    BY ConversationFacts, <2>4, <2>6, <2>7 DEF Messages, Pushed, Popped, Shape
  <2>9. client \notin {"idle", "connecting", "closed"}
    BY <2>6, <2>7
    DEF ConversationInvariant, Traffic, Popped, Opens, IsOpen, OpenIssue,
        OpenRenew, Shape
  <2>10. /\ \A i \in DOMAIN up : up[i].type \notin {"HEL", "ACK", "CLO"}
         /\ \A i \in DOMAIN down : down[i].type \notin {"HEL", "ACK", "CLO"}
    BY <2>9 DEF ConversationInvariant, Traffic
  <2>11. \A i \in DOMAIN up' : up'[i].type \notin {"HEL", "ACK", "CLO"}
    BY <2>6, <2>10 DEF Popped, Shape
  <2>12. \A i \in DOMAIN down' : down'[i].type \notin {"HEL", "ACK", "CLO"}
    BY <2>4, <2>6, <2>10 DEF Pushed, Shape, OpenIssue, OpenRenew
  <2>13. 1 \in Opens(up)
    BY <2>6 DEF Opens, Popped, Shape, IsOpen, OpenIssue, OpenRenew
  <2>14. ~stolen => /\ Opens(down) = {}
                    /\ \A j \in DOMAIN up : ~(j > 1)
    BY <2>10, <2>13 DEF ConversationInvariant, Handshake
  <2>15. ~stolen => Messages(up') = {} /\ DOMAIN up' = {}
    BY <2>6, <2>14 DEF Popped, Shape, Messages
  <2>16. ~stolen => \A i \in Opens(down') : i = Len(down) + 1
    BY <2>6, <2>14 DEF Opens, Pushed, Shape
  <2>17. /\ Len(down) + 1 \in Opens(down')
         /\ \A i \in Messages(down') : i \in Messages(down) /\ i \in Nat /\ i <
            Len(down) + 1 /\ down'[i] = down[i]
    BY <2>4, <2>6
    DEF Opens, Messages, Pushed, Shape, IsOpen, OpenIssue, OpenRenew
  <2>18. /\ UNCHANGED <<policy, client, c_token, c_keys, c_nonce, stolen,
                   s_keys>>
         /\ s_opened' /\ Len(down) \in Nat
    BY <2>6, <2>7 DEF config_vars, client_vars, token_vars, Pushed, Shape
  <2>19. ~stolen => \A i \in Messages(down') : ~\E j \in Opens(down') : j < i
    BY <2>16, <2>17, <2>18
  <2>20. ~stolen => \A i \in Messages(down') : down'[i].token = c_token /\
     down'[i].keys = c_keys
    BY <2>14, <2>17 DEF ConversationInvariant, InStep
  <2>21. ~stolen => client = "renewing" \/ client = "opening"
    BY <2>9, <2>13 DEF ConversationInvariant, Handshake
  <2>22. ~stolen => /\ client = "renewing" => s_token = c_token
                    /\ s_keys = <<c_nonce, 0>>
    BY <2>7, <2>14 DEF ConversationInvariant, InStep, NoKeys
  <2>23. up' \in Seq(Frames)
    BY <2>5 DEF TypeOK
  <2>24. ~stolen => up' = <<>> /\ Opens(up') = {}
    BY <2>15, <2>23 DEF Opens
  <2>25. /\ down'[Len(down) + 1] = f
         /\ f.token = s_token'
         /\ f.keys[2] = 0
         /\ s_previous' = s_token
    BY <2>4, <2>6, <2>7 DEF Pushed
  <2>26. OnePlace'
    BY ConversationFacts, <2>4, <2>6, <2>8, <2>7
    DEF ConversationInvariant, OnePlace, Messages, Traffic, IsOpen, OpenIssue,
        OpenRenew, config_vars, caller_vars, token_vars, client_vars
  <2>27. Traffic'
    BY <2>7, <2>9, <2>11, <2>12
    DEF ConversationInvariant, Traffic, client_vars, caller_vars
  <2>28. (~stolen => Handshake)'
    BY <2>16, <2>18, <2>22, <2>21, <2>24, <2>25 DEF Handshake
  <2>29. (~stolen => InStep)'
    BY <2>15, <2>17, <2>18, <2>19, <2>20 DEF ConversationInvariant, InStep
  <2>30. /\ QuietRenewalsAreSafe'
         /\ RequestsUnderstood'
         /\ ResponsesUnderstood'
    BY ConversationFacts, <2>4, <2>6, <2>7
    DEF ConversationInvariant, QuietRenewalsAreSafe, RequestsUnderstood,
        ResponsesUnderstood, OnePlace, Messages, Traffic, Handshake, InStep,
        Opens, IsOpen, OpenIssue, OpenRenew, Pushed, Popped, Shape, config_vars,
        caller_vars, token_vars, client_vars
  <2>. QED
    BY <2>5, <2>26, <2>27, <2>28, <2>29, <2>30 DEF ConversationInvariant
<1>18. ASSUME HandleOpenNone, Head(up).type = OpenIssue, client = "closed"
      PROVE  ConversationInvariant'
  <2>1. /\ up # <<>>
        /\ up' = Tail(up)
        /\ Head(up).type = OpenIssue
        /\ policy = "None"
        /\ UNCHANGED <<s_previous, s_token>>
        /\ s_opened' = TRUE
        /\ client = "closed"
        /\ UNCHANGED down
        /\ UNCHANGED <<config_vars, client_vars, server, s_keys, s_nonce,
                         serving, dropped>>
    BY <1>18
    DEF HandleOpenNone, Process, Written, OpenIssue, OpenRenew, token_vars
  <2>2. TypeOK'
    BY <2>1, HeadIsFrame, TailIsFrames, ConversationAssumption
    DEF ConversationInvariant, TypeOK, Policies, Frame, config_vars,
        caller_vars, token_vars, client_vars, KeyPairs
  <2>3. /\ Popped(up, up')
        /\ up[1].type = OpenIssue
    BY <2>1, <2>2, ConversationFacts
    DEF Frame, Popped, Shape, IsOpen, OpenIssue, OpenRenew, TypeOK,
        ConversationInvariant
  <2>4. /\ policy = "None"
        /\ s_opened' = TRUE
        /\ UNCHANGED <<s_previous, s_token>>
        /\ UNCHANGED <<config_vars, client_vars, server, s_keys, s_nonce,
                         serving, dropped>>
        /\ client = "closed"
        /\ UNCHANGED down
    BY <2>1, <2>3, ConversationFacts
    DEF Frame, IsOpen, OpenIssue, OpenRenew, TypeOK
  <2>5. /\ \A i \in Messages(up') :
             i \in Nat /\ i > 0 /\ i + 1 \in Messages(up) /\ up'[i] = up[i + 1]
        /\ 1 \in DOMAIN up
    BY ConversationFacts, <2>3, <2>4 DEF Messages, Popped, Shape
  <2>6. OnePlace'
    BY ConversationFacts, <2>3, <2>5, <2>4
    DEF ConversationInvariant, OnePlace, Messages, Traffic, IsOpen, OpenIssue,
        OpenRenew, config_vars, caller_vars, token_vars, client_vars
  <2>7. Traffic'
    BY ConversationFacts, <2>3, <2>4
    DEF ConversationInvariant, OnePlace, Traffic, Handshake, Opens, IsOpen,
        OpenIssue, OpenRenew, Popped, Shape, config_vars, caller_vars,
        token_vars, client_vars
  <2>8. (~stolen => Handshake)'
    BY ConversationFacts, <2>3, <2>4
    DEF ConversationInvariant, Traffic, Handshake, InStep, NoKeys, Opens,
        IsOpen, OpenIssue, OpenRenew, Popped, Shape, config_vars, caller_vars,
        token_vars, client_vars
  <2>9. (~stolen => InStep)'
    BY ConversationFacts, <2>3, <2>4
    DEF ConversationInvariant, OnePlace, Messages, Traffic, Handshake, InStep,
        NoKeys, Opens, IsOpen, OpenIssue, OpenRenew, Popped, Shape, config_vars,
        caller_vars, token_vars, client_vars
  <2>10. /\ QuietRenewalsAreSafe'
         /\ RequestsUnderstood'
         /\ ResponsesUnderstood'
    BY ConversationFacts, <2>3, <2>4
    DEF ConversationInvariant, QuietRenewalsAreSafe, RequestsUnderstood,
        ResponsesUnderstood, OnePlace, Messages, Traffic, Handshake, InStep,
        Opens, IsOpen, OpenIssue, OpenRenew, Popped, Shape, config_vars,
        caller_vars, token_vars, client_vars
  <2>. QED
    BY <2>2, <2>6, <2>7, <2>8, <2>9, <2>10 DEF ConversationInvariant
<1>19. ASSUME HandleOpenNone, Head(up).type = OpenIssue, client # "closed"
      PROVE  ConversationInvariant'
  <2>. DEFINE f == OpenResponse(Head(up), s_token', 0)
  <2>1. /\ up # <<>>
        /\ up' = Tail(up)
        /\ Head(up).type = OpenIssue
        /\ policy = "None"
        /\ UNCHANGED <<s_previous, s_token>>
        /\ s_opened' = TRUE
        /\ client # "closed"
        /\ down' = Append(down, f)
        /\ UNCHANGED <<config_vars, client_vars, server, s_keys, s_nonce,
                         serving, dropped>>
    BY <1>19
    DEF HandleOpenNone, Process, Written, OpenIssue, OpenRenew, token_vars
  <2>2. /\ Head(up).type \in {OpenIssue, OpenRenew}
        /\ Head(up).keys[1] \in Nat
        /\ s_token' \in Nat
    BY <2>1, HeadIsFrame, ConversationAssumption
    DEF ConversationInvariant, TypeOK, OnePlace, Messages, OpenIssue, OpenRenew,
        Frame
  <2>3. f \in Frames
    BY <2>2, ConversationAssumption, ConversationFacts
    DEF ConversationInvariant, TypeOK, Frames, Frame, KeyPairs, NoKeys,
        OpenIssue, OpenRenew, OpenResponse
  <2>4. /\ f.type = OpenIssue
        /\ f.token = s_token'
        /\ f.keys[2] = 0
    BY <2>1 DEF Frame, OpenResponse
  <2>. HIDE DEF f
  <2>5. TypeOK'
    BY <2>1, <2>2, <2>3, HeadIsFrame, TailIsFrames, ConversationAssumption
    DEF ConversationInvariant, TypeOK, Policies, Frame, config_vars,
        caller_vars, token_vars, client_vars, KeyPairs
  <2>6. /\ Popped(up, up')
        /\ up[1].type = OpenIssue
        /\ up[1] = Head(up)
        /\ Pushed(down, f, down')
    BY <2>1, <2>5, <2>3, ConversationFacts
    DEF Frame, Pushed, Popped, Shape, IsOpen, OpenIssue, OpenRenew, TypeOK,
        ConversationInvariant
  <2>7. /\ policy = "None"
        /\ s_opened' = TRUE
        /\ UNCHANGED <<s_previous, s_token>>
        /\ UNCHANGED <<config_vars, client_vars, server, s_keys, s_nonce,
                         serving, dropped>>
        /\ client # "closed"
    BY <2>1, <2>6, <2>2, ConversationFacts
    DEF Frame, IsOpen, OpenIssue, OpenRenew, TypeOK
  <2>8. /\ \A i \in Messages(up') :
             i \in Nat /\ i > 0 /\ i + 1 \in Messages(up) /\ up'[i] = up[i + 1]
        /\ 1 \in DOMAIN up
        /\ \A i \in Messages(down') :
             \/ i \in Messages(down) /\ down'[i] = down[i]
             \/ i = Len(down) + 1 /\ down'[i] = f /\ f.type = "MSG"
    BY ConversationFacts, <2>4, <2>6, <2>7 DEF Messages, Pushed, Popped, Shape
  <2>9. client \notin {"idle", "connecting", "closed"}
    BY <2>6, <2>7
    DEF ConversationInvariant, Traffic, Popped, Opens, IsOpen, OpenIssue,
        OpenRenew, Shape
  <2>10. /\ \A i \in DOMAIN up : up[i].type \notin {"HEL", "ACK", "CLO"}
         /\ \A i \in DOMAIN down : down[i].type \notin {"HEL", "ACK", "CLO"}
    BY <2>9 DEF ConversationInvariant, Traffic
  <2>11. \A i \in DOMAIN up' : up'[i].type \notin {"HEL", "ACK", "CLO"}
    BY <2>6, <2>10 DEF Popped, Shape
  <2>12. \A i \in DOMAIN down' : down'[i].type \notin {"HEL", "ACK", "CLO"}
    BY <2>4, <2>6, <2>10 DEF Pushed, Shape, OpenIssue, OpenRenew
  <2>13. ~stolen => client = "opening"
    BY <2>6, <2>7, ConversationFacts
    DEF ConversationInvariant, Handshake, Popped, Shape, Opens, IsOpen,
        OpenIssue, OpenRenew
  <2>14. OnePlace'
    BY ConversationFacts, <2>4, <2>6, <2>8, <2>7
    DEF ConversationInvariant, OnePlace, Messages, Traffic, IsOpen, OpenIssue,
        OpenRenew, config_vars, caller_vars, token_vars, client_vars
  <2>15. Traffic'
    BY <2>7, <2>9, <2>11, <2>12
    DEF ConversationInvariant, Traffic, client_vars, caller_vars
  <2>16. (~stolen => Handshake)'
    BY ConversationFacts, <2>4, <2>6, <2>7, <2>13
    DEF ConversationInvariant, Traffic, Handshake, InStep, NoKeys, Opens,
        IsOpen, OpenIssue, OpenRenew, Pushed, Popped, Shape, config_vars,
        caller_vars, token_vars, client_vars
  <2>17. (~stolen => InStep)'
    BY ConversationFacts, <2>4, <2>6, <2>7
    DEF ConversationInvariant, OnePlace, Messages, Traffic, Handshake, InStep,
        NoKeys, Opens, IsOpen, OpenIssue, OpenRenew, Pushed, Popped, Shape,
        config_vars, caller_vars, token_vars, client_vars
  <2>18. /\ QuietRenewalsAreSafe'
         /\ RequestsUnderstood'
         /\ ResponsesUnderstood'
    BY ConversationFacts, <2>4, <2>6, <2>7
    DEF ConversationInvariant, QuietRenewalsAreSafe, RequestsUnderstood,
        ResponsesUnderstood, OnePlace, Messages, Traffic, Handshake, InStep,
        Opens, IsOpen, OpenIssue, OpenRenew, Pushed, Popped, Shape, config_vars,
        caller_vars, token_vars, client_vars
  <2>. QED
    BY <2>5, <2>14, <2>15, <2>16, <2>17, <2>18 DEF ConversationInvariant
<1>20. ASSUME HandleOpenSecure, client = "closed"
      PROVE  ConversationInvariant'
  <2>1. /\ up # <<>>
        /\ up' = Tail(up)
        /\ Head(up).type \in {OpenIssue, OpenRenew}
        /\ policy = "Basic256Sha256"
        /\ s_token' = IF Head(up).type = OpenRenew THEN s_token + 1 ELSE s_token
        /\ s_nonce' = s_nonce + 1
        /\ s_keys' = <<Head(up).keys[1], s_nonce'>>
        /\ s_opened' = TRUE
        /\ client = "closed"
        /\ UNCHANGED down
        /\ UNCHANGED <<config_vars, client_vars, server, s_previous, serving,
                         dropped>>
    BY <1>20
    DEF HandleOpenSecure, Process, Written, OpenIssue, OpenRenew, token_vars
  <2>2. up' \in Seq(Frames)
    BY <2>1, TailIsFrames DEF ConversationInvariant, TypeOK
  <2>3. /\ Head(up).keys[1] \in Nat
        /\ s_nonce' \in Nat
    BY <2>1, HeadIsFrame DEF ConversationInvariant, TypeOK
  <2>4. s_token' \in Nat \ {0}
    BY <2>1 DEF ConversationInvariant, TypeOK
  <2>5. s_keys' \in KeyPairs /\ s_opened' \in BOOLEAN
    BY <2>1, <2>3 DEF KeyPairs
  <2>6. TypeOK'
    BY <2>1, <2>2, <2>5, <2>3, <2>4
    DEF ConversationInvariant, TypeOK, config_vars, client_vars, caller_vars,
        token_vars
  <2>7. /\ Popped(up, up')
        /\ IsOpen(up[1])
    BY <2>1, <2>6, ConversationFacts
    DEF Frame, Popped, Shape, IsOpen, OpenIssue, OpenRenew, TypeOK,
        ConversationInvariant
  <2>8. /\ policy = "Basic256Sha256"
        /\ s_opened' = TRUE
        /\ UNCHANGED <<config_vars, client_vars, server, s_previous, serving,
                         dropped>>
        /\ client = "closed"
        /\ UNCHANGED down
    BY <2>1, <2>7, ConversationFacts
    DEF Frame, IsOpen, OpenIssue, OpenRenew, TypeOK
  <2>9. /\ \A i \in Messages(up') :
             i \in Nat /\ i > 0 /\ i + 1 \in Messages(up) /\ up'[i] = up[i + 1]
        /\ 1 \in DOMAIN up
    BY ConversationFacts, <2>7, <2>8 DEF Messages, Popped, Shape
  <2>10. OnePlace'
    BY ConversationFacts, <2>7, <2>9, <2>8
    DEF ConversationInvariant, OnePlace, Messages, Traffic, IsOpen, OpenIssue,
        OpenRenew, config_vars, caller_vars, token_vars, client_vars
  <2>11. Traffic'
    BY ConversationFacts, <2>7, <2>8
    DEF ConversationInvariant, OnePlace, Traffic, Handshake, Opens, IsOpen,
        OpenIssue, OpenRenew, Popped, Shape, config_vars, caller_vars,
        token_vars, client_vars
  <2>12. (~stolen => Handshake)'
    BY ConversationFacts, <2>7, <2>8
    DEF ConversationInvariant, Traffic, Handshake, InStep, NoKeys, Opens,
        IsOpen, OpenIssue, OpenRenew, Popped, Shape, config_vars, caller_vars,
        token_vars, client_vars
  <2>13. (~stolen => InStep)'
    BY ConversationFacts, <2>7, <2>8
    DEF ConversationInvariant, OnePlace, Messages, Traffic, Handshake, InStep,
        NoKeys, Opens, IsOpen, OpenIssue, OpenRenew, Popped, Shape, config_vars,
        caller_vars, token_vars, client_vars
  <2>14. /\ QuietRenewalsAreSafe'
         /\ RequestsUnderstood'
         /\ ResponsesUnderstood'
    BY ConversationFacts, <2>7, <2>8
    DEF ConversationInvariant, QuietRenewalsAreSafe, RequestsUnderstood,
        ResponsesUnderstood, OnePlace, Messages, Traffic, Handshake, InStep,
        Opens, IsOpen, OpenIssue, OpenRenew, Popped, Shape, config_vars,
        caller_vars, token_vars, client_vars
  <2>. QED
    BY <2>6, <2>10, <2>11, <2>12, <2>13, <2>14 DEF ConversationInvariant
<1>21. ASSUME HandleOpenSecure, client # "closed"
      PROVE  ConversationInvariant'
  <2>. DEFINE f == OpenResponse(Head(up), s_token', s_nonce')
  <2>1. /\ up # <<>>
        /\ up' = Tail(up)
        /\ Head(up).type \in {OpenIssue, OpenRenew}
        /\ policy = "Basic256Sha256"
        /\ s_token' = IF Head(up).type = OpenRenew THEN s_token + 1 ELSE s_token
        /\ s_nonce' = s_nonce + 1
        /\ s_keys' = <<Head(up).keys[1], s_nonce'>>
        /\ s_opened' = TRUE
        /\ client # "closed"
        /\ down' = Append(down, f)
        /\ UNCHANGED <<config_vars, client_vars, server, s_previous, serving,
                         dropped>>
    BY <1>21
    DEF HandleOpenSecure, Process, Written, OpenIssue, OpenRenew, token_vars
  <2>2. /\ Head(up).type \in {OpenIssue, OpenRenew}
        /\ Head(up).keys[1] \in Nat
        /\ s_token' \in Nat
        /\ s_nonce' \in Nat
    BY <2>1, HeadIsFrame, ConversationAssumption
    DEF ConversationInvariant, TypeOK, OnePlace, Messages, OpenIssue, OpenRenew,
        Frame
  <2>3. f \in Frames
    BY <2>2, ConversationAssumption, ConversationFacts
    DEF ConversationInvariant, TypeOK, Frames, Frame, KeyPairs, NoKeys,
        OpenIssue, OpenRenew, OpenResponse
  <2>4. /\ f.type = Head(up).type
        /\ f.token = s_token'
        /\ f.keys[2] = s_nonce'
    BY <2>1 DEF Frame, OpenResponse
  <2>. HIDE DEF f
  <2>5. /\ up' \in Seq(Frames)
        /\ down' \in Seq(Frames)
    BY <2>1, <2>3, TailIsFrames DEF ConversationInvariant, TypeOK
  <2>6. /\ s_token' \in Nat \ {0}
        /\ s_keys' \in KeyPairs
        /\ s_nonce' \in Nat
        /\ s_opened' \in BOOLEAN
    BY <2>1, <2>2 DEF ConversationInvariant, TypeOK, KeyPairs
  <2>7. TypeOK'
    BY <2>1, <2>5, <2>6
    DEF ConversationInvariant, TypeOK, config_vars, client_vars, caller_vars,
        token_vars
  <2>8. Popped(up, up')
    BY <2>1, TailPops DEF TypeOK, ConversationInvariant
  <2>9. IsOpen(up[1])
    BY <2>1, TailPops
    DEF TypeOK, ConversationInvariant, Opens, IsOpen, OpenIssue, OpenRenew
  <2>10. up[1] = Head(up)
    BY <2>1, TailPops DEF TypeOK, ConversationInvariant
  <2>11. s_keys' = <<up[1].keys[1], s_nonce'>>
    BY <2>1, TailPops DEF TypeOK, ConversationInvariant
  <2>12. Pushed(down, f, down')
    BY <2>1, <2>3, AppendPushes DEF TypeOK, ConversationInvariant
  <2>13. /\ Popped(up, up')
         /\ IsOpen(up[1])
         /\ up[1] = Head(up)
         /\ s_keys' = <<up[1].keys[1], s_nonce'>>
         /\ Pushed(down, f, down')
    BY <2>8, <2>9, <2>10, <2>11, <2>12
  <2>14. /\ policy = "Basic256Sha256"
         /\ s_opened' = TRUE
         /\ UNCHANGED <<config_vars, client_vars, server, s_previous, serving,
                          dropped>>
         /\ client # "closed"
    BY <2>1, <2>13, <2>2, ConversationFacts
    DEF Frame, IsOpen, OpenIssue, OpenRenew, TypeOK
  <2>15. /\ \A i \in Messages(up') :
              i \in Nat /\ i > 0 /\ i + 1 \in Messages(up) /\ up'[i] = up[i + 1]
         /\ 1 \in DOMAIN up
         /\ \A i \in Messages(down') :
              \/ i \in Messages(down) /\ down'[i] = down[i]
              \/ i = Len(down) + 1 /\ down'[i] = f /\ f.type = "MSG"
    BY ConversationFacts, <2>4, <2>13, <2>14 DEF Messages, Pushed, Popped, Shape
  <2>16. 1 \in Opens(up)
    BY <2>13 DEF Opens, Popped, Shape
  <2>17. \A i \in DOMAIN up : up[i].type \notin {"CLO"}
    BY <2>14 DEF ConversationInvariant, Traffic
  <2>18. ~stolen => /\ client \in {"opening", "renewing"}
                    /\ up[1].keys[1] = c_nonce
                    /\ Opens(down) = {}
                    /\ \A j \in DOMAIN up : ~(j > 1)
    BY <2>14, <2>16, <2>17 DEF ConversationInvariant, Handshake
  <2>19. ~stolen => Len(up') = 0
    BY <2>13, <2>18 DEF Popped, Shape
  <2>20. up' \in Seq(Frames)
    BY <2>7 DEF TypeOK
  <2>21. ~stolen => up' = <<>>
    BY <2>19, <2>20
  <2>22. ~stolen => \A i \in Opens(down') : down'[i] = f /\ i = Len(down) + 1
    BY <2>13, <2>18 DEF Opens, Pushed, Shape
  <2>23. ~stolen => Opens(up') = {}
    BY <2>21 DEF Opens
  <2>24. client \notin {"idle", "connecting", "closed"}
    BY <2>13, <2>14, <2>16
    DEF ConversationInvariant, Traffic, Opens, Popped, Shape
  <2>25. /\ \A i \in DOMAIN up : up[i].type \notin {"HEL", "ACK", "CLO"}
         /\ \A i \in DOMAIN down : down[i].type \notin {"HEL", "ACK", "CLO"}
    BY <2>24 DEF ConversationInvariant, Traffic
  <2>26. \A i \in DOMAIN up' : up'[i].type \notin {"HEL", "ACK", "CLO"}
    BY <2>13, <2>25 DEF Popped, Shape
  <2>27. \A i \in DOMAIN down' : down'[i].type \notin {"HEL", "ACK", "CLO"}
    BY <2>4, <2>13, <2>25 DEF Pushed, Shape, IsOpen, OpenIssue, OpenRenew
  <2>28. OnePlace'
    BY ConversationFacts, <2>4, <2>13, <2>15, <2>14
    DEF ConversationInvariant, OnePlace, Messages, Traffic, IsOpen, OpenIssue,
        OpenRenew, config_vars, caller_vars, token_vars, client_vars
  <2>29. Traffic'
    BY <2>14, <2>24, <2>26, <2>27
    DEF ConversationInvariant, Traffic, client_vars, caller_vars
  <2>30. (~stolen => Handshake)'
    BY <2>4, <2>13, <2>14, <2>18, <2>21, <2>22, <2>23
    DEF Handshake, config_vars, client_vars, token_vars
  <2>31. (~stolen => InStep)'
    BY ConversationFacts, <2>4, <2>13, <2>14
    DEF ConversationInvariant, OnePlace, Messages, Traffic, Handshake, InStep,
        NoKeys, Opens, IsOpen, OpenIssue, OpenRenew, Pushed, Popped, Shape,
        config_vars, caller_vars, token_vars, client_vars
  <2>32. /\ QuietRenewalsAreSafe'
         /\ RequestsUnderstood'
         /\ ResponsesUnderstood'
    BY ConversationFacts, <2>4, <2>13, <2>14
    DEF ConversationInvariant, QuietRenewalsAreSafe, RequestsUnderstood,
        ResponsesUnderstood, OnePlace, Messages, Traffic, Handshake, InStep,
        Opens, IsOpen, OpenIssue, OpenRenew, Pushed, Popped, Shape, config_vars,
        caller_vars, token_vars, client_vars
  <2>. QED
    BY <2>7, <2>28, <2>29, <2>30, <2>31, <2>32 DEF ConversationInvariant
<1>22. ASSUME RefuseOpen
      PROVE  ConversationInvariant'
  <2>1. TypeOK'
    BY <1>22, HeadIsFrame, TailIsFrames, ConversationAssumption
    DEF ConversationInvariant, TypeOK, Policies, RefuseOpen, Process,
        config_vars, caller_vars, token_vars, client_vars, channel_vars
  <2>2. /\ Popped(up, up')
    BY <1>22, <2>1, ConversationFacts
    DEF RefuseOpen, Process, Popped, Shape, IsOpen, OpenIssue, OpenRenew,
        TypeOK, ConversationInvariant
  <2>3. /\ UNCHANGED <<config_vars, client_vars, channel_vars, serving, dropped,
                   down>>
    BY <1>22, ConversationFacts
    DEF RefuseOpen, Process, IsOpen, OpenIssue, OpenRenew, TypeOK
  <2>4. /\ \A i \in Messages(up') :
             i \in Nat /\ i > 0 /\ i + 1 \in Messages(up) /\ up'[i] = up[i + 1]
        /\ 1 \in DOMAIN up
    BY ConversationFacts, <2>2, <2>3 DEF Messages, Popped, Shape
  <2>5. OnePlace'
    BY ConversationFacts, <2>2, <2>4, <2>3
    DEF ConversationInvariant, OnePlace, Messages, Traffic, IsOpen, OpenIssue,
        OpenRenew, config_vars, caller_vars, token_vars, client_vars,
        channel_vars
  <2>6. Traffic'
    BY ConversationFacts, <2>2, <2>3
    DEF ConversationInvariant, OnePlace, Traffic, Handshake, Opens, IsOpen,
        OpenIssue, OpenRenew, Popped, Shape, config_vars, caller_vars,
        token_vars, client_vars, channel_vars
  <2>7. (~stolen => Handshake)'
    BY ConversationFacts, <2>2, <2>3
    DEF ConversationInvariant, Traffic, Handshake, InStep, NoKeys, Opens,
        IsOpen, OpenIssue, OpenRenew, Popped, Shape, config_vars, caller_vars,
        token_vars, client_vars, channel_vars
  <2>8. (~stolen => InStep)'
    BY ConversationFacts, <2>2, <2>3
    DEF ConversationInvariant, OnePlace, Messages, Traffic, Handshake, InStep,
        NoKeys, Opens, IsOpen, OpenIssue, OpenRenew, Popped, Shape, config_vars,
        caller_vars, token_vars, client_vars, channel_vars
  <2>9. /\ QuietRenewalsAreSafe'
        /\ RequestsUnderstood'
        /\ ResponsesUnderstood'
    BY ConversationFacts, <2>2, <2>3
    DEF ConversationInvariant, QuietRenewalsAreSafe, RequestsUnderstood,
        ResponsesUnderstood, OnePlace, Messages, Traffic, Handshake, InStep,
        Opens, IsOpen, OpenIssue, OpenRenew, Popped, Shape, config_vars,
        caller_vars, token_vars, client_vars, channel_vars
  <2>. QED
    BY <2>1, <2>5, <2>6, <2>7, <2>8, <2>9 DEF ConversationInvariant
<1>23. ASSUME HandleMessage
      PROVE  ConversationInvariant'
  <2>1. /\ Head(up).id \in Requests
    BY <1>23, HeadIsFrame, ConversationAssumption
    DEF ConversationInvariant, TypeOK, OnePlace, Messages, OpenIssue, OpenRenew,
        HandleMessage, Process
  <2>2. TypeOK'
    BY <1>23, <2>1, HeadIsFrame, TailIsFrames, ConversationAssumption
    DEF ConversationInvariant, TypeOK, Policies, HandleMessage, Process,
        config_vars, caller_vars, token_vars, client_vars, channel_vars
  <2>3. /\ Popped(up, up')
        /\ up[1].type = "MSG"
    BY <1>23, <2>2, ConversationFacts
    DEF HandleMessage, Process, Popped, Shape, IsOpen, OpenIssue, OpenRenew,
        TypeOK, ConversationInvariant
  <2>4. /\ serving' = serving \cup {up[1].id}
        /\ UNCHANGED <<config_vars, client_vars, server, channel_vars, dropped,
                         down>>
    BY <1>23, <2>1, ConversationFacts
    DEF HandleMessage, Process, IsOpen, OpenIssue, OpenRenew, TypeOK
  <2>5. /\ \A i \in Messages(up') :
             i \in Nat /\ i > 0 /\ i + 1 \in Messages(up) /\ up'[i] = up[i + 1]
        /\ 1 \in DOMAIN up
        /\ 1 \in Messages(up)
    BY ConversationFacts, <2>3, <2>4 DEF Messages, Popped, Shape
  <2>6. /\ UNCHANGED <<policy, client, outstanding, c_token, c_keys, c_nonce,
                   loud, stolen, down>>
         /\ UNCHANGED <<s_opened, s_token, s_previous, s_keys>>
    BY <2>4 DEF config_vars, client_vars, caller_vars, token_vars, channel_vars
  <2>7. /\ \A i \in DOMAIN up' : i + 1 \in DOMAIN up /\ up'[i] = up[i + 1]
        /\ Len(up) = Len(up') + 1 /\ Len(up') \in Nat
    BY <2>3 DEF Popped, Shape
  <2>8. Opens(up) = {} => Opens(up') = {}
    BY <2>7 DEF Opens
  <2>9. ~stolen => InStep
    BY DEF ConversationInvariant
  <2>10. \A i \in DOMAIN up' : up'[i].type # "HEL" /\ up'[i].type # "ACK"
    BY <2>3, <2>7 DEF ConversationInvariant, Traffic, Popped, Shape
  <2>11. Traffic
    BY DEF ConversationInvariant
  <2>12. up # <<>>
    BY <2>3 DEF Popped, Shape
  <2>13. \A i \in DOMAIN down' : down'[i].type # "ACK"
    BY <2>6, <2>11, <2>12 DEF Traffic
  <2>14. OnePlace'
    BY <2>4, <2>5
    DEF ConversationInvariant, OnePlace, config_vars, caller_vars, token_vars,
        client_vars, channel_vars
  <2>15. Traffic'
    BY <2>6, <2>7, <2>8, <2>10, <2>11, <2>12, <2>13 DEF Traffic, Shape, Opens
  <2>16. (~stolen => Handshake)'
    BY ConversationFacts, <2>3, <2>4
    DEF ConversationInvariant, Traffic, Handshake, InStep, NoKeys, Opens,
        IsOpen, OpenIssue, OpenRenew, Popped, Shape, config_vars, caller_vars,
        token_vars, client_vars, channel_vars
  <2>17. (~stolen => InStep)'
    BY <2>5, <2>6, <2>7, <2>8, <2>9 DEF InStep, Messages, Opens
  <2>18. /\ QuietRenewalsAreSafe'
         /\ RequestsUnderstood'
         /\ ResponsesUnderstood'
    BY ConversationFacts, <2>3, <2>4
    DEF ConversationInvariant, QuietRenewalsAreSafe, RequestsUnderstood,
        ResponsesUnderstood, OnePlace, Messages, Traffic, Handshake, InStep,
        Opens, IsOpen, OpenIssue, OpenRenew, Popped, Shape, config_vars,
        caller_vars, token_vars, client_vars, channel_vars
  <2>. QED
    BY <2>2, <2>14, <2>15, <2>16, <2>17, <2>18 DEF ConversationInvariant
<1>24. ASSUME HandleClose
      PROVE  ConversationInvariant'
  <2>1. TypeOK'
    BY <1>24, HeadIsFrame, TailIsFrames, ConversationAssumption
    DEF ConversationInvariant, TypeOK, Policies, HandleClose, Process,
        config_vars, caller_vars, token_vars, client_vars
  <2>2. /\ Popped(up, up')
        /\ up[1].type = "CLO"
    BY <1>24, <2>1, ConversationFacts
    DEF HandleClose, Process, Popped, Shape, IsOpen, OpenIssue, OpenRenew,
        TypeOK, ConversationInvariant
  <2>3. /\ UNCHANGED <<config_vars, client_vars, s_token, s_previous, s_keys,
                   s_nonce, serving, dropped, down>>
    BY <1>24, ConversationFacts
    DEF HandleClose, Process, IsOpen, OpenIssue, OpenRenew, TypeOK
  <2>4. /\ \A i \in Messages(up') :
             i \in Nat /\ i > 0 /\ i + 1 \in Messages(up) /\ up'[i] = up[i + 1]
        /\ 1 \in DOMAIN up
    BY ConversationFacts, <2>2, <2>3 DEF Messages, Popped, Shape
  <2>5. OnePlace'
    BY ConversationFacts, <2>2, <2>4, <2>3
    DEF ConversationInvariant, OnePlace, Messages, Traffic, IsOpen, OpenIssue,
        OpenRenew, config_vars, caller_vars, token_vars, client_vars
  <2>6. Traffic'
    BY ConversationFacts, <2>2, <2>3
    DEF ConversationInvariant, OnePlace, Traffic, Handshake, Opens, IsOpen,
        OpenIssue, OpenRenew, Popped, Shape, config_vars, caller_vars,
        token_vars, client_vars
  <2>7. (~stolen => Handshake)'
    BY ConversationFacts, <2>2, <2>3
    DEF ConversationInvariant, Traffic, Handshake, InStep, NoKeys, Opens,
        IsOpen, OpenIssue, OpenRenew, Popped, Shape, config_vars, caller_vars,
        token_vars, client_vars
  <2>8. (~stolen => InStep)'
    BY ConversationFacts, <2>2, <2>3
    DEF ConversationInvariant, OnePlace, Messages, Traffic, Handshake, InStep,
        NoKeys, Opens, IsOpen, OpenIssue, OpenRenew, Popped, Shape, config_vars,
        caller_vars, token_vars, client_vars
  <2>9. /\ QuietRenewalsAreSafe'
        /\ RequestsUnderstood'
        /\ ResponsesUnderstood'
    BY ConversationFacts, <2>2, <2>3
    DEF ConversationInvariant, QuietRenewalsAreSafe, RequestsUnderstood,
        ResponsesUnderstood, OnePlace, Messages, Traffic, Handshake, InStep,
        Opens, IsOpen, OpenIssue, OpenRenew, Popped, Shape, config_vars,
        caller_vars, token_vars, client_vars
  <2>. QED
    BY <2>1, <2>5, <2>6, <2>7, <2>8, <2>9 DEF ConversationInvariant
<1>25. ASSUME DropFrame
      PROVE  ConversationInvariant'
  <2>1. TypeOK'
    BY <1>25, HeadIsFrame, TailIsFrames, ConversationAssumption
    DEF ConversationInvariant, TypeOK, Policies, DropFrame, Process,
        config_vars, caller_vars, token_vars, client_vars, channel_vars
  <2>2. /\ Popped(up, up')
        /\ up[1].type \in {"MSG", "CLO"}
    BY <1>25, <2>1, ConversationFacts
    DEF DropFrame, Process, Popped, Shape, IsOpen, OpenIssue, OpenRenew, TypeOK,
        ConversationInvariant
  <2>3. /\ ~Accepts(up[1])
        /\ dropped' = dropped \cup {up[1].type}
        /\ UNCHANGED <<config_vars, client_vars, channel_vars, serving, down>>
    BY <1>25, ConversationFacts
    DEF DropFrame, Process, IsOpen, OpenIssue, OpenRenew, TypeOK
  <2>4. /\ \A i \in Messages(up') :
             i \in Nat /\ i > 0 /\ i + 1 \in Messages(up) /\ up'[i] = up[i + 1]
        /\ 1 \in DOMAIN up
    BY ConversationFacts, <2>2, <2>3 DEF Messages, Popped, Shape
  <2>5. /\ UNCHANGED <<policy, client, outstanding, c_token, c_keys, c_nonce,
                   loud, stolen, down>>
         /\ UNCHANGED <<s_opened, s_token, s_previous, s_keys>>
    BY <2>3 DEF config_vars, client_vars, caller_vars, token_vars, channel_vars
  <2>6. /\ \A i \in DOMAIN up' : i + 1 \in DOMAIN up /\ up'[i] = up[i + 1]
        /\ Len(up) = Len(up') + 1 /\ Len(up') \in Nat
    BY <2>2 DEF Popped, Shape
  <2>7. Opens(up) = {} => Opens(up') = {}
    BY <2>6 DEF Opens
  <2>8. ~stolen => InStep
    BY DEF ConversationInvariant
  <2>9. \A i \in DOMAIN up' : up'[i].type # "HEL" /\ up'[i].type # "ACK"
    BY <2>2, <2>6 DEF ConversationInvariant, Traffic, Popped, Shape
  <2>10. Traffic
    BY DEF ConversationInvariant
  <2>11. up # <<>>
    BY <2>2 DEF Popped, Shape
  <2>12. \A i \in DOMAIN down' : down'[i].type # "ACK"
    BY <2>5, <2>10, <2>11 DEF Traffic
  <2>13. OnePlace'
    BY ConversationFacts, <2>2, <2>4, <2>3
    DEF ConversationInvariant, OnePlace, Messages, Traffic, IsOpen, OpenIssue,
        OpenRenew, config_vars, caller_vars, token_vars, client_vars,
        channel_vars
  <2>14. Traffic'
    BY <2>5, <2>6, <2>7, <2>9, <2>10, <2>11, <2>12 DEF Traffic, Shape, Opens
  <2>15. (~stolen => Handshake)'
    BY ConversationFacts, <2>2, <2>3
    DEF ConversationInvariant, Traffic, Handshake, InStep, NoKeys, Opens,
        IsOpen, OpenIssue, OpenRenew, Popped, Shape, config_vars, caller_vars,
        token_vars, client_vars, channel_vars
  <2>16. (~stolen => InStep)'
    BY <2>4, <2>5, <2>6, <2>7, <2>8 DEF InStep, Messages, Opens
  <2>17. /\ QuietRenewalsAreSafe'
         /\ RequestsUnderstood'
         /\ ResponsesUnderstood'
    BY ConversationFacts, <2>2, <2>3
    DEF ConversationInvariant, QuietRenewalsAreSafe, RequestsUnderstood,
        ResponsesUnderstood, OnePlace, Messages, Traffic, Handshake, InStep,
        Accepts, Opens, IsOpen, OpenIssue, OpenRenew, Popped, Shape,
        config_vars, caller_vars, token_vars, client_vars, channel_vars
  <2>. QED
    BY <2>1, <2>13, <2>14, <2>15, <2>16, <2>17 DEF ConversationInvariant
<1>26. ASSUME ClientGone
      PROVE  ConversationInvariant'
  <2>1. TypeOK'
    BY <1>26, HeadIsFrame, TailIsFrames, ConversationAssumption
    DEF ConversationInvariant, TypeOK, Policies, ClientGone, config_vars,
        caller_vars, token_vars, client_vars, channel_vars
  <2>2. /\ UNCHANGED <<config_vars, client_vars, channel_vars, serving, dropped,
                   up, down>>
    BY <1>26, ConversationFacts
    DEF ClientGone, IsOpen, OpenIssue, OpenRenew, TypeOK
  <2>3. OnePlace'
    BY ConversationFacts, <2>2
    DEF ConversationInvariant, OnePlace, Messages, Traffic, IsOpen, OpenIssue,
        OpenRenew, config_vars, caller_vars, token_vars, client_vars,
        channel_vars
  <2>4. Traffic'
    BY ConversationFacts, <2>2
    DEF ConversationInvariant, OnePlace, Traffic, Handshake, Opens, IsOpen,
        OpenIssue, OpenRenew, config_vars, caller_vars, token_vars, client_vars,
        channel_vars
  <2>5. (~stolen => Handshake)'
    BY ConversationFacts, <2>2
    DEF ConversationInvariant, Traffic, Handshake, InStep, NoKeys, Opens,
        IsOpen, OpenIssue, OpenRenew, config_vars, caller_vars, token_vars,
        client_vars, channel_vars
  <2>6. (~stolen => InStep)'
    BY ConversationFacts, <2>2
    DEF ConversationInvariant, OnePlace, Messages, Traffic, Handshake, InStep,
        NoKeys, Opens, IsOpen, OpenIssue, OpenRenew, config_vars, caller_vars,
        token_vars, client_vars, channel_vars
  <2>7. /\ QuietRenewalsAreSafe'
        /\ RequestsUnderstood'
        /\ ResponsesUnderstood'
    BY ConversationFacts, <2>2
    DEF ConversationInvariant, QuietRenewalsAreSafe, RequestsUnderstood,
        ResponsesUnderstood, OnePlace, Messages, Traffic, Handshake, InStep,
        Opens, IsOpen, OpenIssue, OpenRenew, config_vars, caller_vars,
        token_vars, client_vars, channel_vars
  <2>. QED
    BY <2>1, <2>3, <2>4, <2>5, <2>6, <2>7 DEF ConversationInvariant
<1>27. ASSUME NEW r \in Requests, ServiceFailed(r)
      PROVE  ConversationInvariant'
  <2>1. TypeOK'
    BY <1>27, HeadIsFrame, TailIsFrames, ConversationAssumption
    DEF ConversationInvariant, TypeOK, Policies, ServiceFailed, config_vars,
        caller_vars, token_vars, client_vars, channel_vars
  <2>2. /\ serving' = serving \ {r}
        /\ UNCHANGED <<config_vars, client_vars, server, channel_vars, dropped,
                         up, down>>
    BY <1>27, ConversationFacts
    DEF ServiceFailed, IsOpen, OpenIssue, OpenRenew, TypeOK
  <2>3. OnePlace'
    BY ConversationFacts, <2>2
    DEF ConversationInvariant, OnePlace, Messages, Traffic, IsOpen, OpenIssue,
        OpenRenew, config_vars, caller_vars, token_vars, client_vars,
        channel_vars
  <2>4. Traffic'
    BY ConversationFacts, <2>2
    DEF ConversationInvariant, OnePlace, Traffic, Handshake, Opens, IsOpen,
        OpenIssue, OpenRenew, config_vars, caller_vars, token_vars, client_vars,
        channel_vars
  <2>5. (~stolen => Handshake)'
    BY ConversationFacts, <2>2
    DEF ConversationInvariant, Traffic, Handshake, InStep, NoKeys, Opens,
        IsOpen, OpenIssue, OpenRenew, config_vars, caller_vars, token_vars,
        client_vars, channel_vars
  <2>6. (~stolen => InStep)'
    BY ConversationFacts, <2>2
    DEF ConversationInvariant, OnePlace, Messages, Traffic, Handshake, InStep,
        NoKeys, Opens, IsOpen, OpenIssue, OpenRenew, config_vars, caller_vars,
        token_vars, client_vars, channel_vars
  <2>7. /\ QuietRenewalsAreSafe'
        /\ RequestsUnderstood'
        /\ ResponsesUnderstood'
    BY ConversationFacts, <2>2
    DEF ConversationInvariant, QuietRenewalsAreSafe, RequestsUnderstood,
        ResponsesUnderstood, OnePlace, Messages, Traffic, Handshake, InStep,
        Opens, IsOpen, OpenIssue, OpenRenew, config_vars, caller_vars,
        token_vars, client_vars, channel_vars
  <2>. QED
    BY <2>1, <2>3, <2>4, <2>5, <2>6, <2>7 DEF ConversationInvariant
<1>28. ASSUME NEW r \in Requests, Answer(r), client = "closed"
      PROVE  ConversationInvariant'
  <2>1. TypeOK'
    BY <1>28, HeadIsFrame, TailIsFrames, ConversationAssumption
    DEF ConversationInvariant, TypeOK, Policies, Answer, Written, config_vars,
        caller_vars, token_vars, client_vars, channel_vars
  <2>2. /\ r \in serving
        /\ serving' = serving \ {r}
        /\ UNCHANGED <<config_vars, client_vars, server, channel_vars, dropped,
                         up>>
        /\ client = "closed"
        /\ UNCHANGED down
    BY <1>28, ConversationFacts
    DEF Answer, Written, IsOpen, OpenIssue, OpenRenew, TypeOK
  <2>3. OnePlace'
    BY ConversationFacts, <2>2
    DEF ConversationInvariant, OnePlace, Messages, Traffic, IsOpen, OpenIssue,
        OpenRenew, config_vars, caller_vars, token_vars, client_vars,
        channel_vars
  <2>4. Traffic'
    BY ConversationFacts, <2>2
    DEF ConversationInvariant, OnePlace, Traffic, Handshake, Opens, IsOpen,
        OpenIssue, OpenRenew, config_vars, caller_vars, token_vars, client_vars,
        channel_vars
  <2>5. (~stolen => Handshake)'
    BY ConversationFacts, <2>2
    DEF ConversationInvariant, Traffic, Handshake, InStep, NoKeys, Opens,
        IsOpen, OpenIssue, OpenRenew, config_vars, caller_vars, token_vars,
        client_vars, channel_vars
  <2>6. (~stolen => InStep)'
    BY ConversationFacts, <2>2
    DEF ConversationInvariant, OnePlace, Messages, Traffic, Handshake, InStep,
        NoKeys, Opens, IsOpen, OpenIssue, OpenRenew, config_vars, caller_vars,
        token_vars, client_vars, channel_vars
  <2>7. /\ QuietRenewalsAreSafe'
        /\ RequestsUnderstood'
        /\ ResponsesUnderstood'
    BY ConversationFacts, <2>2
    DEF ConversationInvariant, QuietRenewalsAreSafe, RequestsUnderstood,
        ResponsesUnderstood, OnePlace, Messages, Traffic, Handshake, InStep,
        Opens, IsOpen, OpenIssue, OpenRenew, config_vars, caller_vars,
        token_vars, client_vars, channel_vars
  <2>. QED
    BY <2>1, <2>3, <2>4, <2>5, <2>6, <2>7 DEF ConversationInvariant
<1>29. ASSUME NEW r \in Requests, Answer(r), client # "closed"
      PROVE  ConversationInvariant'
  <2>. DEFINE f == Frame("MSG", s_token, s_keys, r)
  <2>1. /\ r \in serving
        /\ serving' = serving \ {r}
        /\ down' = Append(down, f)
        /\ client # "closed"
        /\ UNCHANGED <<config_vars, client_vars, server, channel_vars, dropped,
                         up>>
    BY <1>29 DEF Answer, Written, OpenIssue, OpenRenew, token_vars
  <2>2. f \in Frames
    BY ConversationAssumption, ConversationFacts
    DEF ConversationInvariant, TypeOK, Frames, Frame, KeyPairs, NoKeys,
        OpenIssue, OpenRenew
  <2>3. /\ f.type = "MSG"
        /\ f.token = s_token
        /\ f.keys = s_keys
        /\ f.id = r
    BY <2>1 DEF Frame
  <2>. HIDE DEF f
  <2>4. TypeOK'
    BY <2>1, <2>2, HeadIsFrame, TailIsFrames, ConversationAssumption
    DEF ConversationInvariant, TypeOK, Policies, Frame, config_vars,
        caller_vars, token_vars, client_vars, channel_vars
  <2>5. Pushed(down, f, down')
    BY <2>1, <2>2, AppendPushes DEF TypeOK, ConversationInvariant
  <2>6. /\ Pushed(down, f, down')
    BY <2>5
  <2>7. /\ r \in serving
        /\ serving' = serving \ {r}
        /\ UNCHANGED <<config_vars, client_vars, server, channel_vars, dropped,
                         up>>
        /\ client # "closed"
    BY <2>1, <2>6, ConversationFacts
    DEF Frame, IsOpen, OpenIssue, OpenRenew, TypeOK
  <2>8. /\ \A i \in Messages(down') :
             \/ i \in Messages(down) /\ down'[i] = down[i]
             \/ i = Len(down) + 1 /\ down'[i] = f /\ f.type = "MSG"
    BY ConversationFacts, <2>3, <2>6, <2>7 DEF Messages, Pushed, Shape
  <2>9. /\ \A i \in Opens(down') :
             \/ i \in Opens(down) /\ down'[i] = down[i]
             \/ i = Len(down) + 1 /\ down'[i] = f /\ IsOpen(f)
        /\ \A i \in Opens(down) : i \in Opens(down')
        /\ \A i \in Opens(down) \cup Messages(down) : i \in Nat /\ i < Len(down)
           + 1
        /\ IsOpen(f) => Len(down) + 1 \in Opens(down')
    BY ConversationFacts, <2>3, <2>6, <2>7 DEF Opens, Messages, Pushed, Shape
  <2>10. /\ ~IsOpen(f)
         /\ Opens(down') = Opens(down)
         /\ r \in outstanding
    BY <2>3, <2>7, <2>9
    DEF ConversationInvariant, OnePlace, IsOpen, OpenIssue, OpenRenew
  <2>11. client \in {"open", "renewing"}
    BY <2>7, <2>10, ConversationFacts DEF ConversationInvariant, Traffic
  <2>12. \A i \in Opens(down) : i < Len(down) + 1
    BY <2>6 DEF Opens, Pushed, Shape
  <2>13. OnePlace'
    BY ConversationFacts, <2>3, <2>6, <2>8, <2>7
    DEF ConversationInvariant, OnePlace, Messages, Traffic, IsOpen, OpenIssue,
        OpenRenew, config_vars, caller_vars, token_vars, client_vars,
        channel_vars
  <2>14. Traffic'
    BY ConversationFacts, <2>3, <2>6, <2>7
    DEF ConversationInvariant, OnePlace, Traffic, Handshake, Opens, IsOpen,
        OpenIssue, OpenRenew, Pushed, Shape, config_vars, caller_vars,
        token_vars, client_vars, channel_vars
  <2>15. (~stolen => Handshake)'
    BY ConversationFacts, <2>3, <2>6, <2>8, <2>7, <2>9
    DEF ConversationInvariant, Traffic, Handshake, InStep, NoKeys, IsOpen,
        OpenIssue, OpenRenew, Pushed, Shape, config_vars, caller_vars,
        token_vars, client_vars, channel_vars
  <2>16. (~stolen => InStep)'
    BY <2>3, <2>7, <2>8, <2>10, <2>11, <2>12
    DEF ConversationInvariant, InStep, config_vars, caller_vars, token_vars,
        client_vars, channel_vars
  <2>17. /\ QuietRenewalsAreSafe'
         /\ RequestsUnderstood'
         /\ ResponsesUnderstood'
    BY ConversationFacts, <2>3, <2>6, <2>7
    DEF ConversationInvariant, QuietRenewalsAreSafe, RequestsUnderstood,
        ResponsesUnderstood, OnePlace, Messages, Traffic, Handshake, InStep,
        Opens, IsOpen, OpenIssue, OpenRenew, Pushed, Shape, config_vars,
        caller_vars, token_vars, client_vars, channel_vars
  <2>. QED
    BY <2>4, <2>13, <2>14, <2>15, <2>16, <2>17 DEF ConversationInvariant
<1>30. ASSUME Drained
      PROVE  ConversationInvariant'
  <2>1. TypeOK'
    BY <1>30, HeadIsFrame, TailIsFrames, ConversationAssumption
    DEF ConversationInvariant, TypeOK, Policies, Drained, config_vars,
        caller_vars, token_vars, client_vars, channel_vars
  <2>2. /\ UNCHANGED <<config_vars, client_vars, channel_vars, serving, dropped,
                   up, down>>
    BY <1>30, ConversationFacts
    DEF Drained, IsOpen, OpenIssue, OpenRenew, TypeOK
  <2>3. OnePlace'
    BY ConversationFacts, <2>2
    DEF ConversationInvariant, OnePlace, Messages, Traffic, IsOpen, OpenIssue,
        OpenRenew, config_vars, caller_vars, token_vars, client_vars,
        channel_vars
  <2>4. Traffic'
    BY ConversationFacts, <2>2
    DEF ConversationInvariant, OnePlace, Traffic, Handshake, Opens, IsOpen,
        OpenIssue, OpenRenew, config_vars, caller_vars, token_vars, client_vars,
        channel_vars
  <2>5. (~stolen => Handshake)'
    BY ConversationFacts, <2>2
    DEF ConversationInvariant, Traffic, Handshake, InStep, NoKeys, Opens,
        IsOpen, OpenIssue, OpenRenew, config_vars, caller_vars, token_vars,
        client_vars, channel_vars
  <2>6. (~stolen => InStep)'
    BY ConversationFacts, <2>2
    DEF ConversationInvariant, OnePlace, Messages, Traffic, Handshake, InStep,
        NoKeys, Opens, IsOpen, OpenIssue, OpenRenew, config_vars, caller_vars,
        token_vars, client_vars, channel_vars
  <2>7. /\ QuietRenewalsAreSafe'
        /\ RequestsUnderstood'
        /\ ResponsesUnderstood'
    BY ConversationFacts, <2>2
    DEF ConversationInvariant, QuietRenewalsAreSafe, RequestsUnderstood,
        ResponsesUnderstood, OnePlace, Messages, Traffic, Handshake, InStep,
        Opens, IsOpen, OpenIssue, OpenRenew, config_vars, caller_vars,
        token_vars, client_vars, channel_vars
  <2>. QED
    BY <2>1, <2>3, <2>4, <2>5, <2>6, <2>7 DEF ConversationInvariant
<1>31. CASE UNCHANGED vars
  BY <1>31
  DEF vars, config_vars, caller_vars, token_vars, client_vars, channel_vars,
      server_vars, ConversationInvariant, TypeOK, OnePlace, Traffic, Handshake,
      InStep, QuietRenewalsAreSafe, RequestsUnderstood, ResponsesUnderstood,
      Messages, Opens
<1>32. ASSUME RenewalReads
      PROVE  ConversationInvariant'
  BY <1>32, <1>6, <1>7
<1>33. ASSUME ReadResponse
      PROVE  ConversationInvariant'
  BY <1>33, <1>9, <1>10
<1>34. ASSUME HandleHello
      PROVE  ConversationInvariant'
  BY <1>34, <1>14, <1>15
<1>35. ASSUME HandleOpenNone
      PROVE  ConversationInvariant'
  BY <1>35, <1>16, <1>17, <1>18, <1>19 DEF HandleOpenNone, Process
<1>36. ASSUME HandleOpenSecure
      PROVE  ConversationInvariant'
  BY <1>36, <1>20, <1>21
<1>37. ASSUME NEW r \in Requests, Answer(r)
      PROVE  ConversationInvariant'
  BY <1>37, <1>28, <1>29
<1>. QED
  BY <1>1, <1>2, <1>3, <1>4, <1>5, <1>8, <1>11, <1>12, <1>13, <1>22, <1>23,
     <1>24, <1>25, <1>26, <1>27, <1>30, <1>31, <1>32, <1>33, <1>34, <1>35,
     <1>36, <1>37
  DEF Next, ClientStep, ProcessFrame, Service

\* ConversationInvariant holds in every state of the conversation.
THEOREM ConversationInvariantHolds == Spec => []ConversationInvariant
<1>1. Init => ConversationInvariant
  BY InitEstablishesInvariant
<1>2. ConversationInvariant /\ [Next]_vars => ConversationInvariant'
  BY StepKeepsInvariant
<1>. QED
  BY <1>1, <1>2, PTL DEF Spec

\* Tokens, keys, requests and frames keep their shape, whatever is sent, lost,
\* renewed or closed (TypeOK of SecureConversation).
THEOREM ConversationTypeCorrect == Spec => []TypeOK
  BY ConversationInvariantHolds, PTL DEF ConversationInvariant

\* The guard in ClientChannel::Send: unless a renewal began with a response on
\* its way that nobody waited for, the renewal and the read loop never take each
\* other's frames.
THEOREM RenewalsAreSafe == Spec => []QuietRenewalsAreSafe
  BY ConversationInvariantHolds, PTL DEF ConversationInvariant

\* HandleSecureMessage accepts the token and keys of every request, and under
\* SecurityPolicy None of every close, for any number of renewals.
THEOREM RequestsAreUnderstood == Spec => []RequestsUnderstood
  BY ConversationInvariantHolds, PTL DEF ConversationInvariant

\* DecodeServiceMessageChunk accepts the token and the keys of every response,
\* the ones built on the other side of a renewal included.
THEOREM ResponsesAreUnderstood == Spec => []ResponsesUnderstood
  BY ConversationInvariantHolds, PTL DEF ConversationInvariant

\* Both ends decode what the other one built, for any number of renewals.
THEOREM MessagesAreUnderstood == Spec => []MessagesUnderstood
  BY RequestsAreUnderstood, ResponsesAreUnderstood, PTL DEF MessagesUnderstood
=============================================================================
