------------------------------ MODULE ProxyChat ------------------------------
(***************************************************************************)
(* The proxy's side of a chat turn: the handler chat_completions of        *)
(* app.py, the adapter it drives and the SSE writer.  One handler runs per *)
(* connection, and the handlers of different connections interleave.  The  *)
(* upstream provider is the environment: it sends any events it likes,     *)
(* fails, or stops talking.                                                *)
(***************************************************************************)
EXTENDS ChatWire

CONSTANTS
  Catalog,    \* the profile catalog: a function from some of the Profiles
  Adapters,   \* providers an adapter module registered itself for
  MaxDelta,   \* bound: units in one upstream event
  WireCap     \* bound: lines the connection buffers (the TCP window)

ASSUME CatalogAssumption ==
  /\ DOMAIN Catalog \subseteq Profiles
  /\ \A p \in DOMAIN Catalog :
       Catalog[p] \in [provider : STRING, kind : STRING, secret : BOOLEAN]
ASSUME DeltaAssumption == MaxDelta \in Nat /\ WireCap \in Nat

VARIABLES
  bearer,   \* require_bearer's verdict on the device's token
  handler,  \* handler[t]: where turn t's handler is
  gen,      \* gen[t]: units of reply the upstream has generated for turn t
  role      \* role[t]: emitted_role in the Anthropic adapter

proxyVars == <<bearer, handler, gen, role>>

Bearers == {"accepted", "refused"}

ProxyTypeOK ==
  /\ bearer  \in Bearers
  /\ handler \in [Turns -> {"none", "first", "stream", "finish", "ended"}]
  /\ gen     \in [Turns -> 0..MaxText]
  /\ role    \in [Turns -> BOOLEAN]

ProxyInit ==
  /\ bearer  \in Bearers
  /\ handler = [t \in Turns |-> "none"]
  /\ gen     = [t \in Turns |-> 0]
  /\ role    = [t \in Turns |-> FALSE]

----------------------------------------------------------------------------
(* What the proxy puts on the connection, while it still has one.          *)

Write(t, lines) ==
  IF sock[t] = "open" THEN wire' = [wire EXCEPT ![t] = @ \o lines]
                      ELSE UNCHANGED wire

\* The response is over: "Connection: close".
Hangup(t) ==
  IF sock[t] = "open" THEN sock' = [sock EXCEPT ![t] = "eof"]
                      ELSE UNCHANGED sock

ResponseHead(code) == <<StatusLine(code), Other("blank")>>

Respond(t, code) ==
  /\ Write(t, ResponseHead(code))
  /\ Hangup(t)
  /\ handler' = [handler EXCEPT ![t] = "ended"]

----------------------------------------------------------------------------
(* Admission: require_bearer, then the checks of chat_completions in order.*)

\* Mutant: a code of its own for a refused bearer.
RefusalForbidden(p) == IF bearer = "refused" THEN 403 ELSE 200

Refusal(p) ==
  IF bearer = "refused"                                              THEN 401
  ELSE IF p \notin DOMAIN Catalog                                    THEN 404
  ELSE IF Catalog[p].provider \notin Adapters                        THEN 501
  ELSE IF Catalog[p].kind = "proxy-secret" /\ ~Catalog[p].secret     THEN 500
  ELSE IF Catalog[p].kind = "device-key"                             THEN 501
  ELSE 200

\* The request arrives, even if the device has hung up meanwhile.
Accept(t) ==
  /\ handler[t] = "none" /\ sock[t] # "none"
  /\ IF Refusal(via[t]) # 200
       THEN Respond(t, Refusal(via[t]))
       ELSE /\ handler' = [handler EXCEPT ![t] = "first"]
            /\ UNCHANGED <<sock, wire>>
  /\ UNCHANGED <<asked, via, bearer, gen, role>>

----------------------------------------------------------------------------
(* The adapters.  An upstream event has a kind and some text; an adapter   *)
(* turns it into at most one chunk, and some events end its iteration.     *)

Events == [kind : {"start", "text", "stop", "done", "eof"}, n : 0..MaxDelta]

\* Only text events carry text; "done" is the line [DONE], "eof" the end.
UpstreamEvents == {e \in Events : e.n > 0 => e.kind = "text"}

AnthropicYields(e, emitted) ==
  \/ e.kind = "start" /\ ~emitted
  \/ e.kind = "text"  /\ e.n > 0
  \/ e.kind = "stop"

\* OpenAI, Ollama and generic OAI pass every event through.
PassThroughYields(e) == e.kind \in {"start", "text", "stop"}

Yields(p, e, emitted) ==
  IF Catalog[p].provider = "anthropic" THEN AnthropicYields(e, emitted)
                                       ELSE PassThroughYields(e)

Ends(p, e) ==
  e.kind \in (IF Catalog[p].provider = "anthropic" THEN {"stop", "done", "eof"}
                                                   ELSE {"done", "eof"})

Chunk(t, e) == DataLine(gen[t] + 1, gen[t] + e.n)

\* The lines of a chunk (none or one); the first one opens the response.
\* Mutant: _wrapped() forgets the chunk that was drawn to commit the status.
OpeningDropsFirst(first, chunk) ==
  IF first THEN ResponseHead(200) ELSE chunk

Opening(first, chunk) ==
  IF first THEN ResponseHead(200) \o chunk ELSE chunk

(***************************************************************************)
(* stream_chat reads one upstream event.  Until the first chunk nothing    *)
(* has been answered; the first chunk is what commits the response to 200, *)
(* and an iteration that ends before it is answered 502.                   *)
(***************************************************************************)
StreamEvent(t, e) ==
  LET yields == Yields(via[t], e, role[t])
      ends   == Ends(via[t], e)
      first  == handler[t] = "first"
  IN
  /\ handler[t] \in {"first", "stream"}
  /\ yields \/ ends
  /\ gen[t] + e.n <= MaxText
  /\ Len(wire[t]) < WireCap
  /\ gen'  = [gen EXCEPT ![t] = @ + e.n]
  /\ role' = [role EXCEPT ![t] = @ \/ (e.kind = "start" /\ Catalog[via[t]].provider = "anthropic")]
  /\ IF first /\ ~yields
       THEN Respond(t, 502)
       ELSE /\ handler' = [handler EXCEPT ![t] = IF ends THEN "finish" ELSE "stream"]
            /\ Write(t, Opening(first, IF yields THEN <<Chunk(t, e)>> ELSE << >>))
            /\ UNCHANGED sock
  /\ UNCHANGED <<asked, via, bearer>>

\* chunks_to_sse ran off the end of the iterator: "data: [DONE]", then close.
SendDone(t) ==
  /\ handler[t] = "finish"
  /\ Write(t, <<Other("done")>>)
  /\ Hangup(t)
  /\ handler' = [handler EXCEPT ![t] = "ended"]
  /\ UNCHANGED <<asked, via, bearer, gen, role>>

(***************************************************************************)
(* The upstream call raised.  Before the first chunk an HTTP error status  *)
(* is answered 502 and any other exception escapes as 500; afterwards the  *)
(* exception aborts the response, which ends without [DONE].               *)
(***************************************************************************)
UpstreamFails(t) ==
  \/ /\ handler[t] = "first"
     /\ \E code \in {502, 500} : Respond(t, code)
     /\ UNCHANGED <<asked, via, bearer, gen, role>>
  \/ /\ handler[t] = "stream"
     /\ Hangup(t)
     /\ handler' = [handler EXCEPT ![t] = "ended"]
     /\ UNCHANGED <<wire, asked, via, bearer, gen, role>>

\* The client is gone: the server cancels the streaming response.
Cancelled(t) ==
  /\ handler[t] \in {"stream", "finish"} /\ sock[t] \notin {"none", "open"}
  /\ handler' = [handler EXCEPT ![t] = "ended"]
  /\ UNCHANGED <<sock, wire, asked, via, bearer, gen, role>>

ProxyNext ==
  \E t \in Turns :
    \/ Accept(t)
    \/ \E e \in UpstreamEvents : StreamEvent(t, e)
    \/ SendDone(t)
    \/ UpstreamFails(t)
    \/ Cancelled(t)
=============================================================================
