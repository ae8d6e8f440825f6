---------------------------- MODULE LoginClient -----------------------------
(***************************************************************************)
(* auth: the login of a command-line client.  NewClientWithPorts starts a  *)
(* goroutine that listens on a local port, sends the browser to the        *)
(* provider and waits for the code that the browser brings to the port.    *)
(* The goroutine, a handler per redirect and the caller meet on two        *)
(* channels without a buffer: a send and its receive are one step.         *)
(*                                                                         *)
(* The browser is external: it brings a redirect with the right state or   *)
(* another one, with a code or without (the provider's answer when access  *)
(* is denied), more than once (a reload), or never.  So is the provider,   *)
(* who gives no token for a code that was never brought.                   *)
(***************************************************************************)
EXTENDS Naturals, Sequences, FiniteSets

CONSTANTS Redirects,  \* redirects the browser may bring: [id, state, code]
          Ports,      \* the ports that exist
          TryPorts    \* lists of ports a caller may ask for

VARIABLES tryPorts,  \* tryPorts of this login
          caller,    \* where NewClientWithPorts is
          server,    \* where the goroutine serveRedirects is
          taken,     \* ports that somebody else listens on
          port,      \* the port of the listener, 0 if it is closed
          closed,    \* srv.Close was called
          handler,   \* the handler of every redirect
          code,      \* the redirect whose result came from resChan, if any
          cancelled  \* the context is done

loginVars == <<tryPorts, caller, server, taken, port, closed, handler, code, cancelled>>

-----------------------------------------------------------------------------
(* pkce.go                                                                 *)

Charset == 62
minLength == 32
maxLength == 96

\* Mutant: one more multiple of the charset than a byte can hold.
AcceptedFive(byte) == byte < (Charset * 5) % 256

\* randomBytes keeps a byte below a multiple of the charset's length (the
\* product is computed in a byte), so that no character is likelier.  These
\* characters are then encoded; the verifier is their base64.
Accepted(byte) == byte < (Charset * 4) % 256
Character(byte) == byte % Charset

\* The length of base64 without padding.
EncodedLength(n) == (4 * n + 2) \div 3

\* createCodeVerifierWithLength takes these lengths only.
ValidLength(n) == minLength <= n /\ n <= maxLength

-----------------------------------------------------------------------------
\* Mutant: the deferred Close is missing.
LeaveOpen == caller' = "returned" /\ UNCHANGED closed

\* NewClientWithPorts returns, and its deferred call closes the server.
Leave == caller' = "returned" /\ closed' = TRUE

\* serveRedirects listens on the first port of the list that is free, on any
\* port without a list.
Listen ==
  LET free == SelectSeq(tryPorts, LAMBDA p : p \notin taken) IN
  /\ server = "start"
  /\ \/ /\ tryPorts = <<>>
        /\ \E p \in Ports \ taken : port' = p /\ server' = "ready"
     \/ /\ tryPorts # <<>> /\ free # <<>>
        /\ port' = free[1] /\ server' = "ready"
     \/ /\ IF tryPorts = <<>> THEN Ports \subseteq taken ELSE free = <<>>
        /\ server' = "no port" /\ UNCHANGED port
  /\ UNCHANGED <<tryPorts, caller, taken, closed, handler, code, cancelled>>

\* The caller learns from readyChan that the port is open, or that none is.
Ready ==
  /\ caller = "start"
  /\ \/ server = "ready" /\ server' = "serve" /\ caller' = "visit" /\ UNCHANGED closed
     \/ server = "no port" /\ server' = "ended" /\ Leave
  /\ UNCHANGED <<tryPorts, taken, port, handler, code, cancelled>>

\* The goroutine sees the end of the context before anybody took its result.
ReadyCancelled ==
  /\ cancelled
  /\ server \in {"ready", "no port"}
  /\ server' = "ended"
  /\ port' = 0
  /\ UNCHANGED <<tryPorts, caller, taken, closed, handler, code, cancelled>>

\* visitURLCallback opens the browser; it or the PKCE parameters may fail.
Visit ==
  /\ caller = "visit"
  /\ \/ caller' = "wait" /\ UNCHANGED closed
     \/ Leave
  /\ UNCHANGED <<tryPorts, server, taken, port, handler, code, cancelled>>

\* The select on resChan and on the context.
CallerCancelled ==
  /\ cancelled
  /\ caller \in {"start", "wait"}
  /\ Leave
  /\ UNCHANGED <<tryPorts, server, taken, port, handler, code, cancelled>>

\* Mutant: any state will do.
RedirectAny(r) ==
  /\ server = "serve" /\ port # 0 /\ ~closed
  /\ handler[r] = "none"
  /\ handler' = [handler EXCEPT ![r] = "sending"]
  /\ UNCHANGED <<tryPorts, caller, server, taken, port, closed, code, cancelled>>

\* redirectHandler.ServeHTTP: a redirect with another state is refused.  With
\* the right one the page that tells of success is written, and the code sent,
\* even if it is the empty one of a redirect without a code.
Redirect(r) ==
  /\ server = "serve" /\ port # 0 /\ ~closed
  /\ handler[r] = "none"
  /\ handler' = [handler EXCEPT ![r] = IF r.state = "csrf" THEN "sending" ELSE "refused"]
  /\ UNCHANGED <<tryPorts, caller, server, taken, port, closed, code, cancelled>>

\* A handler hands its code over.  It waits for nothing else, and forever when
\* it comes second or after the caller has left.
TakeCode(r) ==
  /\ caller = "wait"
  /\ handler[r] = "sending"
  /\ handler' = [handler EXCEPT ![r] = "done"]
  /\ code' = {r}
  /\ caller' = "exchange"
  /\ UNCHANGED <<tryPorts, server, taken, port, closed, cancelled>>

\* srv.Serve returns, because the server was closed or could not accept;
\* the listener is closed either way.
ServeReturns ==
  /\ server = "serve"
  /\ server' = "failed"
  /\ port' = 0
  /\ UNCHANGED <<tryPorts, caller, taken, closed, handler, code, cancelled>>

\* Mutant: the error of Serve is sent without an eye on the context.
ServeErrorBlocks ==
  /\ server = "failed"
  /\ caller = "wait"
  /\ server' = "ended" /\ caller' = "exchange"
  /\ UNCHANGED <<tryPorts, taken, port, closed, handler, code, cancelled>>

\* The goroutine offers the error of Serve on resChan until the context is
\* done.  The caller takes it for a result without a code.
ServeError ==
  /\ server = "failed"
  /\ server' = "ended"
  /\ \/ caller = "wait" /\ caller' = "exchange"
     \/ cancelled /\ UNCHANGED caller
  /\ UNCHANGED <<tryPorts, taken, port, closed, handler, code, cancelled>>

\* conf.Exchange turns the code into a token or fails; both return.
Exchange ==
  /\ caller = "exchange"
  /\ \/ Leave
     \/ /\ \E r \in code : r.code
        /\ caller' = "token" /\ closed' = TRUE
  /\ UNCHANGED <<tryPorts, server, taken, port, handler, code, cancelled>>

Cancel ==
  /\ ~cancelled
  /\ cancelled' = TRUE
  /\ UNCHANGED <<tryPorts, caller, server, taken, port, closed, handler, code>>

LoginInit ==
  /\ tryPorts \in TryPorts
  /\ caller = "start"
  /\ server = "start"
  /\ taken \in SUBSET Ports
  /\ port = 0
  /\ closed = FALSE
  /\ handler = [r \in Redirects |-> "none"]
  /\ code = {}
  /\ cancelled = FALSE

\* What the program does by itself; Serve keeps serving until it is closed.
ServerStep ==
  \/ Listen \/ ReadyCancelled \/ ServeError
  \/ closed /\ ServeReturns
CallerStep ==
  \/ Ready \/ Visit \/ CallerCancelled \/ Exchange
  \/ \E r \in Redirects : TakeCode(r)

LoginNext ==
  \/ ServerStep \/ CallerStep \/ ServeReturns \/ Cancel
  \/ \E r \in Redirects : Redirect(r)

LoginSpec == LoginInit /\ [][LoginNext]_loginVars

\* Goroutines that can go on do.  Nothing is assumed of the browser or of
\* whoever could cancel.
LoginFairness == WF_loginVars(ServerStep) /\ WF_loginVars(CallerStep)

-----------------------------------------------------------------------------
LoginOver == caller \in {"returned", "token"}

\* What is exchanged was brought by a redirect with the state of this login,
\* and by no more than one however often the browser comes; if it was brought
\* by none, the server failed.  A login that succeeds was brought a code.
CodeIsFromRedirect ==
  /\ \A r \in Redirects : r \in code <=> handler[r] = "done"
  /\ \A r \in code : r.state = "csrf" /\ code = {r}
  /\ caller = "exchange" /\ code = {} => server = "ended"
  /\ caller = "token" => \E r \in code : r.code

\* However the login ends, its port is released: also when it ends before
\* the goroutine gets to serve.
PortReleased == LoginOver ~> port = 0

\* Once the login is over and the context is done the goroutine that serves is
\* gone.  (A handler that still waits to send is not.)
ServeEnds == LoginOver /\ cancelled ~> server = "ended"

\* The login goes on once the browser came back: the caller takes what a
\* handler has to send, or leaves.
LoginGetsOn ==
  caller = "wait" /\ (\E r \in Redirects : handler[r] = "sending") ~> LoginOver

\* Every code verifier the login can make is as long as RFC 7636 asks for, and
\* each of the bytes it encodes is as likely one character of the charset as
\* any other.
VerifierIsSound ==
  caller = "visit" =>
  /\ \A n \in 0..128 : ValidLength(n) => EncodedLength(n) \in 43..128
  /\ LET Drawn(c) == Cardinality({byte \in 0..255 : Accepted(byte) /\ Character(byte) = c})
     IN  \A c \in 0..Charset - 1 : Drawn(c) = Drawn(0)

\* The two secrets of a login: the code it takes and the verifier it makes.
LoginIsSound == CodeIsFromRedirect /\ VerifierIsSound
=============================================================================
