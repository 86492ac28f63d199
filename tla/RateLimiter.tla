------------------------------ MODULE RateLimiter ------------------------------
(***************************************************************************)
(* The fixed-window limiter in front of the public lookup routes: which    *)
(* address a request counts for, and whether it is let through.  allow     *)
(* runs under a mutex, so a request is one step.                           *)
(*                                                                         *)
(* A request carries the values of the configured header, the lines of     *)
(* X-Forwarded-For, each a list of entries, and the address its connection *)
(* came from.  An entry that does not parse as an address is Malformed.    *)
(***************************************************************************)
EXTENDS Config, Sequences

(* NewRateLimiter; a limiter that starts in no window has counted nothing. *)
NewRateLimiter == [window |-> 0, counts |-> <<>>]

(* Mutant: the entry is counted from the left.                             *)
ForwardedFromLeft(forwarded, hops) ==
  IF Len(forwarded) >= hops THEN forwarded[hops] ELSE Malformed

(* Header.Get: the first line of a header, whatever other lines it has.    *)
FirstLine(lines) == IF lines = <<>> THEN <<>> ELSE Head(lines)

(* The address that many entries from the right, if there are so many.     *)
Forwarded(forwarded, hops) ==
  IF Len(forwarded) >= hops THEN forwarded[Len(forwarded) + 1 - hops] ELSE Malformed

(* clientIP: the header if it is there exactly once, then the trusted      *)
(* entry of X-Forwarded-For, then the connection.                          *)
ClientIP(cfg, req) ==
  LET entry == Forwarded(FirstLine(req.forwarded), cfg.TrustedProxyHops) IN
  IF cfg.ClientIPHeader /\ Len(req.header) = 1 /\ req.header[1] # Malformed THEN req.header[1]
  ELSE IF cfg.TrustProxy /\ entry # Malformed THEN entry
  ELSE req.remote

(* allow, in a given minute: the counts of another minute are dropped, and *)
(* a request is counted whether it is let through or not.                  *)
Counted(limiter, minute, ip) ==
  LET counts == IF limiter.window = minute THEN limiter.counts ELSE <<>>
      before == IF ip \in DOMAIN counts THEN counts[ip] ELSE 0
  IN [window |-> minute,
      counts |-> [a \in DOMAIN counts \cup {ip} |-> IF a = ip THEN before + 1 ELSE counts[a]]]

(* Wrap: without a limit nothing is counted.                               *)
Allowed(cfg, limiter, ip) == limiter.counts[ip] <= cfg.LookupRatePerMin
Unlimited(cfg) == cfg.LookupRatePerMin <= 0
=============================================================================
