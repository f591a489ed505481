-------------------------------- MODULE Schedule --------------------------------
(***************************************************************************)
(* When a key is checked next (monitor_next_check_at, strict_next_check_at *)
(* in db/_store.py): an interval by its status, and a jitter by its id.    *)
(***************************************************************************)
EXTENDS Integers

LOCAL Larger(a, b) == IF a > b THEN a ELSE b

(* A key has an interval of its own when entry.interval is not zero        *)
BackoffAtMost(entry, status, settings) ==
  LET global == Larger(30, settings.interval)
      own == IF entry.interval # 0 THEN entry.interval
             ELSE IF status = "down" THEN Larger(30, settings.down) ELSE global
  IN  CASE status = "degraded" -> IF own * 2 < 600 THEN own * 2 ELSE 600
        [] status = "rate_limited" -> Larger(own * 4, 900)
        [] status = "auth_error" -> Larger(own * 12, 21600)
        [] OTHER -> own
Backoff(entry, status, settings) ==
  LET global == Larger(30, settings.interval)
      own == IF entry.interval # 0 THEN entry.interval
             ELSE IF status = "down" THEN Larger(30, settings.down) ELSE global
  IN  CASE status = "degraded" -> Larger(own * 2, 600)
        [] status = "rate_limited" -> Larger(own * 4, 900)
        [] status = "auth_error" -> Larger(own * 12, 21600)
        [] OTHER -> own

(* (id * a + b) % (spread * 2 + 1) - spread, written so that it fits TLC's *)
(* 32 bits for a small id                                                  *)
Spread(interval) == Larger(1, interval \div 20)
Jitter(id, a, b, spread) ==
  LET m == spread * 2 + 1 IN ((id * (a % m) + b) % m) - spread
Paced(id, a, b, interval) == Larger(1, interval + Jitter(id, a, b, Spread(interval)))

NextCheck(entry, status, settings) ==
  Paced(entry.id, 1103515245, 12345, Backoff(entry, status, settings))
NextStrictCheck(entry, settings) ==
  Paced(entry.id, 1664525, 1013904223, Larger(300, settings.strict))
================================================================================
