--------------------------- MODULE CollectorScrape ---------------------------
(***************************************************************************)
(* The collectors of the Prometheus page that read the host, in a          *)
(* configuration that turns on those of the host's own figures, and in one *)
(* that turns on that of the live sessions.                                *)
(***************************************************************************)
EXTENDS LiveSessions

CONSTANTS
  Things, DiskNames, IfNames, Mounts, Cpus, MemKeys, VmKeys, Protocols, Fates, MaxTime,
  Numbers, ShortNames   \* of HostStats

VARIABLES
  enabled,   \* "host" or "live_session"
  time, up, fates, host_pc, host_text, lines, scanned, since, steady

H == INSTANCE HostStats WITH pc <- host_pc, text <- host_text

hostVars == <<time, up, fates, host_pc, host_text, lines, scanned, since, steady>>
scrapeVars == <<enabled, vars, hostVars>>

\* What the configuration does not turn on rests in one state.
ScrapeInit ==
  /\ enabled \in {"host", "live_session"} /\ Init /\ H!Init
  /\ enabled = "host" => alive = {}
  /\ enabled = "live_session" => up = {} /\ fates = CHOOSE f \in Fates : TRUE

HostStep == enabled = "host" /\ H!Next /\ UNCHANGED <<enabled, vars>>
LiveStep == enabled = "live_session" /\ Next /\ UNCHANGED <<enabled, hostVars>>

ScrapeNext == HostStep \/ LiveStep

\* The collector of live sessions is one function that the worker runs without a wait.
ScrapeSpec == ScrapeInit /\ [][ScrapeNext]_scrapeVars /\ WF_vars(Collect)

(* Properties. *)

\* A sample carries the value of the row, column or process that its labels and its
\* family name, as it was at some moment of the scrape, whatever comes and goes.
SamplesOwn == ValuesOwn /\ H!ValuesOwn

\* A scrape that reaches its end shows what was there all along once per family, and
\* nothing twice.
SamplesOnce == ShownOnce /\ H!ShownOnce
=============================================================================
