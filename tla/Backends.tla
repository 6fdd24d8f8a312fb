------------------------------ MODULE Backends ------------------------------
(***************************************************************************)
(* Which encoder a transcode runs on.  The probes try what the host really *)
(* offers; the worker reports a status from them (resolve_backend_runtime_ *)
(* status) and, separately, every execution selects its back end from      *)
(* fresh probes (select_execution_backend).                                *)
(***************************************************************************)
EXTENDS Integers, Sequences, FiniteSets

None == "none"
Cpu == "cpu"

\* BACKEND_PREFERENCE_ALIASES: a spelling of a preference to its normal form.
Normalised == [cpu_only |-> Cpu, prefer_intel_igpu |-> "intel_auto", auto |-> "intel_auto",
               qsv |-> "intel_qsv", vaapi |-> "intel_vaapi",
               prefer_nvidia_gpu |-> "nvidia_gpu", prefer_amd_gpu |-> "amd_gpu"]
Mode(preference) ==
    IF preference \in DOMAIN Normalised THEN Normalised[preference] ELSE Cpu
IntelModes == {"intel_auto", "intel_qsv", "intel_vaapi"}

\* A render node: qsv holds the initialisations of QSV that work on it, in
\* tests of ffmpeg; vainfo and vaapi say whether vainfo and an encode work.
RenderNode == [vendor: {"intel", "amd"}, readable: BOOLEAN,
               qsv: SUBSET {"direct", "derived"}, vainfo: BOOLEAN, vaapi: BOOLEAN]

\* accels is what ffmpeg -hwaccels lists; nvidia and amf, whether a device is
\* visible and whether its smoke test passes; winQsv, whether QSV's default
\* initialisation works on Windows.
Host == [ffmpeg: BOOLEAN, windows: BOOLEAN, nodes: Seq(RenderNode),
         accels: SUBSET {"qsv", "vaapi"}, vainfo: BOOLEAN, winQsv: BOOLEAN,
         nvidia: {"absent", "visible", "works"}, amf: {"absent", "visible", "works"}]

-----------------------------------------------------------------------------
(* The probes.  A probe that succeeds names how and on which node.          *)

Unusable == [usable |-> FALSE, init |-> None, node |-> 0]
Usable(init, node) == [usable |-> TRUE, init |-> init, node |-> node]

NodesOf(h, vendor) == {n \in DOMAIN h.nodes : h.nodes[n].vendor = vendor}

First(S) == CHOOSE n \in S : \A k \in S : n <= k

\* The first node of a vendor is the one every probe of it uses.
FirstNode(h, vendor) == First(NodesOf(h, vendor))

\* _qsv_init_candidates, in the order they are tried
QsvCandidates(h) == IF h.windows THEN <<"default">> ELSE <<"direct", "derived">>

QsvWorks(h, init) ==
    IF h.windows THEN h.winQsv ELSE init \in h.nodes[FirstNode(h, "intel")].qsv

\* Mutant: the first candidate is kept whatever the smoke tests say.
ProbeQsvUntested(h) ==
    IF \/ ~h.ffmpeg \/ "qsv" \notin h.accels
       \/ NodesOf(h, "intel") = {} /\ ~h.windows
    THEN Unusable
    ELSE Usable(QsvCandidates(h)[1], IF h.windows THEN 0 ELSE FirstNode(h, "intel"))

\* probe_intel_qsv: the first candidate whose smoke test passes is kept.
ProbeQsv(h) ==
    LET passing == {n \in DOMAIN QsvCandidates(h) : QsvWorks(h, QsvCandidates(h)[n])}
    IN IF \/ ~h.ffmpeg \/ "qsv" \notin h.accels
          \/ NodesOf(h, "intel") = {} /\ ~h.windows
          \/ passing = {}
       THEN Unusable
       ELSE Usable(QsvCandidates(h)[First(passing)],
                   IF h.windows THEN 0 ELSE FirstNode(h, "intel"))

\* probe_intel_vaapi: the node is there and readable, vainfo is installed and
\* opens it, and ffmpeg encodes on it.
ProbeIntelVaapi(h) ==
    IF NodesOf(h, "intel") = {} THEN Unusable
    ELSE LET n == FirstNode(h, "intel")
         IN IF h.ffmpeg /\ h.nodes[n].readable /\ h.vainfo
                /\ h.nodes[n].vainfo /\ h.nodes[n].vaapi
            THEN Usable("vaapi", n) ELSE Unusable

\* probe_vaapi, on the first AMD node
ProbeAmdVaapi(h) ==
    IF NodesOf(h, "amd") = {} THEN Unusable
    ELSE LET n == FirstNode(h, "amd")
         IN IF h.ffmpeg /\ "vaapi" \in h.accels /\ h.nodes[n].vaapi
            THEN Usable("vaapi", n) ELSE Unusable

\* probe_amf: without a Windows runtime or adapter nothing is tried.
ProbeAmf(h) ==
    IF h.ffmpeg /\ h.windows /\ h.amf = "works" THEN Usable("amf", 0) ELSE Unusable

\* probe_nvenc
ProbeNvenc(h) ==
    IF h.ffmpeg /\ h.nvidia = "works" THEN Usable("nvenc", 0) ELSE Unusable

-----------------------------------------------------------------------------
(* The status a worker reports.                                             *)

Reported(backend, fallback) ==
    [selected |-> backend, usable |-> backend # None, fallback |-> fallback]

\* _hardware_cpu_fallback_or_failure
ReportFallback(h, allow) ==
    IF allow /\ h.ffmpeg THEN Reported(Cpu, TRUE) ELSE Reported(None, FALSE)

\* _resolve_intel_runtime_status
IntelStatus(h, mode, allow) ==
    CASE mode # "intel_vaapi" /\ ProbeQsv(h).usable -> Reported("intel_qsv", FALSE)
      [] mode = "intel_auto" /\ ~ProbeQsv(h).usable /\ ProbeIntelVaapi(h).usable
            -> Reported("intel_vaapi", FALSE)
      [] mode = "intel_vaapi" /\ ProbeIntelVaapi(h).usable -> Reported("intel_vaapi", FALSE)
      [] OTHER -> ReportFallback(h, allow)

\* resolve_backend_runtime_status, on the payloads of probe_execution_backends
Status(h, preference, allow) ==
    LET mode == Mode(preference)
        probed == IF mode = "nvidia_gpu" THEN ProbeNvenc(h).usable
                  ELSE ProbeAmdVaapi(h).usable \/ ProbeAmf(h).usable
    IN IF mode = Cpu THEN Reported(IF h.ffmpeg THEN Cpu ELSE None, FALSE)
       ELSE IF mode \in IntelModes THEN IntelStatus(h, mode, allow)
       ELSE IF probed THEN Reported(mode, FALSE) ELSE ReportFallback(h, allow)

-----------------------------------------------------------------------------
(* The selection an execution makes.                                        *)

CpuCodecs == {"h264", "hevc", "av1"}
HardwareCodecs == {"h264", "hevc"}

NoSelection == [backend |-> None, accelerator |-> None, init |-> None,
                node |-> 0, fallback |-> FALSE]

Accelerated(backend, accelerator, probe) ==
    [backend |-> backend, accelerator |-> accelerator,
     init |-> probe.init, node |-> probe.node, fallback |-> FALSE]

\* _cpu_selection
CpuSelection(codec, fallback) ==
    IF codec \notin CpuCodecs THEN NoSelection
    ELSE [NoSelection EXCEPT !.backend = Cpu, !.accelerator = Cpu, !.fallback = fallback]

\* _accelerated_selection
AcceleratedSelection(h, mode, codec) ==
    CASE codec \notin HardwareCodecs -> NoSelection
      [] codec \in HardwareCodecs /\ mode \in {"intel_auto", "intel_qsv"} /\ ProbeQsv(h).usable
            -> Accelerated("intel_qsv", "qsv", ProbeQsv(h))
      [] codec \in HardwareCodecs /\ ProbeIntelVaapi(h).usable
            /\ (mode = "intel_vaapi" \/ (mode = "intel_auto" /\ ~ProbeQsv(h).usable))
            -> Accelerated("intel_vaapi", "vaapi", ProbeIntelVaapi(h))
      [] codec \in HardwareCodecs /\ mode = "nvidia_gpu" /\ ProbeNvenc(h).usable
            -> Accelerated(mode, "nvenc", ProbeNvenc(h))
      [] codec \in HardwareCodecs /\ mode = "amd_gpu" /\ ProbeAmf(h).usable
            -> Accelerated(mode, "amf", ProbeAmf(h))
      [] codec \in HardwareCodecs /\ mode = "amd_gpu" /\ ~ProbeAmf(h).usable
            /\ ProbeAmdVaapi(h).usable
            -> Accelerated(mode, "vaapi", ProbeAmdVaapi(h))
      [] OTHER -> NoSelection

\* Mutant: the fallback is taken whether or not it is allowed.
SelectAlways(h, preference, allow, codec) ==
    LET accelerated == AcceleratedSelection(h, Mode(preference), codec)
    IN IF Mode(preference) = Cpu THEN CpuSelection(codec, FALSE)
       ELSE IF accelerated # NoSelection THEN accelerated
       ELSE CpuSelection(codec, TRUE)

\* select_execution_backend; NoSelection stands for BackendSelectionError.
Select(h, preference, allow, codec) ==
    LET accelerated == AcceleratedSelection(h, Mode(preference), codec)
    IN IF Mode(preference) = Cpu THEN CpuSelection(codec, FALSE)
       ELSE IF accelerated # NoSelection THEN accelerated
       ELSE IF allow THEN CpuSelection(codec, TRUE)
       ELSE NoSelection
=============================================================================
