---------------------------- MODULE MCExecGuard ----------------------------
(* Instances of ExecGuard: a malicious program, a clean one, notify-send,  *)
(* and malware that is not ELF (in the safety run) or too large (in the    *)
(* liveness run), each at a path of its own.  Users put the malicious      *)
(* program at the clean one's path and the other way round.                *)
EXTENDS ExecGuard

CONSTANTS e1, e2, e3, clean, mal, script, huge, notify,
          atClean, atMal, atScript, atHuge, atNotify

TwoExecs    == {e1, e2}
ThreeExecs  == {e1, e2, e3}
Permuted    == Permutations(ThreeExecs)
FewFiles    == {clean, mal, notify}
WithScript  == {clean, mal, script, notify}
WithHuge    == {clean, mal, huge, notify}
OneMalware  == {mal}
BadScript   == {mal, script}
BadHuge     == {mal, huge}
Scripts     == {script}
HugeFiles   == {huge}
ScriptPaths == {atClean, atMal, atScript, atNotify}
HugePaths   == {atClean, atMal, atHuge, atNotify}
FewPaths    == {atClean, atMal, atNotify}
NotNotify   == {atClean, atMal}
Swaps       == {<<atMal, atClean>>, <<atClean, atMal>>}
StartOf(ps) == [p \in ps |-> CASE p = atClean  -> clean
                               [] p = atMal    -> mal
                               [] p = atScript -> script
                               [] p = atHuge   -> huge
                               [] p = atNotify -> notify]
StartScript == StartOf(ScriptPaths)
StartHuge   == StartOf(HugePaths)
StartFew    == StartOf(FewPaths)
=============================================================================
