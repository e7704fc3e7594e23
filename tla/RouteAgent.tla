----------------------------- MODULE RouteAgent -----------------------------
(***************************************************************************)
(* How the language model and its guards decide on an upload:              *)
(* src/src/vlm/route_agent.py, without state.  The model sees bands, not   *)
(* numbers; its answer is parsed, and what it wants may be refused by a    *)
(* guard and replaced by the verdict of the hand-written router.           *)
(***************************************************************************)
EXTENDS Naturals

Uncertainties == {"low", "mid", "high"}

LiveTiers == {"good", "fair", "weak"}

Tiers == LiveTiers \union {"outage"}

Pressures == {"low", "mid", "high"}

\* What the model is told.  cold: there is no gallery of reference images.
Context == [uncertainty : Uncertainties, tier : Tiers, pressure : Pressures, cold : BOOLEAN]

\* The band of the load of the cloud, load / max against 1 and 1/2.
CloudPressure(load, max) ==
    IF load >= max THEN "high" ELSE IF 2 * load >= max THEN "mid" ELSE "low"

\* Faulty variant of HardRouteAllows: R5 looks at the pressure only.
HardRouteAllowsWeak(c) ==
    /\ c.tier # "outage" /\ c.pressure # "high"
    /\ c.uncertainty = "high" \/ c.cold
    /\ c.pressure = "low"

\* hard_route_allows_upload: no rule R1 ... R6 refuses.
HardRouteAllows(c) ==
    LET backed == c.uncertainty = "high" \/ c.cold
    IN  /\ c.tier # "outage" /\ c.pressure # "high"       \* R1
        /\ c.uncertainty # "low" \/ c.cold                \* R2
        /\ c.tier = "weak" => backed                      \* R3
        /\ c.pressure = "mid" => backed                   \* R4
        /\ c.uncertainty # "mid" \/ c.cold                \* R6
        /\ c.pressure = "low" /\ c.tier # "weak"          \* R5
        /\ backed

\* The decision policy of the prompt, which is also its text.
PromptAllows(c) ==
    /\ c.tier # "outage" /\ c.pressure # "high"
    /\ \/ c.uncertainty = "high" /\ c.tier \in {"good", "fair"}
       \/ c.uncertainty = "mid" /\ c.tier = "good" /\ c.pressure = "low"
       \/ c.cold /\ c.tier \in {"good", "fair"}

\* What parse_route_json finds in an answer: a route, or none.
Answers == {"cloud", "local", "garbled"}

Parsed(answer) == answer # "garbled"

\* The options of collab.route_agent: hard_route_guard, enforce_context_rules,
\* hard_block_on_outage and cascade_skip_low_uncertainty.
Options == [guard : BOOLEAN, snap : BOOLEAN, block : BOOLEAN, cascade : BOOLEAN]

\* Whether the model is asked at all.
Consulted(options, c) == ~ options.cascade \/ c.uncertainty \in {"mid", "high"} \/ c.cold

\* The upload decide() returns: an answer that could not be parsed stays local;
\* ruled is the verdict of the hand-written router on the same context.
Decided(options, c, answer, ruled) ==
    /\ Parsed(answer)
    /\ IF options.snap
       THEN ruled
       ELSE answer = "cloud" /\ (options.guard => HardRouteAllows(c))
=============================================================================
