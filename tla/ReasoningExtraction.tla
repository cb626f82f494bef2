-------------------------- MODULE ReasoningExtraction --------------------------
(***************************************************************************)
(* Where reasoning comes from and what it may be called: the provider      *)
(* client reads it off a message (providers/client.py), the gateway stores *)
(* it under the label that the submission earned (provenance.py).          *)
(***************************************************************************)
EXTENDS Integers, Sequences, SequencesExt

CONSTANT MaxDetails  \* bound: detail blocks of a message

ASSUME ExtractionAssumption == MaxDetails \in Nat

VARIABLES
    message,     \* what the provider sent
    extraction,  \* extract_reasoning of it
    label,       \* the stored provenance
    verified     \* the submission carried the capture credential

extractionVars == <<message, extraction, label, verified>>

\* A detail block: its type, and which of its fields hold something.  Types
\* are recognised as raw, as a summary, not at all, or missing.
Blocks   == [type : {"raw", "summary", "unknown", "missing"},
             text : BOOLEAN, summary : BOOLEAN]
NotBlock == [type |-> "not_an_object", text |-> FALSE, summary |-> FALSE]
Details  == UNION {[1 .. n -> Blocks \cup {NotBlock}] : n \in 0 .. MaxDetails}

\* field: a raw reasoning field holds text.  single: the details are one
\* block.  opaque: they are something else.
Messages ==
    [field : BOOLEAN, form : {"list"}, details : Details]
    \cup [field : BOOLEAN, form : {"single", "opaque"}, details : [1 .. 1 -> Blocks]]

Extracted(provenance, from) == [provenance |-> provenance, from |-> from]
Nothing == Extracted("UNAVAILABLE", {})

\* Mutant: text of an unknown block is taken for a trace.
BlockLenient(b) ==
    IF b.text THEN "PROVIDER_EXPOSED_TRACE"
    ELSE IF b.summary THEN "AGENT_AUTHORED_SUMMARY" ELSE "UNAVAILABLE"

\* _normalize_detail: the type decides; without one the field does.
Block(b) ==
    CASE b.type = "raw"     -> IF b.text THEN "PROVIDER_EXPOSED_TRACE" ELSE "UNAVAILABLE"
      [] b.type = "summary" -> IF b.summary THEN "AGENT_AUTHORED_SUMMARY" ELSE "UNAVAILABLE"
      [] b.type = "missing" ->
            IF b.text THEN "PROVIDER_EXPOSED_TRACE"
            ELSE IF b.summary THEN "AGENT_AUTHORED_SUMMARY" ELSE "UNAVAILABLE"
      [] OTHER -> "UNAVAILABLE"

Called(ds, provenance) == {i \in DOMAIN ds : Block(ds[i]) = provenance}

\* _best: raw blocks if there are any, else summaries; never both.
Combined(ds) ==
    IF Called(ds, "PROVIDER_EXPOSED_TRACE") # {}
    THEN Extracted("PROVIDER_EXPOSED_TRACE", Called(ds, "PROVIDER_EXPOSED_TRACE"))
    ELSE IF Called(ds, "AGENT_AUTHORED_SUMMARY") # {}
         THEN Extracted("AGENT_AUTHORED_SUMMARY", Called(ds, "AGENT_AUTHORED_SUMMARY"))
         ELSE Nothing

\* extract_reasoning; 0 stands for a raw field.
ExtractReasoning(m) ==
    IF m.field THEN Extracted("PROVIDER_EXPOSED_TRACE", {0})
    ELSE IF m.form = "opaque" THEN Nothing
    ELSE Combined(m.details)

\* provenance_for_submission.
StoredLabel(claim, credential) ==
    CASE ~credential /\ claim = "PROVIDER_EXPOSED_TRACE" -> "CALLER_ASSERTED_PROVIDER_TRACE"
      [] ~credential /\ claim = "AGENT_AUTHORED_SUMMARY" -> "CALLER_ASSERTED_SUMMARY"
      [] OTHER -> claim

\* capture_credential_verified: neither side may be blank.
Verified(configured, offered) == configured # "blank" /\ configured = offered

-----------------------------------------------------------------------------
ExtractionInit ==
    /\ message \in Messages
    /\ extraction = Nothing
    /\ label = "none"
    /\ verified = FALSE

Extract ==
    /\ label = "none" /\ extraction = Nothing
    /\ extraction' = ExtractReasoning(message)
    /\ label' = "extracted"
    /\ UNCHANGED <<message, verified>>

Claims == {"PROVIDER_EXPOSED_TRACE", "AGENT_AUTHORED_SUMMARY", "UNAVAILABLE"}

\* The agent submits what was extracted, with the credential it was given;
\* or a caller without the right one claims what it likes.
Submit ==
    /\ label = "extracted"
    /\ \E configured, offered \in {"blank", "token"}, forged \in BOOLEAN, claim \in Claims :
         LET ok == Verified(configured, IF forged /\ offered = "token" THEN "guess" ELSE offered)
         IN  /\ claim # extraction.provenance => ~(configured = "token" /\ offered = "token" /\ ~forged)
             /\ verified' = (configured = "token" /\ offered = "token" /\ ~forged)
             /\ label' = StoredLabel(claim, ok)
    /\ UNCHANGED <<message, extraction>>

ExtractionNext == Extract \/ Submit
ExtractionSpec == ExtractionInit /\ [][ExtractionNext]_extractionVars

-----------------------------------------------------------------------------
(* Properties. *)

\* What is called a provider's trace in the evidence, or a summary, came
\* through the credential from a message that really held one, and consists of
\* that alone: never of encrypted or unknown blocks, never of both kinds.
LabelsAreEarned ==
    LET raw(b) == b.text /\ b.type \in {"raw", "missing"}
        sum(b) == b.summary /\ b.type \in {"summary", "missing"}
    IN  /\ label = "PROVIDER_EXPOSED_TRACE" =>
              /\ verified
              /\ extraction.from # {}
              /\ \A i \in extraction.from :
                    IF i = 0 THEN message.field ELSE raw(message.details[i])
        /\ label = "AGENT_AUTHORED_SUMMARY" =>
              /\ verified /\ ~message.field
              /\ extraction.from # {}
              /\ \A i \in extraction.from : sum(message.details[i])
              /\ \A i \in DOMAIN message.details : ~raw(message.details[i])

=============================================================================
