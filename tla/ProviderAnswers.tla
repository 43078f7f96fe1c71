-------------------------- MODULE ProviderAnswers --------------------------
(***************************************************************************)
(* What a call to a media provider comes to for the worker that makes it:  *)
(* the clients of src/app/services turn what the network and the provider  *)
(* do into exceptions and failed answers, each in its own way, and the     *)
(* worker turns those into a verdict: may this job be run again?           *)
(***************************************************************************)

\* The clients.  "comfyui" makes drafts on a machine of the operator's own,
\* images and videos; without any key set there is the "disabled" provider.
VideoProviders == {"seedance", "kling", "comfyui"}
Providers == VideoProviders \cup {"magnific"}

\* A request the provider refuses, and one whose answer does not say whether
\* it was carried out.
Refusals == {"unauthorized", "no_credits", "unprocessable", "too_many",
             "moderated", "image_unreachable", "other_status"}
Losses == {"timeout", "network", "malformed", "no_task_id"}

\* SeedanceErrorCategory, as an exception or as the reason of a failed answer.
SeedanceCategory(trouble) ==
    CASE trouble = "unauthorized" -> "authentication_failed"
      [] trouble = "no_credits" -> "insufficient_credits"
      [] trouble = "unprocessable" -> "invalid_input"
      [] trouble = "too_many" -> "rate_limited"
      [] trouble = "moderated" -> "moderation_rejected"
      [] trouble = "image_unreachable" -> "source_image_unreachable"
      [] trouble = "timeout" -> "provider_timeout"
      [] trouble = "no_task_id" -> "invalid_provider_response"
      [] OTHER -> "provider_failed"

\* Kling has two exceptions.
KlingError(trouble) ==
    IF trouble = "unauthorized" THEN "VideoProviderNotConfigured" ELSE "RuntimeError"

\* response.json() of a body that is no JSON is a ValueError.
ComfyUIError(trouble) == IF trouble = "malformed" THEN "ValueError" ELSE "ComfyUIError"
MagnificError(trouble) ==
    CASE trouble = "malformed" -> "ValueError"
      [] trouble = "no_task_id" -> "RuntimeError"
      [] OTHER -> "HTTPError"

Reported(p, trouble) ==
    CASE p = "seedance" -> SeedanceCategory(trouble)
      [] p = "kling" -> KlingError(trouble)
      [] p = "comfyui" -> ComfyUIError(trouble)
      [] p = "magnific" -> MagnificError(trouble)

\* A task of the provider's that failed, as check_task reports it.
FailureReasons(p) ==
    CASE p = "seedance" -> {"moderation_rejected", "source_image_unreachable", "provider_failed"}
      [] p = "kling" -> {"reported failed"}
      [] p = "comfyui" -> {"generation_failed"}
      [] p = "magnific" -> {"RuntimeError"}

\* A task that ended well and whose answer has no media in it.
EmptyReason(p) ==
    CASE p = "seedance" -> "invalid_provider_response"
      [] p \in {"kling", "magnific"} -> "RuntimeError"
      [] p = "comfyui" -> "generation_failed"

\* A task id that is another provider's: Seedance does not decode it, Kling
\* and fal.ai do not know it.
ForeignReason(p) ==
    IF p = "seedance" THEN "invalid_provider_response" ELSE Reported(p, "other_status")

\* _NON_RETRYABLE_CATEGORIES and _NON_RETRYABLE_TASK_REASONS are one set.
NonRetryable == {"authentication_failed", "invalid_input", "source_image_unreachable",
                 "insufficient_credits", "moderation_rejected", "invalid_provider_response"}

NotConfigured == {"GenerationNotConfigured", "VideoProviderNotConfigured"}

\* The except clauses of process_one_job.
Verdict(reason) ==
    IF reason \in NotConfigured \cup {"ValueError"} \cup NonRetryable THEN "final"
    ELSE "retryable"

RefusedVerdicts(p) == {Verdict(Reported(p, x)) : x \in Refusals \cup Losses}
LostVerdicts(p) == {Verdict(Reported(p, x)) : x \in Losses}
BrokenVerdicts(p) == {Verdict(Reported(p, x)) : x \in (Refusals \cup Losses) \ {"no_task_id"}}
FailedVerdicts(p) == {Verdict(reason) : reason \in FailureReasons(p)}
=============================================================================
