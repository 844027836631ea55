--------------------------- MODULE MCTaskPipeline ---------------------------
(* Instances of TaskPipeline for TLC: the plans are cut from the presets of  *)
(* pipeline_presets.py and from custom plans with images, keeping one step   *)
(* of each kind the control flow tells apart.                                *)
EXTENDS TaskPipeline, TLC

\* A single task: SERP review, scraping, the test-mode gate, the article.
SerpPlan == <<"serp_research", "competitor_scraping", "primary_generation",
              "meta_generation">>

\* A custom plan with image review.
ImagePlan == <<"image_generation", "primary_generation", "image_inject",
               "meta_generation">>

\* Steps that reload the task or may be skipped, without operator gates.
LlmPlan == <<"final_structure_analysis", "structure_fact_checking",
             "primary_generation", "meta_generation">>

\* The shortest plan that makes an article (preset "about").
AboutPlan == <<"primary_generation_about", "meta_generation">>

\* A project page with every kind of pause.
SerpImagePlan == <<"serp_research", "competitor_scraping", "image_generation",
                   "primary_generation", "meta_generation">>

\* Deliveries are interchangeable.
Symmetry == Permutations(Jobs)
=============================================================================
