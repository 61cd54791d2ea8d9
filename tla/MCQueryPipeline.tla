-------------------------- MODULE MCQueryPipeline --------------------------
\* An instance of QueryPipeline with one question, which needs a search.
EXTENDS QueryPipeline

NewsSpec == PipelineInit /\ question = "news" /\ [][PipelineNext]_pipelineVars

=============================================================================
