---------------------------- MODULE MCCliPipeline ----------------------------
EXTENDS CliPipeline
=============================================================================
