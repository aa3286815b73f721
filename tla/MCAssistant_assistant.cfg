SPECIFICATION AssistantSpec
CONSTANTS
  openai = openai
  groq = groq
  mini = mini
  nano = nano
  llama = llama
  Providers = {openai, groq}
  Models = {mini, nano, llama}
  Settings <- Environments
  MaxAsked = 3
INVARIANTS
  ChainInOrder
  AnswersItsQuestion
PROPERTY KeepsPromise
CHECK_DEADLOCK FALSE
